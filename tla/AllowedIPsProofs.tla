-------------------------- MODULE AllowedIPsProofs --------------------------
(***************************************************************************)
(* The trie of AllowedIPs for every address width, arena size and set of   *)
(* routes: its shape, its contents and what find and overlaps answer.      *)
(*                                                                         *)
(* The inductive invariant TrieInv says that the arena is one tree (Tree)  *)
(* and that its nodes agree with the table of what was inserted (Agree).   *)
(* A node is added at a leaf or between a node and its child; the split    *)
(* that adds two is one after the other.  Walks down the tree are          *)
(* recursive functions: that they exist, and what they compute, is shown   *)
(* by looking at the least step at which it would fail.                    *)
(***************************************************************************)
EXTENDS AllowedIPs, FiniteSetTheorems, SequenceTheorems, WellFoundedInduction, TLAPS

(* The bits of a are the first ones of b. *)
Pre(a, b) == Len(a) <= Len(b) /\ \A j \in 1..Len(a) : a[j] = b[j]

(* b is longer than a, and a its prefix. *)
Below(a, b) == Pre(a, b) /\ Len(a) < Len(b)
-----------------------------------------------------------------------------
(* Numbers. *)

(* Every set of naturals has a least member. *)
LEMMA HasLeast ==
  ASSUME NEW S \in SUBSET Nat, S # {}
  PROVE  \E x \in S : \A y \in S : x <= y
<1> DEFINE R == OpToRel(<, Nat)
<1>1. IsWellFoundedOn(R, Nat)
  BY NatLessThanWellFounded
<1> HIDE DEF R
<1>2. PICK x \in S : \A y \in S : ~(<<y, x>> \in R)
  BY <1>1, WFMin
<1>3. ASSUME NEW y \in Nat, y < x PROVE <<y, x>> \in R
  <2>1. <<y, x>> \in Nat \X Nat /\ <<y, x>>[1] < <<y, x>>[2]
    BY <1>3
  <2> QED  BY <2>1 DEF R, OpToRel
<1>4. ASSUME NEW y \in S PROVE x <= y
  <2>1. x \in Nat /\ y \in Nat
    OBVIOUS
  <2>2. ~(y < x)
    BY <1>2, <1>3, <2>1
  <2> QED  BY <2>1, <2>2
<1> QED  BY <1>4

(* A set of numbers between 0 and a bound has a greatest member, which Max picks. *)
LEMMA MaxIs ==
  ASSUME NEW n \in Nat, NEW S, S \subseteq 0..n, S # {}
  PROVE  Max(S) \in S /\ \A y \in S : y <= Max(S)
<1> DEFINE T == {n - x : x \in S}
<1>1. T \in SUBSET Nat /\ T # {}
  OBVIOUS
<1> HIDE DEF T
<1>2. PICK t \in T : \A u \in T : t <= u
  BY <1>1, HasLeast
<1>3. PICK x \in S : t = n - x
  BY DEF T
<1>4. ASSUME NEW y \in S PROVE x >= y
  <2>1. n - y \in T
    BY DEF T
  <2>2. t <= n - y /\ x \in 0..n /\ y \in 0..n
    BY <1>2, <2>1
  <2> QED  BY <1>3, <2>2
<1>5. \E z \in S : \A y \in S : z >= y
  BY <1>4
<1>6. Max(S) \in S /\ \A y \in S : Max(S) >= y
  BY <1>5 DEF Max
<1>7. \A y \in S : y \in 0..n
  OBVIOUS
<1> QED  BY <1>6, <1>7

(* The smaller of two numbers. *)
LEMMA MinOfTwo ==
  ASSUME NEW a \in Nat, NEW b \in Nat
  PROVE  Min({a, b}) = IF a <= b THEN a ELSE b
<1> DEFINE m == IF a <= b THEN a ELSE b
<1>1. m \in {a, b} /\ \A y \in {a, b} : m <= y
  OBVIOUS
<1>2. ASSUME NEW x \in {a, b}, \A y \in {a, b} : x <= y PROVE x = m
  BY <1>2
<1> QED  BY <1>1, <1>2 DEF Min
-----------------------------------------------------------------------------
(* Prefixes as sequences of bits. *)

(* What the assumption says of the constants. *)
LEMMA Bits == ADDR_BITS \in Nat \ {0} /\ N \in Nat \ {0} /\ Routes \subseteq Prefix
  BY TrieAssumption

(* A prefix is a sequence of at most ADDR_BITS bits. *)
LEMMA PrefixType ==
  ASSUME NEW p \in Prefix
  PROVE  /\ p \in Seq({0, 1}) /\ Len(p) \in Nat /\ Len(p) <= ADDR_BITS
         /\ DOMAIN p = 1..Len(p) /\ \A j \in 1..Len(p) : p[j] \in {0, 1}
<1>1. PICK k \in 0..ADDR_BITS : p \in [1..k -> {0, 1}]
  BY Bits DEF Prefix
<1>2. k \in Nat /\ k <= ADDR_BITS
  BY Bits
<1>3. p \in Seq({0, 1}) /\ Len(p) = k
  BY <1>1, <1>2
<1> QED  BY <1>1, <1>2, <1>3

(* Every sequence of at most ADDR_BITS bits is a prefix. *)
LEMMA PrefixIntro ==
  ASSUME NEW p \in Seq({0, 1}), Len(p) <= ADDR_BITS
  PROVE  p \in Prefix
<1>1. Len(p) \in 0..ADDR_BITS /\ p \in [1..Len(p) -> {0, 1}]
  BY LenProperties, Bits
<1> QED  BY <1>1 DEF Prefix

(* The root's prefix. *)
LEMMA EmptyIsPrefix == <<>> \in Prefix /\ Len(<<>>) = 0
<1>1. <<>> \in Seq({0, 1}) /\ Len(<<>>) = 0
  BY EmptySeq
<1>2. Len(<<>>) <= ADDR_BITS
  BY <1>1, Bits
<1> QED  BY <1>1, <1>2, PrefixIntro

(* An address is a prefix of full length. *)
LEMMA AddressIsPrefix ==
  ASSUME NEW key \in Address
  PROVE  key \in Prefix /\ Len(key) = ADDR_BITS
<1>1. key \in Seq({0, 1}) /\ Len(key) = ADDR_BITS
  BY Bits DEF Address
<1> QED  BY <1>1, PrefixIntro, Bits

(* The first k bits of a prefix. *)
LEMMA FirstBits ==
  ASSUME NEW p \in Prefix, NEW k \in Nat, k <= Len(p)
  PROVE  /\ SubSeq(p, 1, k) \in Prefix /\ Len(SubSeq(p, 1, k)) = k
         /\ \A j \in 1..k : SubSeq(p, 1, k)[j] = p[j]
         /\ Pre(SubSeq(p, 1, k), p)
<1>1. Len(p) \in Nat /\ Len(p) <= ADDR_BITS /\ \A j \in 1..k : p[j] \in {0, 1}
  BY PrefixType
<1>2. SubSeq(p, 1, k) \in Seq({0, 1}) /\ Len(SubSeq(p, 1, k)) = k
         /\ \A j \in 1..k : SubSeq(p, 1, k)[j] = p[j]
  <2>1. /\ SubSeq(p, 1, k) \in Seq({0, 1})
        /\ Len(SubSeq(p, 1, k)) = IF 1 <= k THEN k - 1 + 1 ELSE 0
        /\ \A j \in 1..(k - 1 + 1) : SubSeq(p, 1, k)[j] = p[1 + j - 1]
    BY <1>1, SubSeqProperties
  <2> QED  BY <2>1
<1>3. SubSeq(p, 1, k) \in Prefix
  <2> DEFINE f == SubSeq(p, 1, k)
  <2>1. f \in Seq({0, 1}) /\ Len(f) = k /\ k <= ADDR_BITS
    BY <1>1, <1>2, Bits
  <2> HIDE DEF f
  <2>2. f \in Prefix
    BY <2>1, PrefixIntro
  <2> QED  BY <2>2 DEF f
<1> QED  BY <1>1, <1>2, <1>3 DEF Pre

(* A prefix of the same length is the same. *)
LEMMA PreEqual ==
  ASSUME NEW p \in Prefix, NEW q \in Prefix, Pre(p, q), Len(p) = Len(q)
  PROVE  p = q
<1>1. p \in Seq({0, 1}) /\ q \in Seq({0, 1})
  BY PrefixType
<1> QED  BY <1>1, SeqEqual DEF Pre

(* Prefixes in the sense of Pre are those that SubSeq cuts off. *)
LEMMA PreIsFront ==
  ASSUME NEW p \in Prefix, NEW q \in Prefix
  PROVE  Pre(p, q) <=> Len(p) <= Len(q) /\ SubSeq(q, 1, Len(p)) = p
<1>1. Len(p) \in Nat /\ Len(q) \in Nat
  BY PrefixType
<1>2. ASSUME Pre(p, q) PROVE SubSeq(q, 1, Len(p)) = p
  <2> DEFINE f == SubSeq(q, 1, Len(p))
  <2>1. Len(p) <= Len(q) /\ \A j \in 1..Len(p) : p[j] = q[j]
    BY <1>2 DEF Pre
  <2>2. f \in Prefix /\ Len(f) = Len(p) /\ \A j \in 1..Len(p) : f[j] = q[j]
    BY <1>1, <2>1, FirstBits
  <2> HIDE DEF f
  <2>3. Pre(f, p)
    BY <2>1, <2>2, <1>1 DEF Pre
  <2> QED  BY <2>2, <2>3, PreEqual DEF f
<1>3. ASSUME Len(p) <= Len(q), SubSeq(q, 1, Len(p)) = p PROVE Pre(p, q)
  BY <1>1, <1>3, FirstBits
<1> QED  BY <1>2, <1>3 DEF Pre

(* IsPrefix of the library is the same relation. *)
LEMMA PreIsPrefix ==
  ASSUME NEW p \in Prefix, NEW q \in Prefix
  PROVE  IsPrefix(p, q) <=> Pre(p, q)
<1>1. SubSeq(p, 1, Len(p)) = p
  BY PrefixType, SubSeqFull
<1> QED  BY <1>1, PreIsFront DEF IsPrefix

(* Pre is an order. *)
LEMMA PreReflexive ==
  ASSUME NEW p \in Prefix
  PROVE  Pre(p, p)
  BY PrefixType DEF Pre

LEMMA PreTransitive ==
  ASSUME NEW p \in Prefix, NEW q \in Prefix, NEW r \in Prefix, Pre(p, q), Pre(q, r)
  PROVE  Pre(p, r)
<1>1. Len(p) \in Nat /\ Len(q) \in Nat /\ Len(r) \in Nat
  BY PrefixType
<1> QED  BY <1>1 DEF Pre

(* Of two prefixes of the same bits the shorter one is a prefix of the other. *)
LEMMA PreComparable ==
  ASSUME NEW p \in Prefix, NEW q \in Prefix, NEW r \in Prefix,
         Pre(p, r), Pre(q, r), Len(p) <= Len(q)
  PROVE  Pre(p, q)
<1>1. Len(p) \in Nat /\ Len(q) \in Nat /\ Len(r) \in Nat
  BY PrefixType
<1> QED  BY <1>1 DEF Pre

(* common_prefix_len is where two prefixes first differ, or one of them ends. *)
LEMMA CommonIs ==
  ASSUME NEW a \in Prefix, NEW b \in Prefix
  PROVE  LET k == common_prefix_len(a, b)
         IN  /\ k \in Nat /\ k <= Len(a) /\ k <= Len(b)
             /\ \A j \in 1..k : a[j] = b[j]
             /\ (k = Len(a) \/ k = Len(b) \/ a[k + 1] # b[k + 1])
<1> DEFINE m == IF Len(a) <= Len(b) THEN Len(a) ELSE Len(b)
           K == {k \in 0..m : SubSeq(a, 1, k) = SubSeq(b, 1, k)}
           k == Max(K)
<1>1. Len(a) \in Nat /\ Len(b) \in Nat /\ Len(a) <= ADDR_BITS /\ ADDR_BITS \in Nat
  BY PrefixType, Bits
<1>2. common_prefix_len(a, b) = k
  BY <1>1, MinOfTwo DEF common_prefix_len
<1>3. m \in Nat /\ m <= Len(a) /\ m <= Len(b) /\ (m = Len(a) \/ m = Len(b))
  BY <1>1
<1> HIDE DEF m
<1>4. SubSeq(a, 1, 0) = SubSeq(b, 1, 0)
  BY SubSeqEmpty
<1>5. K \subseteq 0..m /\ K # {}
  <2>1. 0 \in K
    BY <1>3, <1>4
  <2> QED  BY <2>1
<1>6. k \in K /\ \A y \in K : y <= k
  <2> HIDE DEF K
  <2> QED  BY <1>3, <1>5, MaxIs
<1> HIDE DEF k
<1>7. k \in Nat /\ k <= m /\ SubSeq(a, 1, k) = SubSeq(b, 1, k)
  <2>1. k \in 0..m /\ SubSeq(a, 1, k) = SubSeq(b, 1, k)
    BY <1>6
  <2> QED  BY <1>3, <2>1
<1>8. \A j \in 1..k : a[j] = b[j]
  <2>1. k <= Len(a) /\ k <= Len(b)
    BY <1>1, <1>3, <1>7
  <2>2. \A j \in 1..k : SubSeq(a, 1, k)[j] = a[j]
    BY <1>7, <2>1, FirstBits
  <2>3. \A j \in 1..k : SubSeq(b, 1, k)[j] = b[j]
    BY <1>7, <2>1, FirstBits
  <2> QED  BY <1>7, <2>2, <2>3
<1>9. ASSUME k < m, a[k + 1] = b[k + 1] PROVE FALSE
  <2> DEFINE f == SubSeq(a, 1, k + 1)
             g == SubSeq(b, 1, k + 1)
  <2>0. k + 1 \in Nat /\ k + 1 <= Len(a) /\ k + 1 <= Len(b)
    BY <1>1, <1>3, <1>7, <1>9
  <2>1. f \in Prefix /\ Len(f) = k + 1 /\ \A j \in 1..(k + 1) : f[j] = a[j]
    BY <2>0, FirstBits
  <2>2. g \in Prefix /\ Len(g) = k + 1 /\ \A j \in 1..(k + 1) : g[j] = b[j]
    BY <2>0, FirstBits
  <2>3. \A j \in 1..(k + 1) : a[j] = b[j]
    BY <1>7, <1>8, <1>9
  <2> HIDE DEF f, g
  <2>4. Pre(f, g)
    BY <2>0, <2>1, <2>2, <2>3 DEF Pre
  <2>5. f = g
    BY <2>1, <2>2, <2>4, PreEqual
  <2>6. k + 1 \in K
    BY <1>3, <1>7, <1>9, <2>5 DEF f, g
  <2> QED  BY <1>6, <1>7, <2>6
<1>10. k \in Nat /\ k <= Len(a) /\ k <= Len(b)
         /\ (k = Len(a) \/ k = Len(b) \/ a[k + 1] # b[k + 1])
  BY <1>1, <1>3, <1>7, <1>9
<1> QED  BY <1>2, <1>8, <1>10

(* It is the whole of b when b is a prefix of a. *)
LEMMA CommonIsAll ==
  ASSUME NEW a \in Prefix, NEW b \in Prefix
  PROVE  /\ common_prefix_len(a, b) = Len(b) <=> Pre(b, a)
         /\ common_prefix_len(a, b) = Len(a) <=> Pre(a, b)
<1> DEFINE k == common_prefix_len(a, b)
<1>1. /\ k \in Nat /\ k <= Len(a) /\ k <= Len(b)
      /\ \A j \in 1..k : a[j] = b[j]
      /\ (k = Len(a) \/ k = Len(b) \/ a[k + 1] # b[k + 1])
  BY CommonIs
<1>2. Len(a) \in Nat /\ Len(b) \in Nat
  BY PrefixType
<1> HIDE DEF k
<1>3. k = Len(b) <=> Pre(b, a)
  BY <1>1, <1>2 DEF Pre
<1>4. k = Len(a) <=> Pre(a, b)
  BY <1>1, <1>2 DEF Pre
<1> QED  BY <1>3, <1>4 DEF k
-----------------------------------------------------------------------------
(* Shapes: n nodes with the prefixes pf and the children ch. *)

(* The child of node i on the way to the bits of p. *)
On(pf, ch, i, p) == ch[i][p[Len(pf[i]) + 1]]

Shape(n, pf, ch) ==
  /\ n \in Nat /\ n >= 1
  /\ pf \in [1..n -> Prefix] /\ ch \in [1..n -> [{0, 1} -> Nat]]
  /\ pf[1] = <<>>
  /\ \A i, j \in 1..n : pf[i] = pf[j] => i = j
  /\ \A i \in 1..n, b \in {0, 1} :
       ch[i][b] # None => /\ ch[i][b] \in 1..n /\ Below(pf[i], pf[ch[i][b]])
                          /\ pf[ch[i][b]][Len(pf[i]) + 1] = b
  /\ \A i, j \in 1..n : Below(pf[i], pf[j]) =>
       On(pf, ch, i, pf[j]) # None /\ Pre(pf[On(pf, ch, i, pf[j])], pf[j])

(* What Shape says of one child. *)
LEMMA ChildInShape ==
  ASSUME NEW n, NEW pf, NEW ch, Shape(n, pf, ch),
         NEW i \in 1..n, NEW b \in {0, 1}, ch[i][b] # None
  PROVE  /\ ch[i][b] \in 1..n /\ Below(pf[i], pf[ch[i][b]])
         /\ pf[ch[i][b]][Len(pf[i]) + 1] = b
  BY DEF Shape

(* A longer prefix has a bit after the shorter one, which names the branch. *)
LEMMA BelowBits ==
  ASSUME NEW a \in Prefix, NEW b \in Prefix, Below(a, b)
  PROVE  b[Len(a) + 1] \in {0, 1} /\ Len(a) \in Nat /\ Len(b) \in Nat /\ Len(a) + 1 <= Len(b)
<1>1. Len(a) \in Nat /\ Len(b) \in Nat /\ \A j \in 1..Len(b) : b[j] \in {0, 1}
  BY PrefixType
<1>2. Len(a) < Len(b)
  BY DEF Below
<1>3. Len(a) + 1 \in 1..Len(b)
  BY <1>1, <1>2
<1> QED  BY <1>1, <1>2, <1>3

(* Below goes through a longer prefix, and the branch stays the same. *)
LEMMA BelowPre ==
  ASSUME NEW a \in Prefix, NEW b \in Prefix, NEW c \in Prefix, Below(a, b), Pre(b, c)
  PROVE  Below(a, c) /\ b[Len(a) + 1] = c[Len(a) + 1]
<1>1. Len(a) \in Nat /\ Len(b) \in Nat /\ Len(c) \in Nat /\ Len(a) + 1 <= Len(b)
  BY PrefixType, BelowBits
<1>2. Pre(a, c)
  BY PreTransitive DEF Below
<1>3. Len(a) + 1 \in 1..Len(b)
  BY <1>1
<1>4. Len(b) <= Len(c) /\ b[Len(a) + 1] = c[Len(a) + 1]
  BY <1>3 DEF Pre
<1> QED  BY <1>1, <1>2, <1>4 DEF Below

(* What is strictly below is not above. *)
LEMMA BelowNotPre ==
  ASSUME NEW a \in Prefix, NEW b \in Prefix, Below(a, b)
  PROVE  ~Pre(b, a)
  BY PrefixType DEF Below, Pre

(* The node on the way to p that has no child there, or one that is no     *)
(* prefix of p, is the last node whose prefix is one of p.                 *)
LEMMA LastOnTheWay ==
  ASSUME NEW n, NEW pf, NEW ch, Shape(n, pf, ch),
         NEW i \in 1..n, NEW p \in Prefix, Below(pf[i], p),
         On(pf, ch, i, p) = None \/ ~Pre(pf[On(pf, ch, i, p)], p)
  PROVE  \A j \in 1..n : Pre(pf[j], p) => Pre(pf[j], pf[i])
<1> SUFFICES ASSUME NEW j \in 1..n, Pre(pf[j], p), ~Pre(pf[j], pf[i]) PROVE FALSE
  OBVIOUS
<1>1. pf[i] \in Prefix /\ pf[j] \in Prefix
  BY DEF Shape
<1>2. Len(pf[i]) \in Nat /\ Len(pf[j]) \in Nat
  BY <1>1, PrefixType
<1>3. Pre(pf[i], p)
  BY DEF Below
<1>4. Len(pf[i]) < Len(pf[j])
  BY <1>1, <1>2, <1>3, PreComparable
<1>5. Below(pf[i], pf[j])
  BY <1>1, <1>2, <1>3, <1>4, PreComparable DEF Below
<1>6. pf[j][Len(pf[i]) + 1] = p[Len(pf[i]) + 1]
  BY <1>1, <1>5, BelowPre
<1>7. On(pf, ch, i, pf[j]) = On(pf, ch, i, p)
  BY <1>6 DEF On
<1>8. On(pf, ch, i, p) # None /\ Pre(pf[On(pf, ch, i, p)], pf[j])
  BY <1>5, <1>7 DEF Shape
<1>9. pf[On(pf, ch, i, p)] \in Prefix
  <2>1. p[Len(pf[i]) + 1] \in {0, 1}
    BY <1>1, BelowBits
  <2>2. On(pf, ch, i, p) \in 1..n
    BY <1>8, <2>1 DEF Shape, On
  <2> QED  BY <2>2 DEF Shape
<1> QED  BY <1>1, <1>8, <1>9, PreTransitive

(* pg and cg have one node more, for p, which is a child of node i. *)
AddsNode(n, pf, ch, i, p, pg, cg) ==
  /\ pg \in [1..(n + 1) -> Prefix] /\ cg \in [1..(n + 1) -> [{0, 1} -> Nat]]
  /\ \A j \in 1..n : pg[j] = pf[j]
  /\ pg[n + 1] = p
  /\ \A j \in 1..n, b \in {0, 1} :
       cg[j][b] = IF j = i /\ b = p[Len(pf[i]) + 1] THEN n + 1 ELSE ch[j][b]

(* A leaf for p below the last node on its way. *)
AddsLeaf(n, pf, ch, i, p, pg, cg) ==
  /\ Below(pf[i], p) /\ On(pf, ch, i, p) = None
  /\ AddsNode(n, pf, ch, i, p, pg, cg)
  /\ \A b \in {0, 1} : cg[n + 1][b] = None

(* A leaf hung on a free branch keeps the shape. *)
LEMMA ShapeLeaf ==
  ASSUME NEW n, NEW pf, NEW ch, NEW i \in 1..n, NEW p \in Prefix, NEW pg, NEW cg,
         Shape(n, pf, ch), AddsLeaf(n, pf, ch, i, p, pg, cg)
  PROVE  Shape(n + 1, pg, cg)
<1> SUFFICES ASSUME Below(pf[i], p), On(pf, ch, i, p) = None,
                    pg \in [1..(n + 1) -> Prefix], cg \in [1..(n + 1) -> [{0, 1} -> Nat]],
                    \A j \in 1..n : pg[j] = pf[j], pg[n + 1] = p,
                    \A j \in 1..n, b \in {0, 1} :
                      cg[j][b] = IF j = i /\ b = p[Len(pf[i]) + 1] THEN n + 1 ELSE ch[j][b],
                    \A b \in {0, 1} : cg[n + 1][b] = None
             PROVE  Shape(n + 1, pg, cg)
  BY DEF AddsLeaf, AddsNode
<1> DEFINE B == p[Len(pf[i]) + 1]
<1>1. n \in Nat /\ n >= 1 /\ n + 1 \in Nat /\ None = 0
  BY DEF Shape, None
<1>2. \A j \in 1..(n + 1) : j \in 1..n \/ j = n + 1
  BY <1>1
<1>3. \A j \in 1..n : j # n + 1 /\ j \in 1..(n + 1)
  BY <1>1
<1>4. \A j \in 1..n : pf[j] \in Prefix
  BY DEF Shape
<1>5. B \in {0, 1}
  BY <1>4, BelowBits
<1>6. \A j \in 1..n : Pre(pf[j], p) => Pre(pf[j], pf[i])
  BY LastOnTheWay
<1>7. \A j \in 1..n : ~Pre(p, pf[j])
  <2> SUFFICES ASSUME NEW j \in 1..n, Pre(p, pf[j]) PROVE FALSE
    OBVIOUS
  <2>1. Below(pf[i], pf[j]) /\ pf[j][Len(pf[i]) + 1] = B
    BY <1>4, BelowPre
  <2>2. On(pf, ch, i, pf[j]) = None
    BY <2>1 DEF On
  <2> QED  BY <2>1, <2>2 DEF Shape
<1>8. pg[1] = <<>>
  BY <1>1 DEF Shape
<1>9. ASSUME NEW j \in 1..(n + 1), NEW k \in 1..(n + 1), pg[j] = pg[k] PROVE j = k
  <2>1. \A l \in 1..n : pf[l] # p
    BY <1>7, PreReflexive
  <2>2. CASE j \in 1..n /\ k \in 1..n
    <3>1. pf[j] = pf[k]
      BY <1>9, <2>2
    <3> QED  BY <2>2, <3>1 DEF Shape
  <2>3. CASE j \in 1..n /\ k = n + 1
    BY <1>9, <2>1, <2>3
  <2>4. CASE j = n + 1 /\ k \in 1..n
    BY <1>9, <2>1, <2>4
  <2> QED  BY <1>2, <2>2, <2>3, <2>4
<1>10. ASSUME NEW j \in 1..(n + 1), NEW b \in {0, 1}, cg[j][b] # None
       PROVE  /\ cg[j][b] \in 1..(n + 1) /\ Below(pg[j], pg[cg[j][b]])
              /\ pg[cg[j][b]][Len(pg[j]) + 1] = b
  <2>1. j \in 1..n
    BY <1>2, <1>10
  <2>2. CASE j = i /\ b = B
    <3>1. cg[j][b] = n + 1
      BY <2>1, <2>2
    <3>2. n + 1 \in 1..(n + 1) /\ pg[j] = pf[i] /\ pg[n + 1] = p
      BY <1>1, <2>2
    <3> QED  BY <2>2, <3>1, <3>2
  <2>3. CASE ~(j = i /\ b = B)
    <3>1. cg[j][b] = ch[j][b]
      BY <2>1, <2>3
    <3>2. ch[j][b] \in 1..n /\ Below(pf[j], pf[ch[j][b]]) /\ pf[ch[j][b]][Len(pf[j]) + 1] = b
      BY <1>10, <2>1, <3>1 DEF Shape
    <3> QED  BY <1>3, <2>1, <3>1, <3>2
  <2> QED  BY <2>2, <2>3
<1>11. ASSUME NEW j \in 1..(n + 1), NEW k \in 1..(n + 1), Below(pg[j], pg[k])
       PROVE  On(pg, cg, j, pg[k]) # None /\ Pre(pg[On(pg, cg, j, pg[k])], pg[k])
  <2>1. pg[j] \in Prefix /\ pg[k] \in Prefix
    OBVIOUS
  <2>2. j \in 1..n
    <3>1. CASE j = n + 1 /\ k = n + 1
      BY <1>11, <2>1, <3>1, PrefixType DEF Below
    <3>2. CASE j = n + 1 /\ k \in 1..n
      BY <1>7, <1>11, <3>2 DEF Below
    <3> QED  BY <1>2, <3>1, <3>2
  <2>3. pg[k][Len(pf[j]) + 1] \in {0, 1}
    BY <1>11, <2>1, <2>2, BelowBits
  <2>4. CASE k \in 1..n
    <3>1. On(pf, ch, j, pf[k]) # None /\ Pre(pf[On(pf, ch, j, pf[k])], pf[k])
      BY <1>11, <2>2, <2>4 DEF Shape
    <3>2. On(pg, cg, j, pg[k]) = On(pf, ch, j, pf[k])
      <4>1. CASE j = i /\ pf[k][Len(pf[i]) + 1] = B
        BY <3>1, <4>1 DEF On
      <4>2. CASE ~(j = i /\ pf[k][Len(pf[i]) + 1] = B)
        BY <2>2, <2>3, <2>4, <4>2 DEF On
      <4> QED  BY <4>1, <4>2
    <3>3. On(pf, ch, j, pf[k]) \in 1..n
      BY <2>2, <2>3, <2>4, <3>1 DEF On, Shape
    <3> QED  BY <2>4, <3>1, <3>2, <3>3
  <2>5. CASE k = n + 1
    <3>1. Below(pf[j], p)
      BY <1>11, <2>2, <2>5
    <3>2. CASE j = i
      <4>1. On(pg, cg, j, pg[k]) = n + 1
        BY <1>5, <2>2, <2>5, <3>2 DEF On
      <4> QED  BY <1>1, <4>1, <2>5, PreReflexive
    <3>3. CASE j # i
      <4>1. Pre(pf[j], pf[i])
        BY <1>6, <2>2, <3>1 DEF Below
      <4>2. Below(pf[j], pf[i])
        <5>1. Len(pf[j]) \in Nat /\ Len(pf[i]) \in Nat
          BY <1>4, <2>2, PrefixType
        <5>2. pf[j] # pf[i]
          BY <2>2, <3>3 DEF Shape
        <5>3. Len(pf[j]) # Len(pf[i])
          BY <1>4, <2>2, <4>1, <5>2, PreEqual
        <5> QED  BY <4>1, <5>1, <5>3 DEF Below, Pre
      <4>3. On(pf, ch, j, pf[i]) # None /\ Pre(pf[On(pf, ch, j, pf[i])], pf[i])
        BY <2>2, <4>2 DEF Shape
      <4>4. pf[i][Len(pf[j]) + 1] = p[Len(pf[j]) + 1]
        BY <1>4, <2>2, <4>2, BelowPre DEF Below
      <4>5. On(pg, cg, j, pg[k]) = On(pf, ch, j, pf[i])
        BY <2>2, <2>3, <2>5, <3>3, <4>4 DEF On
      <4>6. On(pf, ch, j, pf[i]) \in 1..n
        BY <2>2, <2>3, <2>5, <4>3, <4>4 DEF On, Shape
      <4>7. Pre(pf[On(pf, ch, j, pf[i])], p)
        BY <1>4, <4>3, <4>6, PreTransitive DEF Below
      <4> QED  BY <2>5, <4>3, <4>5, <4>6, <4>7
    <3> QED  BY <3>2, <3>3
  <2> QED  BY <1>2, <2>4, <2>5
<1>12. n + 1 >= 1
  BY <1>1
<1> QED  BY ONLY <1>1, <1>8, <1>9, <1>10, <1>11, <1>12,
                 pg \in [1..(n + 1) -> Prefix], cg \in [1..(n + 1) -> [{0, 1} -> Nat]] DEF Shape

(* A node for m between node i and the child c it has on the way to m. *)
AddsBetween(n, pf, ch, i, m, c, pg, cg) ==
  /\ Below(pf[i], m) /\ c = On(pf, ch, i, m) /\ Below(m, pf[c])
  /\ AddsNode(n, pf, ch, i, m, pg, cg)
  /\ \A b \in {0, 1} : cg[n + 1][b] = IF b = pf[c][Len(m) + 1] THEN c ELSE None

(* So does a node put between a node and its child. *)
LEMMA ShapeBetween ==
  ASSUME NEW n, NEW pf, NEW ch, NEW i \in 1..n, NEW m \in Prefix, NEW c \in 1..n,
         NEW pg, NEW cg,
         Shape(n, pf, ch), AddsBetween(n, pf, ch, i, m, c, pg, cg)
  PROVE  Shape(n + 1, pg, cg)
<1> SUFFICES ASSUME Below(pf[i], m), c = On(pf, ch, i, m), Below(m, pf[c]),
                    pg \in [1..(n + 1) -> Prefix], cg \in [1..(n + 1) -> [{0, 1} -> Nat]],
                    \A j \in 1..n : pg[j] = pf[j], pg[n + 1] = m,
                    \A j \in 1..n, b \in {0, 1} :
                      cg[j][b] = IF j = i /\ b = m[Len(pf[i]) + 1] THEN n + 1 ELSE ch[j][b],
                    \A b \in {0, 1} : cg[n + 1][b] = IF b = pf[c][Len(m) + 1] THEN c ELSE None
             PROVE  Shape(n + 1, pg, cg)
  BY DEF AddsBetween, AddsNode
<1> DEFINE B == m[Len(pf[i]) + 1]
           D == pf[c][Len(m) + 1]
<1>1. n \in Nat /\ n >= 1 /\ n + 1 \in Nat /\ n + 1 >= 1 /\ None = 0
  BY DEF Shape, None
<1>2. \A j \in 1..(n + 1) : j \in 1..n \/ j = n + 1
  BY <1>1
<1>3. \A j \in 1..n : j # n + 1 /\ j \in 1..(n + 1)
  BY <1>1
<1>4. \A j \in 1..n : pf[j] \in Prefix
  BY DEF Shape
<1>5. B \in {0, 1} /\ D \in {0, 1}
  BY <1>4, BelowBits
<1>6. \A j \in 1..n : Pre(pf[j], m) => Pre(pf[j], pf[i])
  <2>1. ~Pre(pf[On(pf, ch, i, m)], m)
    BY <1>4, BelowNotPre
  <2> QED  BY <2>1, LastOnTheWay
<1>7. \A j \in 1..n : Pre(m, pf[j]) => Pre(pf[c], pf[j])
  <2> SUFFICES ASSUME NEW j \in 1..n, Pre(m, pf[j]) PROVE Pre(pf[c], pf[j])
    OBVIOUS
  <2>1. Below(pf[i], pf[j]) /\ pf[j][Len(pf[i]) + 1] = B
    BY <1>4, BelowPre
  <2>2. On(pf, ch, i, pf[j]) = c
    BY <2>1 DEF On
  <2> QED  BY <2>1, <2>2 DEF Shape
<1>8. pg[1] = <<>>
  BY <1>1 DEF Shape
<1>9. ASSUME NEW j \in 1..(n + 1), NEW k \in 1..(n + 1), pg[j] = pg[k] PROVE j = k
  <2>1. \A l \in 1..n : pf[l] # m
    <3> SUFFICES ASSUME NEW l \in 1..n, pf[l] = m PROVE FALSE
      OBVIOUS
    <3>1. Pre(pf[c], m)
      BY <1>4, <1>7, PreReflexive
    <3> QED  BY <1>4, <3>1, BelowNotPre
  <2>2. CASE j \in 1..n /\ k \in 1..n
    <3>1. pf[j] = pf[k]
      BY <1>9, <2>2
    <3> QED  BY <2>2, <3>1 DEF Shape
  <2>3. CASE j \in 1..n /\ k = n + 1
    BY <1>9, <2>1, <2>3
  <2>4. CASE j = n + 1 /\ k \in 1..n
    BY <1>9, <2>1, <2>4
  <2> QED  BY <1>2, <2>2, <2>3, <2>4
<1>10. ASSUME NEW j \in 1..(n + 1), NEW b \in {0, 1}, cg[j][b] # None
       PROVE  /\ cg[j][b] \in 1..(n + 1) /\ Below(pg[j], pg[cg[j][b]])
              /\ pg[cg[j][b]][Len(pg[j]) + 1] = b
  <2>1. CASE j = n + 1
    <3>1. b = D /\ cg[j][b] = c
      BY <1>10, <2>1
    <3> QED  BY <1>3, <2>1, <3>1
  <2>2. CASE j = i /\ b = B
    <3>1. cg[j][b] = n + 1
      BY <2>2
    <3>2. n + 1 \in 1..(n + 1) /\ pg[j] = pf[i] /\ pg[n + 1] = m
      BY <1>1, <2>2
    <3> QED  BY <2>2, <3>1, <3>2
  <2>3. CASE j \in 1..n /\ ~(j = i /\ b = B)
    <3>1. cg[j][b] = ch[j][b]
      BY <2>3
    <3>2. ch[j][b] \in 1..n /\ Below(pf[j], pf[ch[j][b]]) /\ pf[ch[j][b]][Len(pf[j]) + 1] = b
      BY <1>10, <2>3, <3>1 DEF Shape
    <3> QED  BY <1>3, <2>3, <3>1, <3>2
  <2> QED  BY <1>2, <2>1, <2>2, <2>3
<1>11. ASSUME NEW j \in 1..(n + 1), NEW k \in 1..(n + 1), Below(pg[j], pg[k])
       PROVE  On(pg, cg, j, pg[k]) # None /\ Pre(pg[On(pg, cg, j, pg[k])], pg[k])
  <2>1. pg[j] \in Prefix /\ pg[k] \in Prefix
    OBVIOUS
  <2>2. pg[k][Len(pg[j]) + 1] \in {0, 1}
    BY <1>11, <2>1, BelowBits
  <2>3. CASE j = n + 1
    <3>1. k \in 1..n
      BY <1>2, <1>11, <2>1, <2>3, PrefixType DEF Below
    <3>2. Pre(pf[c], pf[k])
      BY <1>7, <1>11, <2>3, <3>1 DEF Below
    <3>3. pf[k][Len(m) + 1] = D
      BY <1>4, <3>1, <3>2, BelowPre
    <3>4. On(pg, cg, j, pg[k]) = c
      <4>1. pg[k][Len(pg[j]) + 1] = D
        BY <2>3, <3>1, <3>3
      <4>2. cg[j][D] = c
        BY <1>5, <2>3
      <4> QED  BY <4>1, <4>2 DEF On
    <3> QED  BY <1>1, <3>1, <3>2, <3>4
  <2>4. CASE j \in 1..n /\ k \in 1..n
    <3>1. Below(pf[j], pf[k])
      BY <1>11, <2>4
    <3>2. On(pf, ch, j, pf[k]) # None /\ Pre(pf[On(pf, ch, j, pf[k])], pf[k])
      BY <2>4, <3>1 DEF Shape
    <3>3. CASE j = i /\ pf[k][Len(pf[i]) + 1] = B
      <4>1. On(pg, cg, j, pg[k]) = n + 1
        <5>1. pg[k][Len(pg[j]) + 1] = B /\ cg[j][B] = n + 1
          BY <1>5, <2>4, <3>3
        <5> QED  BY <5>1 DEF On
      <4>2. On(pf, ch, j, pf[k]) = c
        BY <3>3 DEF On
      <4>3. Pre(m, pf[c])
        BY DEF Below
      <4>4. Pre(m, pf[k])
        BY <1>4, <2>4, <3>2, <4>2, <4>3, PreTransitive
      <4> QED  BY <1>1, <2>4, <4>1, <4>4
    <3>4. CASE ~(j = i /\ pf[k][Len(pf[i]) + 1] = B)
      <4> DEFINE x == pf[k][Len(pf[j]) + 1]
      <4>3. x \in {0, 1} /\ pg[k][Len(pg[j]) + 1] = x
        BY <2>2, <2>4
      <4>4. ~(j = i /\ x = B)
        BY <3>4
      <4> HIDE DEF x
      <4>5. On(pg, cg, j, pg[k]) = cg[j][x] /\ On(pf, ch, j, pf[k]) = ch[j][x]
        BY <4>3 DEF On, x
      <4>1. On(pg, cg, j, pg[k]) = On(pf, ch, j, pf[k])
        BY <2>4, <4>3, <4>4, <4>5
      <4>2. On(pf, ch, j, pf[k]) \in 1..n
        BY <2>4, <3>2, <4>3, <4>5, ChildInShape
      <4> QED  BY <2>4, <3>2, <4>1, <4>2
    <3> QED  BY <3>3, <3>4
  <2>5. CASE j \in 1..n /\ k = n + 1
    <3>1. Below(pf[j], m)
      BY <1>11, <2>5
    <3>2. CASE j = i
      <4>1. On(pg, cg, j, pg[k]) = n + 1
        BY <1>5, <2>5, <3>2 DEF On
      <4> QED  BY <1>1, <4>1, <2>5, PreReflexive
    <3>3. CASE j # i
      <4>1. Pre(pf[j], pf[i])
        BY <1>6, <2>5, <3>1 DEF Below
      <4>2. Below(pf[j], pf[i])
        <5>1. Len(pf[j]) \in Nat /\ Len(pf[i]) \in Nat
          BY <1>4, <2>5, PrefixType
        <5>2. pf[j] # pf[i]
          BY <2>5, <3>3 DEF Shape
        <5>3. Len(pf[j]) # Len(pf[i])
          BY <1>4, <2>5, <4>1, <5>2, PreEqual
        <5> QED  BY <4>1, <5>1, <5>3 DEF Below, Pre
      <4>3. On(pf, ch, j, pf[i]) # None /\ Pre(pf[On(pf, ch, j, pf[i])], pf[i])
        BY <2>5, <4>2 DEF Shape
      <4>0. Pre(pf[i], m)
        BY DEF Below
      <4>4. pf[i][Len(pf[j]) + 1] = m[Len(pf[j]) + 1]
        BY <1>4, <2>5, <4>0, <4>2, BelowPre
      <4> DEFINE x == m[Len(pf[j]) + 1]
      <4>8. x \in {0, 1} /\ pg[k][Len(pg[j]) + 1] = x
        BY <2>2, <2>5
      <4> HIDE DEF x
      <4>9. On(pg, cg, j, pg[k]) = cg[j][x] /\ On(pf, ch, j, pf[i]) = ch[j][x]
        BY <4>4, <4>8 DEF On, x
      <4>5. On(pg, cg, j, pg[k]) = On(pf, ch, j, pf[i])
        BY <2>5, <3>3, <4>8, <4>9
      <4>6. On(pf, ch, j, pf[i]) \in 1..n
        BY <2>5, <4>3, <4>8, <4>9, ChildInShape
      <4>7. Pre(pf[On(pf, ch, j, pf[i])], m)
        BY <1>4, <4>3, <4>6, PreTransitive DEF Below
      <4> QED  BY <2>5, <4>3, <4>5, <4>6, <4>7
    <3> QED  BY <3>2, <3>3
  <2> QED  BY <1>2, <2>3, <2>4, <2>5
<1> QED  BY ONLY <1>1, <1>8, <1>9, <1>10, <1>11,
                 pg \in [1..(n + 1) -> Prefix], cg \in [1..(n + 1) -> [{0, 1} -> Nat]] DEF Shape
-----------------------------------------------------------------------------
(* The arena. *)

NodeType == [prefix : Prefix, child : [{0, 1} -> Nat], data : Data \cup {NoData}]

Pf(ns) == [i \in 1..Len(ns) |-> ns[i].prefix]
Ch(ns) == [i \in 1..Len(ns) |-> ns[i].child]

(* The arena is one tree: every child extends its parent on its branch, and *)
(* a node on the way to another one has a child on the way to it.           *)
Tree(ns) == ns \in Seq(NodeType) /\ Len(ns) <= N /\ Shape(Len(ns), Pf(ns), Ch(ns))

(* The nodes hold what the table says of their prefixes, which are all it holds. *)
Agree(ns, tb) ==
  /\ tb \in [Prefix -> Data \cup {NoData}]
  /\ \A i \in 1..Len(ns) : tb[ns[i].prefix] = ns[i].data
  /\ \A q \in Prefix : tb[q] # NoData => \E i \in 1..Len(ns) : ns[i].prefix = q

TrieInv == Tree(nodes) /\ Agree(nodes, table)

(* What Tree says of one node. *)
LEMMA NodeFacts ==
  ASSUME NEW ns, Tree(ns)
  PROVE  /\ Len(ns) \in Nat /\ Len(ns) >= 1 /\ 1 \in 1..Len(ns) /\ DOMAIN ns = 1..Len(ns)
         /\ ns[1].prefix = <<>>
         /\ \A i \in 1..Len(ns) :
              /\ ns[i] \in NodeType /\ ns[i].prefix \in Prefix
              /\ ns[i].child \in [{0, 1} -> Nat] /\ ns[i].data \in Data \cup {NoData}
              /\ Pf(ns)[i] = ns[i].prefix /\ Ch(ns)[i] = ns[i].child
              /\ Len(ns[i].prefix) \in Nat /\ Len(ns[i].prefix) <= ADDR_BITS
<1>1. ns \in Seq(NodeType) /\ Len(ns) \in Nat /\ Len(ns) >= 1 /\ Pf(ns)[1] = <<>>
  BY DEF Tree, Shape
<1>2. DOMAIN ns = 1..Len(ns) /\ 1 \in 1..Len(ns)
  BY <1>1
<1>3. ns[1].prefix = <<>>
  BY <1>1, <1>2 DEF Pf
<1>4. ASSUME NEW i \in 1..Len(ns)
      PROVE  /\ ns[i] \in NodeType /\ ns[i].prefix \in Prefix
             /\ ns[i].child \in [{0, 1} -> Nat] /\ ns[i].data \in Data \cup {NoData}
             /\ Pf(ns)[i] = ns[i].prefix /\ Ch(ns)[i] = ns[i].child
             /\ Len(ns[i].prefix) \in Nat /\ Len(ns[i].prefix) <= ADDR_BITS
  <2>1. ns[i] \in NodeType
    BY <1>1, ElementOfSeq
  <2>2. ns[i].prefix \in Prefix /\ ns[i].child \in [{0, 1} -> Nat] /\ ns[i].data \in Data \cup {NoData}
    BY <2>1 DEF NodeType
  <2>3. Len(ns[i].prefix) \in Nat /\ Len(ns[i].prefix) <= ADDR_BITS
    BY <2>2, PrefixType
  <2> QED  BY <2>1, <2>2, <2>3 DEF Pf, Ch
<1> QED  BY <1>1, <1>2, <1>3, <1>4

(* The child of a node on the way to p, when there is one. *)
LEMMA ChildFacts ==
  ASSUME NEW ns, Tree(ns), NEW i \in 1..Len(ns), NEW b \in {0, 1}, ns[i].child[b] # None
  PROVE  /\ ns[i].child[b] \in 1..Len(ns)
         /\ Below(ns[i].prefix, ns[ns[i].child[b]].prefix)
         /\ ns[ns[i].child[b]].prefix[Len(ns[i].prefix) + 1] = b
<1> DEFINE c == Ch(ns)[i][b]
<1>1. Pf(ns)[i] = ns[i].prefix /\ Ch(ns)[i] = ns[i].child
  BY NodeFacts
<1>2. Shape(Len(ns), Pf(ns), Ch(ns))
  BY DEF Tree
<1>3. /\ c \in 1..Len(ns) /\ Below(Pf(ns)[i], Pf(ns)[c])
      /\ Pf(ns)[c][Len(Pf(ns)[i]) + 1] = b
  <2>1. Ch(ns)[i][b] # None
    BY <1>1
  <2> QED  BY <1>2, <2>1, ChildInShape
<1>4. Pf(ns)[c] = ns[c].prefix
  BY <1>3, NodeFacts
<1> QED  BY <1>1, <1>3, <1>4

(* A node on the way to another one has a child on the way to it. *)
LEMMA CoverFacts ==
  ASSUME NEW ns, Tree(ns), NEW i \in 1..Len(ns), NEW j \in 1..Len(ns),
         Below(ns[i].prefix, ns[j].prefix)
  PROVE  LET c == ns[i].child[ns[j].prefix[Len(ns[i].prefix) + 1]]
         IN  c # None /\ c \in 1..Len(ns) /\ Pre(ns[c].prefix, ns[j].prefix)
<1> DEFINE b == ns[j].prefix[Len(ns[i].prefix) + 1]
           c == ns[i].child[b]
<1>1. Pf(ns)[i] = ns[i].prefix /\ Ch(ns)[i] = ns[i].child /\ Pf(ns)[j] = ns[j].prefix
  BY NodeFacts
<1>2. On(Pf(ns), Ch(ns), i, Pf(ns)[j]) = c
  BY <1>1 DEF On
<1>3. c # None /\ Pre(Pf(ns)[c], ns[j].prefix)
  <2>1. Shape(Len(ns), Pf(ns), Ch(ns)) /\ Below(Pf(ns)[i], Pf(ns)[j])
    BY <1>1 DEF Tree
  <2>2. LET o == On(Pf(ns), Ch(ns), i, Pf(ns)[j]) IN o # None /\ Pre(Pf(ns)[o], Pf(ns)[j])
    BY ONLY <2>1, i \in 1..Len(ns), j \in 1..Len(ns) DEF Shape
  <2> QED  BY <1>1, <1>2, <2>2
<1>4. b \in {0, 1}
  BY NodeFacts, BelowBits
<1> HIDE DEF b
<1>5. c \in 1..Len(ns)
  BY <1>3, <1>4, ChildFacts
<1>6. Pf(ns)[c] = ns[c].prefix
  BY <1>5, NodeFacts
<1> QED  BY <1>3, <1>5, <1>6 DEF b

(* Two nodes have two prefixes. *)
LEMMA PrefixesDiffer ==
  ASSUME NEW ns, Tree(ns), NEW i \in 1..Len(ns), NEW j \in 1..Len(ns),
         ns[i].prefix = ns[j].prefix
  PROVE  i = j
<1>1. Pf(ns)[i] = Pf(ns)[j]
  BY NodeFacts
<1> QED  BY <1>1 DEF Tree, Shape
-----------------------------------------------------------------------------
(* insert's walk: the recursive function behind Cursor exists, and its last *)
(* value is a node that the loop would not leave.                           *)

Walk(g, p, n) == g = [k \in 0..n |-> IF k = 0 THEN 1 ELSE Descend(g[k - 1], p)]

(* The recursive function of Cursor exists. *)
LEMMA WalkExists ==
  ASSUME NEW p, NEW n \in Nat
  PROVE  \E g : Walk(g, p, n)
<1> DEFINE Bad == {m \in Nat : ~ \E g : Walk(g, p, m)}
<1> SUFFICES ASSUME Bad # {} PROVE FALSE
  OBVIOUS
<1>1. PICK m \in Bad : \A y \in Bad : m <= y
  BY HasLeast
<1>2. m \in Nat /\ ~ \E g : Walk(g, p, m)
  OBVIOUS
<1>3. CASE m = 0
  <2> DEFINE h == [k \in 0..0 |-> 1]
  <2>1. Walk(h, p, 0)
    BY DEF Walk
  <2> QED  BY <1>2, <1>3, <2>1
<1>4. CASE m # 0
  <2>1. m - 1 \in Nat /\ m - 1 \notin Bad
    BY <1>1, <1>2, <1>4
  <2>2. PICK g : Walk(g, p, m - 1)
    BY <2>1
  <2> DEFINE h == [k \in 0..m |-> IF k < m THEN g[k] ELSE Descend(g[m - 1], p)]
  <2>3. Walk(h, p, m)
    <3>1. ASSUME NEW k \in 0..m PROVE h[k] = IF k = 0 THEN 1 ELSE Descend(h[k - 1], p)
      BY <1>2, <1>4, <2>1, <2>2 DEF Walk
    <3> QED  BY <3>1 DEF Walk
  <2> QED  BY <1>2, <2>3
<1> QED  BY <1>3, <1>4

(* Cursor is the last value of that walk. *)
LEMMA CursorIs ==
  ASSUME NEW p
  PROVE  \E g : Walk(g, p, ADDR_BITS) /\ Cursor(p) = g[ADDR_BITS]
<1>1. ADDR_BITS \in Nat
  BY TrieAssumption
<1>2. PICK g : Walk(g, p, ADDR_BITS)
  BY <1>1, WalkExists
<1> DEFINE c == CHOOSE f : Walk(f, p, ADDR_BITS)
<1>3. Walk(c, p, ADDR_BITS)
  BY <1>2
<1>4. Cursor(p) = c[ADDR_BITS]
  BY DEF Cursor, Walk
<1> QED BY <1>3, <1>4

(* A turn of the loop stays on the way to p, and lengthens the prefix or stops. *)
LEMMA DescendFacts ==
  ASSUME TrieInv, NEW p \in Prefix, NEW i \in 1..Len(nodes), Pre(nodes[i].prefix, p)
  PROVE  LET d == Descend(i, p)
         IN  /\ d \in 1..Len(nodes) /\ Pre(nodes[d].prefix, p)
             /\ (d = i \/ Len(nodes[d].prefix) > Len(nodes[i].prefix))
<1> DEFINE b == p[Len(nodes[i].prefix) + 1]
           c == nodes[i].child[b]
<1>0. Tree(nodes)
  BY DEF TrieInv
<1>1. nodes[i].prefix \in Prefix /\ Len(nodes[i].prefix) \in Nat /\ Len(p) \in Nat
  BY <1>0, NodeFacts, PrefixType
<1>2. CASE Len(nodes[i].prefix) = Len(p)
  BY <1>2 DEF Descend
<1>3. CASE Len(nodes[i].prefix) # Len(p)
  <2>1. Below(nodes[i].prefix, p)
    BY <1>1, <1>3 DEF Below, Pre
  <2>2. b \in {0, 1}
    BY <1>1, <2>1, BelowBits
  <2>3. Descend(i, p) = IF c # None /\ common_prefix_len(p, nodes[c].prefix) = Len(nodes[c].prefix)
                        THEN c ELSE i
    BY <1>3 DEF Descend, ChildOn
  <2> HIDE DEF b
  <2>4. ASSUME c # None, common_prefix_len(p, nodes[c].prefix) = Len(nodes[c].prefix)
        PROVE  c \in 1..Len(nodes) /\ Pre(nodes[c].prefix, p)
                 /\ Len(nodes[c].prefix) > Len(nodes[i].prefix)
    <3>1. c \in 1..Len(nodes) /\ Below(nodes[i].prefix, nodes[c].prefix)
      BY <1>0, <2>2, <2>4, ChildFacts
    <3>2. nodes[c].prefix \in Prefix /\ Len(nodes[c].prefix) \in Nat
      BY <1>0, <3>1, NodeFacts
    <3>3. Pre(nodes[c].prefix, p)
      BY <2>4, <3>2, CommonIsAll
    <3> QED  BY <1>1, <3>1, <3>2, <3>3 DEF Below
  <2> QED  BY <2>3, <2>4
<1> QED  BY <1>2, <1>3

(* Every node of the walk is on the way to p, and deeper than the one       *)
(* before unless the walk has ended.                                        *)
LEMMA WalkFacts ==
  ASSUME TrieInv, NEW p \in Prefix, NEW g, Walk(g, p, ADDR_BITS), NEW k \in 0..ADDR_BITS
  PROVE  /\ g[k] \in 1..Len(nodes) /\ Pre(nodes[g[k]].prefix, p)
         /\ (Descend(g[k], p) = g[k] \/ Len(nodes[g[k]].prefix) >= k)
<1> DEFINE Fine(m) == /\ g[m] \in 1..Len(nodes) /\ Pre(nodes[g[m]].prefix, p)
                      /\ (Descend(g[m], p) = g[m] \/ Len(nodes[g[m]].prefix) >= m)
           Bad == {m \in 0..ADDR_BITS : ~Fine(m)}
<1>0. Tree(nodes) /\ ADDR_BITS \in Nat
  BY Bits DEF TrieInv
<1> SUFFICES ASSUME Bad # {} PROVE FALSE
  OBVIOUS
<1>1. PICK m \in Bad : \A y \in Bad : m <= y
  <2>1. Bad \in SUBSET Nat
    BY <1>0
  <2> HIDE DEF Bad
  <2> QED  BY <2>1, HasLeast
<1>2. m \in 0..ADDR_BITS /\ ~Fine(m) /\ m \in Nat
  BY <1>0
<1>3. CASE m = 0
  <2>1. g[m] = 1
    BY <1>0, <1>2, <1>3 DEF Walk
  <2>2. 1 \in 1..Len(nodes) /\ nodes[1].prefix = <<>> /\ Len(nodes[1].prefix) \in Nat
    BY <1>0, NodeFacts
  <2>3. Pre(<<>>, p)
    BY EmptyIsPrefix, PrefixType DEF Pre
  <2> QED  BY <1>2, <1>3, <2>1, <2>2, <2>3
<1>4. CASE m # 0
  <2>1. m - 1 \in 0..ADDR_BITS /\ m - 1 \notin Bad
    BY <1>0, <1>1, <1>2, <1>4
  <2>2. Fine(m - 1)
    BY <2>1
  <2>3. g[m] = Descend(g[m - 1], p)
    BY <1>2, <1>4 DEF Walk
  <2> DEFINE i == g[m - 1]
             d == g[m]
  <2>4. i \in 1..Len(nodes) /\ Pre(nodes[i].prefix, p)
           /\ (Descend(i, p) = i \/ Len(nodes[i].prefix) >= m - 1)
    BY <2>2
  <2>5. d = Descend(i, p)
    BY <2>3
  <2> HIDE DEF i, d
  <2>6. d \in 1..Len(nodes) /\ Pre(nodes[d].prefix, p)
           /\ (d = i \/ Len(nodes[d].prefix) > Len(nodes[i].prefix))
    BY <2>4, <2>5, DescendFacts
  <2>7. Len(nodes[d].prefix) \in Nat /\ Len(nodes[i].prefix) \in Nat
    BY <1>0, <2>4, <2>6, NodeFacts
  <2>8. Descend(d, p) = d \/ Len(nodes[d].prefix) >= m
    <3>1. CASE d = i
      BY <2>5, <3>1
    <3>2. CASE d # i
      <4>1. Len(nodes[i].prefix) >= m - 1 /\ Len(nodes[d].prefix) > Len(nodes[i].prefix)
        BY <2>4, <2>5, <2>6, <3>2
      <4> QED  BY <1>2, <2>7, <4>1
    <3> QED  BY <3>1, <3>2
  <2> QED  BY <1>2, <2>6, <2>8 DEF d
<1> QED  BY <1>3, <1>4

(* Where insert stops: at the entry's own node, or at the last on its way. *)
LEMMA CursorStops ==
  ASSUME TrieInv, NEW p \in Prefix
  PROVE  LET i == Cursor(p)
         IN  /\ i \in 1..Len(nodes) /\ Pre(nodes[i].prefix, p)
             /\ \/ nodes[i].prefix = p /\ Len(nodes[i].prefix) = Len(p)
                \/ /\ Len(nodes[i].prefix) # Len(p) /\ Below(nodes[i].prefix, p)
                   /\ p[Len(nodes[i].prefix) + 1] \in {0, 1}
                   /\ ChildOn(i, p) # None =>
                        /\ ChildOn(i, p) \in 1..Len(nodes)
                        /\ Below(nodes[i].prefix, nodes[ChildOn(i, p)].prefix)
                        /\ nodes[ChildOn(i, p)].prefix[Len(nodes[i].prefix) + 1]
                             = p[Len(nodes[i].prefix) + 1]
                        /\ ~Pre(nodes[ChildOn(i, p)].prefix, p)
<1>0. Tree(nodes) /\ ADDR_BITS \in Nat
  BY Bits DEF TrieInv
<1>1. PICK g : Walk(g, p, ADDR_BITS) /\ Cursor(p) = g[ADDR_BITS]
  BY CursorIs
<1> DEFINE i == Cursor(p)
           c == ChildOn(i, p)
<1>2. /\ i \in 1..Len(nodes) /\ Pre(nodes[i].prefix, p)
      /\ (Descend(i, p) = i \/ Len(nodes[i].prefix) >= ADDR_BITS)
  <2>1. ADDR_BITS \in 0..ADDR_BITS
    BY <1>0
  <2> QED  BY <1>1, <2>1, WalkFacts
<1> HIDE DEF i
<1>3. /\ nodes[i].prefix \in Prefix /\ Len(nodes[i].prefix) \in Nat
      /\ Len(p) \in Nat /\ Len(p) <= ADDR_BITS
  BY <1>0, <1>2, NodeFacts, PrefixType
<1>4. CASE Len(nodes[i].prefix) = Len(p)
  <2>1. nodes[i].prefix = p
    BY <1>2, <1>3, <1>4, PreEqual
  <2> QED  BY <1>2, <1>4, <2>1 DEF i
<1>5. CASE Len(nodes[i].prefix) # Len(p)
  <2>1. Below(nodes[i].prefix, p)
    BY <1>2, <1>3, <1>5 DEF Below, Pre
  <2>2. p[Len(nodes[i].prefix) + 1] \in {0, 1}
    BY <1>3, <2>1, BelowBits
  <2>3. Len(nodes[i].prefix) < ADDR_BITS
    BY <1>0, <1>3, <2>1 DEF Below
  <2>4. Descend(i, p) = i
    BY <1>0, <1>2, <1>3, <2>3
  <2>5. c = nodes[i].child[p[Len(nodes[i].prefix) + 1]]
    BY DEF ChildOn
  <2> HIDE DEF c
  <2>6. ASSUME c # None
        PROVE  /\ c \in 1..Len(nodes) /\ Below(nodes[i].prefix, nodes[c].prefix)
               /\ nodes[c].prefix[Len(nodes[i].prefix) + 1] = p[Len(nodes[i].prefix) + 1]
               /\ ~Pre(nodes[c].prefix, p)
    <3>1. /\ c \in 1..Len(nodes) /\ Below(nodes[i].prefix, nodes[c].prefix)
          /\ nodes[c].prefix[Len(nodes[i].prefix) + 1] = p[Len(nodes[i].prefix) + 1]
      BY <1>0, <1>2, <2>2, <2>5, <2>6, ChildFacts
    <3>2. nodes[c].prefix \in Prefix
      BY <1>0, <3>1, NodeFacts
    <3>3. c # i
      BY <1>3, <3>1 DEF Below
    <3>4. common_prefix_len(p, nodes[c].prefix) # Len(nodes[c].prefix)
      BY <1>5, <2>4, <2>6, <3>3 DEF Descend, c
    <3>5. ~Pre(nodes[c].prefix, p)
      BY <3>2, <3>4, CommonIsAll
    <3> QED  BY <3>1, <3>5
  <2> QED  BY <1>2, <1>5, <2>1, <2>2, <2>6 DEF i, c
<1> QED  BY <1>4, <1>5
-----------------------------------------------------------------------------
(* What insert does to the arena. *)

(* The fields of a new node. *)
LEMMA NodeIs ==
  ASSUME NEW p \in Prefix, NEW ch \in [{0, 1} -> Nat], NEW d \in Data \cup {NoData}
  PROVE  /\ Node(p, ch, d) \in NodeType /\ Node(p, ch, d).prefix = p
         /\ Node(p, ch, d).child = ch /\ Node(p, ch, d).data = d
  BY DEF Node, NodeType

(* The fields of a new leaf. *)
LEMMA LeafIs ==
  ASSUME NEW p \in Prefix, NEW d \in Data \cup {NoData}
  PROVE  /\ Leaf(p, d) \in NodeType /\ Leaf(p, d).prefix = p /\ Leaf(p, d).data = d
         /\ \A b \in {0, 1} : Leaf(p, d).child[b] = None
<1> DEFINE ch == [b \in {0, 1} |-> None]
<1>1. ch \in [{0, 1} -> Nat] /\ \A b \in {0, 1} : ch[b] = None
  BY DEF None
<1>2. Leaf(p, d) = Node(p, ch, d)
  BY DEF Leaf
<1> HIDE DEF ch
<1> QED  BY <1>1, <1>2, NodeIs

(* Link changes one child. *)
LEMMA LinkIs ==
  ASSUME NEW ar \in Seq(NodeType), NEW i \in 1..Len(ar), NEW p, NEW new \in Nat,
         p[Len(ar[i].prefix) + 1] \in {0, 1}
  PROVE  LET ms == Link(ar, i, p, new)
         IN  /\ ms \in Seq(NodeType) /\ Len(ms) = Len(ar)
             /\ \A j \in 1..Len(ar) :
                  /\ ms[j].prefix = ar[j].prefix /\ ms[j].data = ar[j].data
                  /\ \A b \in {0, 1} :
                       ms[j].child[b] = IF j = i /\ b = p[Len(ar[i].prefix) + 1] THEN new
                                        ELSE ar[j].child[b]
<1> DEFINE B == p[Len(ar[i].prefix) + 1]
           e == [ar[i] EXCEPT !.child = [ar[i].child EXCEPT ![B] = new]]
           ms == [ar EXCEPT ![i] = e]
<1>1. ar[i] \in NodeType
  BY ElementOfSeq
<1>2. Link(ar, i, p, new) = ms
  BY DEF Link
<1> HIDE DEF B
<1>3. B \in {0, 1}
  BY DEF B
<1>4. ar[i].child \in [{0, 1} -> Nat]
  BY <1>1 DEF NodeType
<1>5. e \in NodeType /\ e.prefix = ar[i].prefix /\ e.data = ar[i].data
         /\ e.child = [ar[i].child EXCEPT ![B] = new]
  BY <1>1, <1>3, <1>4 DEF NodeType
<1>6. \A b \in {0, 1} : e.child[b] = IF b = B THEN new ELSE ar[i].child[b]
  BY <1>3, <1>4, <1>5
<1> HIDE DEF e
<1>7. ms \in Seq(NodeType) /\ Len(ms) = Len(ar)
        /\ \A j \in 1..Len(ar) : ms[j] = IF j = i THEN e ELSE ar[j]
  BY <1>5, ExceptSeq
<1> HIDE DEF ms
<1>8. ASSUME NEW j \in 1..Len(ar)
      PROVE  /\ ms[j].prefix = ar[j].prefix /\ ms[j].data = ar[j].data
             /\ \A b \in {0, 1} : ms[j].child[b] = IF j = i /\ b = B THEN new ELSE ar[j].child[b]
  <2>1. CASE j = i
    <3>1. ms[j] = e
      BY <1>7, <2>1
    <3> QED  BY <1>5, <1>6, <2>1, <3>1
  <2>2. CASE j # i
    BY <1>7, <2>2
  <2> QED  BY <2>1, <2>2
<1> QED  BY <1>2, <1>7, <1>8 DEF B

(* New nodes: one takes the entry, the others are for prefixes without one. *)
LEMMA AgreeAfter ==
  ASSUME NEW ns, Tree(ns), NEW tb, Agree(ns, tb), NEW p \in Prefix, NEW data \in Data,
         NEW ms, Tree(ms), Len(ms) >= Len(ns),
         \A j \in 1..Len(ns) : ms[j].prefix = ns[j].prefix /\ ms[j].data = ns[j].data,
         NEW t \in 1..Len(ms), t > Len(ns), ms[t].prefix = p, ms[t].data = data,
         \A j \in 1..Len(ms) : j > Len(ns) /\ j # t => ms[j].data = NoData
  PROVE  Agree(ms, [tb EXCEPT ![p] = data])
<1> DEFINE tc == [tb EXCEPT ![p] = data]
<1>1. tb \in [Prefix -> Data \cup {NoData}]
  BY DEF Agree
<1>2. tc \in [Prefix -> Data \cup {NoData}] /\ tc[p] = data
        /\ \A q \in Prefix : q # p => tc[q] = tb[q]
  BY <1>1
<1> HIDE DEF tc
<1>3. /\ Len(ns) \in Nat /\ Len(ms) \in Nat
      /\ \A j \in 1..Len(ns) : j \in 1..Len(ms) /\ j # t
      /\ \A j \in 1..Len(ms) : ms[j].prefix \in Prefix
  BY NodeFacts
<1>4. \A j, k \in 1..Len(ms) : ms[j].prefix = ms[k].prefix => j = k
  BY PrefixesDiffer
<1>5. ASSUME NEW j \in 1..Len(ms) PROVE tc[ms[j].prefix] = ms[j].data
  <2>1. CASE j = t
    BY <1>2, <2>1
  <2>2. CASE j \in 1..Len(ns)
    <3>1. ms[j].prefix # p
      BY <1>3, <1>4, <2>2
    <3>2. tb[ns[j].prefix] = ns[j].data
      BY <2>2 DEF Agree
    <3> QED  BY <1>2, <1>3, <2>2, <3>1, <3>2
  <2>3. CASE j > Len(ns) /\ j # t
    <3>1. ms[j].prefix # p
      BY <1>4, <2>3
    <3>2. \A k \in 1..Len(ns) : ns[k].prefix # ms[j].prefix
      BY <1>3, <1>4, <2>3
    <3>3. tb[ms[j].prefix] = NoData
      BY <1>3, <3>2 DEF Agree
    <3> QED  BY <1>2, <1>3, <2>3, <3>1, <3>3
  <2> QED  BY <1>3, <2>1, <2>2, <2>3
<1>6. ASSUME NEW q \in Prefix, tc[q] # NoData PROVE \E j \in 1..Len(ms) : ms[j].prefix = q
  <2>1. CASE q = p
    BY <2>1
  <2>2. CASE q # p
    <3>1. PICK j \in 1..Len(ns) : ns[j].prefix = q
      BY <1>2, <1>6, <2>2 DEF Agree
    <3> QED  BY <1>3, <3>1
  <2> QED  BY <2>1, <2>2
<1>7. Agree(ms, tc)
  BY <1>2, <1>5, <1>6 DEF Agree
<1> QED  BY <1>7 DEF tc

(* A sequence of nodes whose prefixes and children have a shape is a tree. *)
LEMMA TreeOfShape ==
  ASSUME NEW ms \in Seq(NodeType), NEW n \in Nat, Len(ms) = n, n <= N,
         Shape(n, Pf(ms), Ch(ms))
  PROVE  Tree(ms)
  BY DEF Tree

(* The prefixes and children of a tree. *)
LEMMA PfChType ==
  ASSUME NEW ms \in Seq(NodeType)
  PROVE  /\ Pf(ms) \in [1..Len(ms) -> Prefix] /\ Ch(ms) \in [1..Len(ms) -> [{0, 1} -> Nat]]
         /\ \A j \in 1..Len(ms) : Pf(ms)[j] = ms[j].prefix /\ Ch(ms)[j] = ms[j].child
<1>1. ASSUME NEW j \in 1..Len(ms)
      PROVE  ms[j].prefix \in Prefix /\ ms[j].child \in [{0, 1} -> Nat]
  <2>1. ms[j] \in NodeType
    BY ElementOfSeq
  <2> QED  BY <2>1 DEF NodeType
<1> QED  BY <1>1 DEF Pf, Ch

(* insert adds a leaf. *)
LEMMA LeafAdded ==
  ASSUME TrieInv, NEW p \in Prefix, NEW data \in Data, NEW i \in 1..Len(nodes),
         Below(nodes[i].prefix, p), ChildOn(i, p) = None, Len(nodes) + 1 <= N
  PROVE  Tree(WithLeaf(i, p, data)) /\ Agree(WithLeaf(i, p, data), [table EXCEPT ![p] = data])
<1> DEFINE n == Len(nodes)
           ar == Append(nodes, Leaf(p, data))
           ms == Link(ar, i, p, n + 1)
           B == p[Len(nodes[i].prefix) + 1]
<1>0. Tree(nodes) /\ Agree(nodes, table) /\ WithLeaf(i, p, data) = ms
  BY DEF TrieInv, WithLeaf
<1>1. /\ nodes \in Seq(NodeType) /\ n \in Nat /\ n >= 1 /\ N \in Nat
      /\ Shape(n, Pf(nodes), Ch(nodes))
  BY <1>0, NodeFacts, Bits DEF Tree
<1>n. n = Len(nodes) /\ n + 1 <= N
  OBVIOUS
<1>2. /\ Leaf(p, data) \in NodeType /\ Leaf(p, data).prefix = p /\ Leaf(p, data).data = data
      /\ \A b \in {0, 1} : Leaf(p, data).child[b] = None
  BY LeafIs
<1>3. /\ ar \in Seq(NodeType) /\ Len(ar) = n + 1
      /\ \A j \in 1..n : ar[j] = nodes[j]
      /\ ar[n + 1] = Leaf(p, data)
  BY <1>1, <1>2
<1>4. B \in {0, 1} /\ nodes[i].prefix \in Prefix
  BY <1>0, NodeFacts, BelowBits
<1> HIDE DEF ar
<1>5. /\ ms \in Seq(NodeType) /\ Len(ms) = n + 1
      /\ \A j \in 1..(n + 1) :
           /\ ms[j].prefix = ar[j].prefix /\ ms[j].data = ar[j].data
           /\ \A b \in {0, 1} : ms[j].child[b] = IF j = i /\ b = B THEN n + 1 ELSE ar[j].child[b]
  <2>1. i \in 1..Len(ar) /\ ar[i] = nodes[i] /\ n + 1 \in Nat
    BY <1>1, <1>3
  <2>2. p[Len(ar[i].prefix) + 1] \in {0, 1}
    BY <1>4, <2>1
  <2> QED  BY <1>3, <2>1, <2>2, LinkIs
<1> HIDE DEF ms
<1>6. /\ Pf(ms) \in [1..(n + 1) -> Prefix] /\ Ch(ms) \in [1..(n + 1) -> [{0, 1} -> Nat]]
      /\ \A j \in 1..(n + 1) : Pf(ms)[j] = ms[j].prefix /\ Ch(ms)[j] = ms[j].child
  BY <1>5, PfChType
<1>7. \A j \in 1..n : Pf(nodes)[j] = nodes[j].prefix /\ Ch(nodes)[j] = nodes[j].child
  BY <1>1, PfChType
<1>8. \A j \in 1..n : j \in 1..(n + 1) /\ j # n + 1
  BY <1>1
<1>9. n + 1 \in 1..(n + 1) /\ n + 1 # i /\ n + 1 > n
  BY <1>1
<1> HIDE DEF n
<1>10. ASSUME NEW j \in 1..n PROVE Pf(ms)[j] = Pf(nodes)[j]
  BY <1>3, <1>5, <1>6, <1>7, <1>8
<1>11. Pf(ms)[n + 1] = p
  BY <1>2, <1>3, <1>5, <1>6, <1>9
<1>12. ASSUME NEW j \in 1..n, NEW b \in {0, 1}
       PROVE  Ch(ms)[j][b] = IF j = i /\ b = p[Len(Pf(nodes)[i]) + 1] THEN n + 1
                             ELSE Ch(nodes)[j][b]
  <2>1. ms[j].child[b] = IF j = i /\ b = B THEN n + 1 ELSE ar[j].child[b]
    BY <1>5, <1>8
  <2>2. Ch(ms)[j] = ms[j].child /\ Ch(nodes)[j] = nodes[j].child /\ ar[j] = nodes[j]
    BY <1>3, <1>6, <1>7, <1>8
  <2>3. Pf(nodes)[i] = nodes[i].prefix
    BY <1>7 DEF n
  <2> QED  BY <2>1, <2>2, <2>3
<1>13. \A b \in {0, 1} : Ch(ms)[n + 1][b] = None
  BY <1>2, <1>3, <1>5, <1>6, <1>9
<1>14. On(Pf(nodes), Ch(nodes), i, p) = None /\ Below(Pf(nodes)[i], p)
  BY <1>7 DEF On, ChildOn, n
<1>15. Shape(n + 1, Pf(ms), Ch(ms))
  <2>1. AddsLeaf(n, Pf(nodes), Ch(nodes), i, p, Pf(ms), Ch(ms))
    BY <1>6, <1>10, <1>11, <1>12, <1>13, <1>14 DEF AddsLeaf, AddsNode
  <2>2. i \in 1..n
    BY DEF n
  <2> QED  BY <1>1, <2>1, <2>2, ShapeLeaf
<1>16. Tree(ms)
  BY <1>1, <1>n, <1>5, <1>15, TreeOfShape
<1>17. Agree(ms, [table EXCEPT ![p] = data])
  <2>1. \A j \in 1..n : ms[j].prefix = nodes[j].prefix /\ ms[j].data = nodes[j].data
    BY <1>3, <1>5, <1>8
  <2>2. ms[n + 1].prefix = p /\ ms[n + 1].data = data
    BY <1>2, <1>3, <1>5, <1>9
  <2>3. \A j \in 1..Len(ms) : ~(j > n /\ j # n + 1)
    BY <1>1, <1>5
  <2>4. Len(ms) >= Len(nodes) /\ n + 1 \in 1..Len(ms) /\ n + 1 > Len(nodes)
    BY <1>1, <1>n, <1>5
  <2>5. PICK t \in 1..Len(ms) : t = n + 1
    BY <2>4
  <2> QED  BY <1>0, <1>16, <2>1, <2>2, <2>3, <2>4, <2>5, AgreeAfter DEF n
<1> QED  BY <1>0, <1>16, <1>17

(* Where p leaves the child of i on its way: after the branch, before the child. *)
LEMMA SplitPoint ==
  ASSUME NEW a \in Prefix, NEW p \in Prefix, NEW q \in Prefix, Below(a, p), Below(a, q),
         q[Len(a) + 1] = p[Len(a) + 1], ~Pre(q, p)
  PROVE  LET k == common_prefix_len(p, q)
             m == SubSeq(p, 1, k)
         IN  /\ k \in Nat /\ k <= Len(p) /\ m \in Prefix /\ Len(m) = k
             /\ Below(a, m) /\ m[Len(a) + 1] = p[Len(a) + 1] /\ Below(m, q)
             /\ q[k + 1] \in {0, 1}
             /\ k = Len(p) => m = p
             /\ k < Len(p) => Below(m, p) /\ p[k + 1] \in {0, 1} /\ p[k + 1] # q[k + 1]
<1> DEFINE k == common_prefix_len(p, q)
           m == SubSeq(p, 1, k)
<1>1. /\ k \in Nat /\ k <= Len(p) /\ k <= Len(q)
      /\ \A j \in 1..k : p[j] = q[j]
      /\ (k = Len(p) \/ k = Len(q) \/ p[k + 1] # q[k + 1])
      /\ k # Len(q)
  BY CommonIs, CommonIsAll
<1> HIDE DEF k
<1>2. /\ m \in Prefix /\ Len(m) = k /\ Pre(m, p) /\ \A j \in 1..k : m[j] = p[j]
  BY <1>1, FirstBits
<1> HIDE DEF m
<1>3. Len(a) \in Nat /\ Len(p) \in Nat /\ Len(q) \in Nat /\ Len(a) < Len(p) /\ Len(a) < Len(q)
  BY PrefixType DEF Below
<1>4. \A j \in 1..(Len(a) + 1) : p[j] = q[j]
  <2>1. \A j \in 1..Len(a) : p[j] = a[j] /\ q[j] = a[j]
    BY DEF Below, Pre
  <2> QED  BY <1>3, <2>1
<1>5. Len(a) < k
  <2> SUFFICES ASSUME k <= Len(a) PROVE FALSE
    BY <1>1, <1>3
  <2>1. k + 1 \in 1..(Len(a) + 1) /\ k # Len(p)
    BY <1>1, <1>3
  <2> QED  BY <1>1, <1>4, <2>1
<1>6. Below(a, m)
  <2>1. Pre(a, p)
    BY DEF Below
  <2>2. Pre(a, m)
    BY <1>1, <1>2, <1>3, <1>5, <2>1, PreComparable
  <2> QED  BY <1>2, <1>5, <2>2 DEF Below
<1>7. m[Len(a) + 1] = p[Len(a) + 1]
  <2>1. Len(a) + 1 \in 1..k
    BY <1>1, <1>3, <1>5
  <2> QED  BY <1>2, <2>1
<1>8. Below(m, q)
  <2>1. \A j \in 1..k : m[j] = q[j]
    BY <1>1, <1>2
  <2> QED  BY <1>1, <1>2, <1>3, <2>1 DEF Below, Pre
<1>9. q[k + 1] \in {0, 1}
  BY <1>2, <1>8, BelowBits
<1>10. k = Len(p) => m = p
  BY <1>2, PreEqual
<1>11. ASSUME k < Len(p) PROVE Below(m, p) /\ p[k + 1] \in {0, 1} /\ p[k + 1] # q[k + 1]
  <2>1. Below(m, p)
    BY <1>2, <1>11 DEF Below
  <2>2. p[k + 1] \in {0, 1}
    BY <1>2, <2>1, BelowBits
  <2> QED  BY <1>1, <1>3, <1>11, <2>1, <2>2
<1> QED  BY <1>1, <1>2, <1>6, <1>7, <1>8, <1>9, <1>10, <1>11 DEF k, m

(* insert splits a child where p ends: one node more. *)
LEMMA SplitAtEntry ==
  ASSUME TrieInv, NEW p \in Prefix, NEW data \in Data, NEW i \in 1..Len(nodes),
         NEW c \in 1..Len(nodes), c = ChildOn(i, p),
         Below(nodes[i].prefix, p), Below(p, nodes[c].prefix), Len(nodes) + 1 <= N,
         common_prefix_len(p, nodes[c].prefix) = Len(p)
  PROVE  Tree(WithSplit(i, p, data)) /\ Agree(WithSplit(i, p, data), [table EXCEPT ![p] = data])
<1> DEFINE n == Len(nodes)
           D == nodes[c].prefix[Len(p) + 1]
           below(b) == CASE b = D -> c
                         [] Len(p) < Len(p) /\ b = p[Len(p) + 1] -> n + 1 + 1
                         [] OTHER -> None
           kids == [b \in {0, 1} |-> below(b)]
           nd == Node(p, kids, data)
           ar == nodes \o <<nd>>
           ms == Link(ar, i, p, n + 1)
           B == p[Len(nodes[i].prefix) + 1]
<1>0. Tree(nodes) /\ Agree(nodes, table)
  BY DEF TrieInv
<1>s. WithSplit(i, p, data) = ms
  BY DEF WithSplit
<1>1. /\ nodes \in Seq(NodeType) /\ n \in Nat /\ n >= 1 /\ N \in Nat
      /\ Shape(n, Pf(nodes), Ch(nodes)) /\ n = Len(nodes) /\ n + 1 <= N
      /\ Len(p) \in Nat /\ c \in Nat
  BY <1>0, NodeFacts, PrefixType, Bits DEF Tree
<1>4. /\ B \in {0, 1} /\ D \in {0, 1}
      /\ nodes[i].prefix \in Prefix /\ nodes[c].prefix \in Prefix
  BY <1>0, NodeFacts, BelowBits
<1>b. kids \in [{0, 1} -> Nat] /\ \A b \in {0, 1} : kids[b] = IF b = D THEN c ELSE None
  BY <1>1 DEF None
<1> HIDE DEF kids
<1>2. nd \in NodeType /\ nd.prefix = p /\ nd.data = data /\ nd.child = kids
  BY <1>b, NodeIs
<1> HIDE DEF nd
<1>3. /\ ar \in Seq(NodeType) /\ Len(ar) = n + 1
      /\ \A j \in 1..n : ar[j] = nodes[j]
      /\ ar[n + 1] = nd
  BY <1>1, <1>2
<1> HIDE DEF ar
<1>5. /\ ms \in Seq(NodeType) /\ Len(ms) = n + 1
      /\ \A j \in 1..(n + 1) :
           /\ ms[j].prefix = ar[j].prefix /\ ms[j].data = ar[j].data
           /\ \A b \in {0, 1} : ms[j].child[b] = IF j = i /\ b = B THEN n + 1 ELSE ar[j].child[b]
  <2>1. i \in 1..Len(ar) /\ ar[i] = nodes[i] /\ n + 1 \in Nat
    BY <1>1, <1>3
  <2>2. p[Len(ar[i].prefix) + 1] \in {0, 1}
    BY <1>4, <2>1
  <2>3. /\ ms \in Seq(NodeType) /\ Len(ms) = Len(ar)
        /\ \A j \in 1..Len(ar) :
             /\ ms[j].prefix = ar[j].prefix /\ ms[j].data = ar[j].data
             /\ \A b \in {0, 1} :
                  ms[j].child[b] = IF j = i /\ b = p[Len(ar[i].prefix) + 1] THEN n + 1
                                   ELSE ar[j].child[b]
    <3> HIDE DEF n
    <3> QED  BY <1>3, <2>1, <2>2, LinkIs
  <2>4. p[Len(ar[i].prefix) + 1] = B
    BY <2>1
  <2> HIDE DEF B, ms
  <2> QED  BY <1>3, <2>3, <2>4
<1> HIDE DEF ms
<1>6. /\ Pf(ms) \in [1..(n + 1) -> Prefix] /\ Ch(ms) \in [1..(n + 1) -> [{0, 1} -> Nat]]
      /\ \A j \in 1..(n + 1) : Pf(ms)[j] = ms[j].prefix /\ Ch(ms)[j] = ms[j].child
  BY <1>5, PfChType
<1>7. \A j \in 1..n : Pf(nodes)[j] = nodes[j].prefix /\ Ch(nodes)[j] = nodes[j].child
  BY <1>1, PfChType
<1>8. \A j \in 1..n : j \in 1..(n + 1) /\ j # n + 1
  BY <1>1
<1>9. n + 1 \in 1..(n + 1) /\ n + 1 # i /\ n + 1 > n /\ i \in 1..n /\ c \in 1..n
  BY <1>1
<1> HIDE DEF n
<1>10. ASSUME NEW j \in 1..n PROVE Pf(ms)[j] = Pf(nodes)[j]
  BY <1>3, <1>5, <1>6, <1>7, <1>8
<1>11. Pf(ms)[n + 1] = p
  BY <1>2, <1>3, <1>5, <1>6, <1>9
<1>12. ASSUME NEW j \in 1..n, NEW b \in {0, 1}
       PROVE  Ch(ms)[j][b] = IF j = i /\ b = p[Len(Pf(nodes)[i]) + 1] THEN n + 1
                             ELSE Ch(nodes)[j][b]
  <2>1. ms[j].child[b] = IF j = i /\ b = B THEN n + 1 ELSE ar[j].child[b]
    BY <1>5, <1>8
  <2>2. Ch(ms)[j] = ms[j].child /\ Ch(nodes)[j] = nodes[j].child /\ ar[j] = nodes[j]
    BY <1>3, <1>6, <1>7, <1>8
  <2>3. Pf(nodes)[i] = nodes[i].prefix
    BY <1>7, <1>9
  <2> QED  BY <2>1, <2>2, <2>3
<1>13. ASSUME NEW b \in {0, 1}
       PROVE  Ch(ms)[n + 1][b] = IF b = Pf(nodes)[c][Len(p) + 1] THEN c ELSE None
  <2>1. Ch(ms)[n + 1][b] = kids[b]
    BY <1>2, <1>3, <1>5, <1>6, <1>9
  <2>2. Pf(nodes)[c] = nodes[c].prefix
    BY <1>7, <1>9
  <2> QED  BY <1>b, <2>1, <2>2
<1>14. /\ c = On(Pf(nodes), Ch(nodes), i, p) /\ Below(Pf(nodes)[i], p)
       /\ Below(p, Pf(nodes)[c])
  BY <1>7, <1>9 DEF On, ChildOn
<1>15. Shape(n + 1, Pf(ms), Ch(ms))
  <2>1. AddsNode(n, Pf(nodes), Ch(nodes), i, p, Pf(ms), Ch(ms))
    BY <1>6, <1>10, <1>11, <1>12 DEF AddsNode
  <2>2. AddsBetween(n, Pf(nodes), Ch(nodes), i, p, c, Pf(ms), Ch(ms))
    BY ONLY <1>13, <1>14, <2>1 DEF AddsBetween
  <2> QED  BY <1>1, <1>9, <2>2, ShapeBetween
<1>16. Tree(ms)
  BY <1>1, <1>5, <1>15, TreeOfShape
<1>17. Agree(ms, [table EXCEPT ![p] = data])
  <2>1. \A j \in 1..n : ms[j].prefix = nodes[j].prefix /\ ms[j].data = nodes[j].data
    BY <1>3, <1>5, <1>8
  <2>2. ms[n + 1].prefix = p /\ ms[n + 1].data = data
    BY <1>2, <1>3, <1>5, <1>9
  <2>3. \A j \in 1..Len(ms) : ~(j > n /\ j # n + 1)
    BY <1>1, <1>5
  <2>4. Len(ms) >= Len(nodes) /\ n + 1 \in 1..Len(ms) /\ n + 1 > Len(nodes)
    BY <1>1, <1>5
  <2>5. PICK t \in 1..Len(ms) : t = n + 1
    BY <2>4
  <2> QED  BY <1>0, <1>16, <2>1, <2>2, <2>3, <2>4, <2>5, AgreeAfter DEF n
<1> QED  BY <1>s, <1>16, <1>17

(* insert splits a child before p ends: a node for the common bits, and a leaf. *)
LEMMA SplitInTwo ==
  ASSUME TrieInv, NEW p \in Prefix, NEW data \in Data, NEW i \in 1..Len(nodes),
         NEW c \in 1..Len(nodes), c = ChildOn(i, p), NEW k \in Nat, NEW m \in Prefix,
         k = common_prefix_len(p, nodes[c].prefix), m = SubSeq(p, 1, k), Len(m) = k,
         k < Len(p), Below(nodes[i].prefix, m), Below(m, nodes[c].prefix), Below(m, p),
         p[k + 1] # nodes[c].prefix[k + 1],
         m[Len(nodes[i].prefix) + 1] = p[Len(nodes[i].prefix) + 1], Len(nodes) + 2 <= N
  PROVE  Tree(WithSplit(i, p, data)) /\ Agree(WithSplit(i, p, data), [table EXCEPT ![p] = data])
<1> DEFINE n == Len(nodes)
           D == nodes[c].prefix[k + 1]
           E == p[k + 1]
           below(b) == CASE b = D -> c
                         [] k < Len(p) /\ b = E -> n + 1 + 1
                         [] OTHER -> None
           kids == [b \in {0, 1} |-> below(b)]
           nd == Node(m, kids, NoData)
           lf == Leaf(p, data)
           ar == nodes \o <<nd, lf>>
           ms == Link(ar, i, p, n + 1)
           B == p[Len(nodes[i].prefix) + 1]
<1>0. Tree(nodes) /\ Agree(nodes, table)
  BY DEF TrieInv
<1>s. WithSplit(i, p, data) = ms
  <2>1. k # Len(p)
    BY PrefixType
  <2> QED  BY <2>1 DEF WithSplit
<1>1. /\ nodes \in Seq(NodeType) /\ n \in Nat /\ n >= 1 /\ N \in Nat
      /\ Shape(n, Pf(nodes), Ch(nodes)) /\ n = Len(nodes) /\ n + 2 <= N
      /\ n + 1 + 1 = n + 2 /\ n + 1 \in Nat /\ n + 2 \in Nat /\ c \in Nat
  BY <1>0, NodeFacts, Bits DEF Tree
<1>4. /\ B \in {0, 1} /\ D \in {0, 1} /\ E \in {0, 1} /\ D # E
      /\ nodes[i].prefix \in Prefix /\ nodes[c].prefix \in Prefix
  <2>1. nodes[i].prefix \in Prefix /\ nodes[c].prefix \in Prefix
    BY <1>0, NodeFacts
  <2>2. m[Len(nodes[i].prefix) + 1] \in {0, 1} /\ nodes[c].prefix[Len(m) + 1] \in {0, 1}
          /\ p[Len(m) + 1] \in {0, 1}
    BY <2>1, BelowBits
  <2> QED  BY <2>1, <2>2
<1>b. kids \in [{0, 1} -> Nat]
        /\ \A b \in {0, 1} : kids[b] = IF b = D THEN c ELSE IF b = E THEN n + 2 ELSE None
  <2> HIDE DEF D, E, n
  <2>1. ASSUME NEW b \in {0, 1}
        PROVE  below(b) = (IF b = D THEN c ELSE IF b = E THEN n + 2 ELSE None) /\ below(b) \in Nat
    <3>1. CASE b = D
      BY <1>1, <1>4, <3>1
    <3>2. CASE b = E
      BY <1>1, <1>4, <3>2
    <3>3. CASE b # D /\ b # E
      BY <3>3 DEF None
    <3> QED  BY <3>1, <3>2, <3>3
  <2> HIDE DEF below
  <2> QED  BY <2>1
<1> HIDE DEF kids
<1>2. nd \in NodeType /\ nd.prefix = m /\ nd.data = NoData /\ nd.child = kids
  <2>1. PICK d \in Data \cup {NoData} : d = NoData
    OBVIOUS
  <2>2. /\ Node(m, kids, d) \in NodeType /\ Node(m, kids, d).prefix = m
        /\ Node(m, kids, d).child = kids /\ Node(m, kids, d).data = d
    BY <1>b, NodeIs
  <2>3. nd = Node(m, kids, d)
    BY <2>1
  <2> HIDE DEF nd
  <2> QED  BY <2>1, <2>2, <2>3
<1>l. /\ lf \in NodeType /\ lf.prefix = p /\ lf.data = data
      /\ \A b \in {0, 1} : lf.child[b] = None
  BY LeafIs
<1> HIDE DEF nd, lf
<1>3. /\ ar \in Seq(NodeType) /\ Len(ar) = n + 2
      /\ \A j \in 1..n : ar[j] = nodes[j]
      /\ ar[n + 1] = nd /\ ar[n + 2] = lf
  <2>1. <<nd, lf>> \in Seq(NodeType) /\ Len(<<nd, lf>>) = 2
    BY <1>2, <1>l
  <2>2. /\ ar \in Seq(NodeType) /\ Len(ar) = n + 2
        /\ \A j \in 1..(n + 2) : ar[j] = IF j <= n THEN nodes[j] ELSE <<nd, lf>>[j - n]
    BY <1>1, <2>1, ConcatProperties
  <2> HIDE DEF ar, n
  <2>3. ar[n + 1] = <<nd, lf>>[1] /\ ar[n + 2] = <<nd, lf>>[2]
    <3>1. n + 1 \in 1..(n + 2) /\ n + 2 \in 1..(n + 2) /\ ~(n + 1 <= n) /\ ~(n + 2 <= n)
            /\ (n + 1) - n = 1 /\ (n + 2) - n = 2
      BY <1>1
    <3> QED  BY <2>2, <3>1
  <2>4. \A j \in 1..n : ar[j] = nodes[j]
    BY <1>1, <2>2
  <2> QED  BY <2>2, <2>3, <2>4
<1> HIDE DEF ar
<1>i. i \in 1..n /\ c \in 1..n
  BY <1>1
<1> HIDE DEF n
<1>5. /\ ms \in Seq(NodeType) /\ Len(ms) = n + 2
      /\ \A j \in 1..(n + 2) :
           /\ ms[j].prefix = ar[j].prefix /\ ms[j].data = ar[j].data
           /\ \A b \in {0, 1} : ms[j].child[b] = IF j = i /\ b = B THEN n + 1 ELSE ar[j].child[b]
  <2>1. i \in 1..Len(ar) /\ ar[i] = nodes[i] /\ n + 1 \in Nat
    BY <1>1, <1>3, <1>i
  <2>2. p[Len(ar[i].prefix) + 1] \in {0, 1}
    BY <1>4, <2>1
  <2>3. /\ ms \in Seq(NodeType) /\ Len(ms) = Len(ar)
        /\ \A j \in 1..Len(ar) :
             /\ ms[j].prefix = ar[j].prefix /\ ms[j].data = ar[j].data
             /\ \A b \in {0, 1} :
                  ms[j].child[b] = IF j = i /\ b = p[Len(ar[i].prefix) + 1] THEN n + 1
                                   ELSE ar[j].child[b]
    BY <1>3, <2>1, <2>2, LinkIs
  <2>4. p[Len(ar[i].prefix) + 1] = B
    BY <2>1
  <2> HIDE DEF B, ms
  <2> QED  BY <1>3, <2>3, <2>4
<1> HIDE DEF ms
<1>6. /\ Pf(ms) \in [1..(n + 2) -> Prefix] /\ Ch(ms) \in [1..(n + 2) -> [{0, 1} -> Nat]]
      /\ \A j \in 1..(n + 2) : Pf(ms)[j] = ms[j].prefix /\ Ch(ms)[j] = ms[j].child
  BY <1>5, PfChType
<1>7. \A j \in 1..n : Pf(nodes)[j] = nodes[j].prefix /\ Ch(nodes)[j] = nodes[j].child
  BY <1>1, PfChType
<1>8. \A j \in 1..n : j \in 1..(n + 1) /\ j \in 1..(n + 2) /\ j # n + 1 /\ j # n + 2
  BY <1>1
<1>9. /\ n + 1 \in 1..(n + 1) /\ n + 1 \in 1..(n + 2) /\ n + 2 \in 1..(n + 2) /\ n + 1 # n + 2
      /\ n + 1 # i /\ n + 2 # i
      /\ \A j \in 1..(n + 1) : j \in 1..n \/ j = n + 1
  <2>1. n \in Nat /\ i \in 1..n
    BY <1>1, <1>i
  <2> QED  BY ONLY <2>1
(* The shape after the first of the two nodes. *)
<1> DEFINE pg == [j \in 1..(n + 1) |-> IF j = n + 1 THEN m ELSE Pf(nodes)[j]]
           cg == [j \in 1..(n + 1) |-> [b \in {0, 1} |->
                    IF j = n + 1 THEN (IF b = D THEN c ELSE None)
                    ELSE IF j = i /\ b = B THEN n + 1 ELSE Ch(nodes)[j][b]]]
<1>10. /\ pg \in [1..(n + 1) -> Prefix] /\ cg \in [1..(n + 1) -> [{0, 1} -> Nat]]
  <2>1. \A j \in 1..n : Pf(nodes)[j] \in Prefix /\ \A b \in {0, 1} : Ch(nodes)[j][b] \in Nat
    <3>1. Pf(nodes) \in [1..n -> Prefix] /\ Ch(nodes) \in [1..n -> [{0, 1} -> Nat]]
      BY <1>1 DEF Shape
    <3> QED  BY ONLY <3>1
  <2>2. ASSUME NEW j \in 1..(n + 1), NEW b \in {0, 1}
        PROVE  (IF j = n + 1 THEN (IF b = D THEN c ELSE None)
                ELSE IF j = i /\ b = B THEN n + 1 ELSE Ch(nodes)[j][b]) \in Nat
    BY <1>1, <1>9, <2>1 DEF None
  <2> HIDE DEF D, B
  <2> QED  BY <1>9, <2>1, <2>2
<1>11. /\ \A j \in 1..n : pg[j] = Pf(nodes)[j]
       /\ pg[n + 1] = m
       /\ \A j \in 1..n, b \in {0, 1} :
            cg[j][b] = IF j = i /\ b = B THEN n + 1 ELSE Ch(nodes)[j][b]
       /\ \A b \in {0, 1} : cg[n + 1][b] = IF b = D THEN c ELSE None
  <2> HIDE DEF D, B
  <2> QED  BY <1>8, <1>9
<1> HIDE DEF pg, cg
<1>12. Pf(nodes)[i] = nodes[i].prefix /\ Pf(nodes)[c] = nodes[c].prefix
         /\ Ch(nodes)[i] = nodes[i].child
  BY <1>7, <1>i
<1>13. Shape(n + 1, pg, cg)
  <2>1. AddsNode(n, Pf(nodes), Ch(nodes), i, m, pg, cg)
    <3>1. m[Len(Pf(nodes)[i]) + 1] = B
      BY <1>12
    <3> HIDE DEF B
    <3> QED  BY ONLY <1>10, <1>11, <3>1 DEF AddsNode
  <2>2. c = On(Pf(nodes), Ch(nodes), i, m)
    BY <1>12 DEF On, ChildOn
  <2>3. AddsBetween(n, Pf(nodes), Ch(nodes), i, m, c, pg, cg)
    BY <1>11, <1>12, <2>1, <2>2 DEF AddsBetween
  <2> QED  BY <1>1, <1>i, <2>3, ShapeBetween
<1>14. Shape(n + 2, Pf(ms), Ch(ms))
  <2> DEFINE l == n + 1
  <2>1. l + 1 = n + 2 /\ l \in 1..l
    BY <1>1
  <2>2. \A j \in 1..l : Pf(ms)[j] = pg[j]
    <3>1. ASSUME NEW j \in 1..n PROVE Pf(ms)[j] = pg[j]
      <4>1. Pf(ms)[j] = ms[j].prefix /\ ms[j].prefix = ar[j].prefix
        BY <1>5, <1>6, <1>8
      <4>2. ar[j] = nodes[j] /\ pg[j] = nodes[j].prefix
        BY <1>3, <1>7, <1>11
      <4> QED  BY <4>1, <4>2
    <3>2. Pf(ms)[n + 1] = pg[n + 1]
      BY <1>2, <1>3, <1>5, <1>6, <1>9, <1>11
    <3> QED  BY <1>9, <3>1, <3>2
  <2>3. Pf(ms)[n + 2] = p
    BY <1>3, <1>l, <1>5, <1>6, <1>9
  <2>4. ASSUME NEW j \in 1..l, NEW b \in {0, 1}
        PROVE  Ch(ms)[j][b] = IF j = l /\ b = E THEN n + 2 ELSE cg[j][b]
    <3>1. CASE j \in 1..n
      <4>1. Ch(ms)[j][b] = IF j = i /\ b = B THEN n + 1 ELSE ar[j].child[b]
        <5>1. j \in 1..(n + 2)
          BY <1>8, <3>1
        <5>2. Ch(ms)[j] = ms[j].child
          BY <1>6, <5>1
        <5> QED  BY <1>5, <5>1, <5>2
      <4>2. ar[j].child[b] = Ch(nodes)[j][b] /\ j # l
        BY <1>3, <1>7, <1>8, <3>1
      <4> HIDE DEF B, E
      <4> QED  BY <1>11, <3>1, <4>1, <4>2
    <3>2. CASE j = n + 1
      <4>1. Ch(ms)[j][b] = kids[b]
        BY <1>2, <1>3, <1>5, <1>6, <1>9, <3>2
      <4>2. cg[j][b] = IF b = D THEN c ELSE None
        BY <1>11, <3>2
      <4>3. D # E /\ kids[b] = IF b = D THEN c ELSE IF b = E THEN n + 2 ELSE None
        BY <1>4, <1>b
      <4> HIDE DEF D, E
      <4> QED  BY <3>2, <4>1, <4>2, <4>3
    <3> QED  BY <1>9, <3>1, <3>2
  <2>5. \A b \in {0, 1} : Ch(ms)[n + 2][b] = None
    <3>1. Ch(ms)[n + 2] = ms[n + 2].child /\ ar[n + 2] = lf
      BY <1>3, <1>6, <1>9
    <3>2. \A b \in {0, 1} : ms[n + 2].child[b] = ar[n + 2].child[b]
      BY <1>5, <1>9
    <3> QED  BY <1>l, <3>1, <3>2
  <2>6. E = p[Len(pg[l]) + 1] /\ Below(pg[l], p) /\ On(pg, cg, l, p) = None
    <3>1. pg[l] = m
      BY <1>11
    <3>2. cg[l][E] = None
      BY <1>4, <1>11
    <3> QED  BY <3>1, <3>2 DEF On
  <2> HIDE DEF E, l
  <2>7. Shape(l, pg, cg)
    BY <1>13 DEF l
  <2>8. AddsNode(l, pg, cg, l, p, Pf(ms), Ch(ms))
    BY ONLY <1>6, <2>1, <2>2, <2>3, <2>4, <2>6 DEF AddsNode
  <2>9. AddsLeaf(l, pg, cg, l, p, Pf(ms), Ch(ms))
    BY <2>1, <2>5, <2>6, <2>8 DEF AddsLeaf
  <2>10. Shape(l + 1, Pf(ms), Ch(ms))
    BY <2>1, <2>7, <2>9, ShapeLeaf
  <2> QED  BY <2>1, <2>10
<1>15. Tree(ms)
  BY <1>1, <1>5, <1>14, TreeOfShape
<1>16. Agree(ms, [table EXCEPT ![p] = data])
  <2>1. ASSUME NEW j \in 1..n PROVE ms[j].prefix = nodes[j].prefix /\ ms[j].data = nodes[j].data
    BY <1>3, <1>5, <1>8
  <2>2. ms[n + 2].prefix = p /\ ms[n + 2].data = data /\ ms[n + 1].data = NoData
    BY <1>2, <1>l, <1>3, <1>5, <1>9
  <2>3. ASSUME NEW j \in 1..Len(ms), j > n, j # n + 2 PROVE ms[j].data = NoData
    <3>1. j = n + 1
      BY <1>1, <1>5, <2>3
    <3> QED  BY <2>2, <3>1
  <2>4. Len(ms) >= Len(nodes) /\ n + 2 \in 1..Len(ms) /\ n + 2 > Len(nodes)
    BY <1>1, <1>5
  <2>5. PICK t \in 1..Len(ms) : t = n + 2
    BY <2>4
  <2>6. /\ \A j \in 1..Len(nodes) : ms[j].prefix = nodes[j].prefix /\ ms[j].data = nodes[j].data
        /\ \A j \in 1..Len(ms) : j > Len(nodes) /\ j # t => ms[j].data = NoData
        /\ t > Len(nodes) /\ ms[t].prefix = p /\ ms[t].data = data
    BY <2>1, <2>2, <2>3, <2>4, <2>5 DEF n
  <2> QED  BY <1>0, <1>15, <2>4, <2>6, AgreeAfter
<1> QED  BY <1>s, <1>15, <1>16
-----------------------------------------------------------------------------
(* The invariant. *)

(* The arena with only a root is a tree, and agrees with the empty table. *)
LEMMA EmptyArena ==
  LET ns == <<Leaf(<<>>, NoData)>>
  IN  Tree(ns) /\ Agree(ns, EmptyTable)
<1> DEFINE e == <<>>
           lf == Leaf(e, NoData)
           ns == <<lf>>
<1>1. e \in Prefix /\ Len(e) = 0 /\ N \in Nat /\ N >= 1
  BY EmptyIsPrefix, Bits
<1>d. PICK d \in Data \cup {NoData} : d = NoData
  OBVIOUS
<1>2. /\ lf \in NodeType /\ lf.prefix = e /\ lf.data = NoData
      /\ \A b \in {0, 1} : lf.child[b] = None
  <2>1. /\ Leaf(e, d) \in NodeType /\ Leaf(e, d).prefix = e /\ Leaf(e, d).data = d
        /\ \A b \in {0, 1} : Leaf(e, d).child[b] = None
    BY <1>1, LeafIs
  <2>2. lf = Leaf(e, d)
    BY <1>d
  <2> HIDE DEF lf
  <2> QED  BY <1>d, <2>1, <2>2
<1> HIDE DEF lf
<1>3. ns \in Seq(NodeType) /\ Len(ns) = 1 /\ ns[1] = lf
  BY <1>2
<1> HIDE DEF ns
<1>4. /\ Pf(ns) \in [1..1 -> Prefix] /\ Ch(ns) \in [1..1 -> [{0, 1} -> Nat]]
      /\ Pf(ns)[1] = e /\ Ch(ns)[1] = lf.child
  BY <1>2, <1>3, PfChType
<1>5. ~Below(e, e)
  BY <1>1 DEF Below
<1>6. Shape(1, Pf(ns), Ch(ns))
  <2>1. \A i \in 1..1 : i = 1
    OBVIOUS
  <2>2. \A i \in 1..1, b \in {0, 1} : Ch(ns)[i][b] = None
    BY <1>2, <1>4, <2>1
  <2>3. \A i, j \in 1..1 : ~Below(Pf(ns)[i], Pf(ns)[j])
    BY <1>4, <1>5, <2>1
  <2>4. 1 \in Nat /\ 1 >= 1
    OBVIOUS
  <2> QED  BY ONLY <1>4, <2>1, <2>2, <2>3, <2>4 DEF Shape
<1>7. Tree(ns)
  BY <1>1, <1>3, <1>6, TreeOfShape
<1>8. Agree(ns, EmptyTable)
  <2>1. EmptyTable \in [Prefix -> Data \cup {NoData}] /\ \A q \in Prefix : EmptyTable[q] = NoData
    BY DEF EmptyTable
  <2>2. \A i \in 1..Len(ns) : ns[i].prefix = e /\ ns[i].data = NoData
    BY <1>2, <1>3
  <2> QED  BY <1>1, <2>1, <2>2 DEF Agree
<1> QED  BY <1>7, <1>8 DEF ns, lf

(* The invariant holds at first. *)
LEMMA InitInv ==
  ASSUME Init
  PROVE  TrieInv
  BY EmptyArena DEF Init, TrieInv

(* insert keeps the invariant, in each of its cases. *)
LEMMA InsertInv ==
  ASSUME TrieInv, NEW p \in Prefix, NEW data \in Data, insert(p, data)
  PROVE  TrieInv'
<1> DEFINE i == Cursor(p)
           L == Len(nodes[i].prefix)
           c == ChildOn(i, p)
<1>0. Tree(nodes) /\ Agree(nodes, table)
  BY DEF TrieInv
<1>1. /\ i \in 1..Len(nodes) /\ Pre(nodes[i].prefix, p)
      /\ \/ nodes[i].prefix = p /\ L = Len(p)
         \/ /\ L # Len(p) /\ Below(nodes[i].prefix, p) /\ p[L + 1] \in {0, 1}
            /\ c # None => /\ c \in 1..Len(nodes) /\ Below(nodes[i].prefix, nodes[c].prefix)
                           /\ nodes[c].prefix[L + 1] = p[L + 1] /\ ~Pre(nodes[c].prefix, p)
  BY CursorStops
<1>2. CASE L = Len(p) /\ table' = [table EXCEPT ![p] = data]
           /\ nodes' = [nodes EXCEPT ![i].prefix = p, ![i].data = data]
  <2> DEFINE e == [nodes[i] EXCEPT !.prefix = p, !.data = data]
             ms == [nodes EXCEPT ![i] = e]
             tc == [table EXCEPT ![p] = data]
  <2>1. nodes \in Seq(NodeType) /\ Len(nodes) <= N /\ Shape(Len(nodes), Pf(nodes), Ch(nodes))
    BY <1>0 DEF Tree
  <2>2. nodes[i] \in NodeType /\ nodes[i].prefix = p
    BY <1>1, <1>2, <2>1, ElementOfSeq
  <2> HIDE DEF i
  <2>3. e \in NodeType /\ e.prefix = p /\ e.data = data /\ e.child = nodes[i].child
    BY <2>2 DEF NodeType
  <2>4. nodes' = ms
    BY <1>2, <2>2
  <2> HIDE DEF e
  <2>5. ms \in Seq(NodeType) /\ Len(ms) = Len(nodes)
          /\ \A j \in 1..Len(nodes) : ms[j] = IF j = i THEN e ELSE nodes[j]
    BY <1>1, <2>1, <2>3, ExceptSeq
  <2> HIDE DEF ms
  <2>6. Pf(ms) = Pf(nodes) /\ Ch(ms) = Ch(nodes)
    <3>1. \A j \in 1..Len(nodes) : ms[j].prefix = nodes[j].prefix /\ ms[j].child = nodes[j].child
      BY <2>2, <2>3, <2>5
    <3> QED  BY <2>5, <3>1 DEF Pf, Ch
  <2>7. Tree(ms)
    BY <2>1, <2>5, <2>6 DEF Tree
  <2>8. Agree(ms, tc)
    <3>1. table \in [Prefix -> Data \cup {NoData}]
      BY <1>0 DEF Agree
    <3>2. tc \in [Prefix -> Data \cup {NoData}] /\ tc[p] = data
            /\ \A q \in Prefix : q # p => tc[q] = table[q]
      BY <3>1
    <3> HIDE DEF tc
    <3>3. ASSUME NEW j \in 1..Len(nodes) PROVE tc[ms[j].prefix] = ms[j].data
      <4>1. CASE j = i
        BY <2>3, <2>5, <3>2, <4>1
      <4>2. CASE j # i
        <5>1. ms[j] = nodes[j] /\ nodes[j].prefix # p /\ nodes[j].prefix \in Prefix
          BY <1>0, <1>1, <2>2, <2>5, <4>2, PrefixesDiffer, NodeFacts
        <5>2. table[nodes[j].prefix] = nodes[j].data
          BY <1>0 DEF Agree
        <5> QED  BY <3>2, <5>1, <5>2
      <4> QED  BY <4>1, <4>2
    <3>4. ASSUME NEW q \in Prefix, tc[q] # NoData PROVE \E j \in 1..Len(nodes) : ms[j].prefix = q
      <4>1. CASE q = p
        BY <1>1, <2>3, <2>5, <4>1
      <4>2. CASE q # p
        <5>1. PICK j \in 1..Len(nodes) : nodes[j].prefix = q
          BY <1>0, <3>2, <3>4, <4>2 DEF Agree
        <5> QED  BY <2>2, <2>5, <4>2, <5>1
      <4> QED  BY <4>1, <4>2
    <3> QED  BY <2>5, <3>2, <3>3, <3>4 DEF Agree
  <2> QED  BY <1>2, <2>4, <2>7, <2>8 DEF TrieInv
<1>3. CASE L # Len(p) /\ c = None /\ Len(nodes) + 1 <= N
           /\ table' = [table EXCEPT ![p] = data] /\ nodes' = WithLeaf(i, p, data)
  <2> HIDE DEF i
  <2>1. Tree(WithLeaf(i, p, data)) /\ Agree(WithLeaf(i, p, data), [table EXCEPT ![p] = data])
    BY <1>1, <1>3, LeafAdded
  <2> QED  BY <1>3, <2>1 DEF TrieInv
<1>4. CASE L # Len(p) /\ c # None
           /\ Len(nodes) + Needed(p, common_prefix_len(p, nodes[c].prefix)) <= N
           /\ table' = [table EXCEPT ![p] = data] /\ nodes' = WithSplit(i, p, data)
  <2> DEFINE k == common_prefix_len(p, nodes[c].prefix)
             m == SubSeq(p, 1, k)
  <2>1. /\ c \in 1..Len(nodes) /\ Below(nodes[i].prefix, nodes[c].prefix)
        /\ nodes[c].prefix[L + 1] = p[L + 1] /\ ~Pre(nodes[c].prefix, p)
        /\ Below(nodes[i].prefix, p)
    BY <1>1, <1>4
  <2> HIDE DEF i, c
  <2>2. nodes[i].prefix \in Prefix /\ nodes[c].prefix \in Prefix /\ Len(p) \in Nat
    BY <1>0, <1>1, <2>1, NodeFacts, PrefixType
  <2>3. /\ k \in Nat /\ k <= Len(p) /\ m \in Prefix /\ Len(m) = k
        /\ Below(nodes[i].prefix, m) /\ m[L + 1] = p[L + 1] /\ Below(m, nodes[c].prefix)
        /\ k = Len(p) => m = p
        /\ k < Len(p) => Below(m, p) /\ p[k + 1] # nodes[c].prefix[k + 1]
    <3>1. PICK a \in Prefix, q \in Prefix : a = nodes[i].prefix /\ q = nodes[c].prefix
      BY <2>2
    <3>2. Below(a, p) /\ Below(a, q) /\ q[Len(a) + 1] = p[Len(a) + 1] /\ ~Pre(q, p)
      BY <2>1, <3>1
    <3> DEFINE x == common_prefix_len(p, q)
               z == SubSeq(p, 1, x)
    <3>3. /\ x \in Nat /\ x <= Len(p) /\ z \in Prefix /\ Len(z) = x
          /\ Below(a, z) /\ z[Len(a) + 1] = p[Len(a) + 1] /\ Below(z, q)
          /\ x = Len(p) => z = p
          /\ x < Len(p) => Below(z, p) /\ p[x + 1] # q[x + 1]
      BY <3>2, SplitPoint
    <3>4. x = k /\ z = m /\ Len(a) = L
      BY <3>1
    <3> HIDE DEF x, z, k, m, L
    <3> QED  BY <3>1, <3>3, <3>4
  <2>4. c = ChildOn(i, p)
    BY DEF c
  <2>5. Tree(WithSplit(i, p, data)) /\ Agree(WithSplit(i, p, data), [table EXCEPT ![p] = data])
    <3>1. CASE k = Len(p)
      <4>1. Len(nodes) + 1 <= N
        BY <1>4, <3>1 DEF Needed
      <4>2. Below(p, nodes[c].prefix)
        BY <2>3, <3>1
      <4> QED  BY <1>1, <2>1, <2>4, <3>1, <4>1, <4>2, SplitAtEntry
    <3>2. CASE k < Len(p)
      <4>1. Len(nodes) + 2 <= N
        BY <1>4, <2>2, <2>3, <3>2 DEF Needed
      <4>2. /\ k = common_prefix_len(p, nodes[c].prefix) /\ m = SubSeq(p, 1, k)
            /\ Below(m, p) /\ p[k + 1] # nodes[c].prefix[k + 1]
        BY <2>3, <3>2
      <4> HIDE DEF k, m
      <4> QED  BY <1>1, <2>1, <2>3, <2>4, <3>2, <4>1, <4>2, SplitInTwo
    <3> QED  BY <2>2, <2>3, <3>1, <3>2
  <2> QED  BY <1>4, <2>5 DEF TrieInv
<1>5. CASE UNCHANGED vars
  BY <1>0, <1>5 DEF TrieInv, vars
<1> QED  BY <1>2, <1>3, <1>4, <1>5 DEF insert

(* remove keeps it: nodes lose their data and stay. *)
LEMMA RemoveInv ==
  ASSUME TrieInv, NEW data \in Data, remove(data)
  PROVE  TrieInv'
<1> DEFINE ms == [i \in DOMAIN nodes |->
                    IF nodes[i].data = data THEN [nodes[i] EXCEPT !.data = NoData] ELSE nodes[i]]
           tc == [p \in Prefix |-> IF table[p] = data THEN NoData ELSE table[p]]
<1>0. Tree(nodes) /\ Agree(nodes, table) /\ nodes' = ms /\ table' = tc
  BY DEF TrieInv, remove
<1>1. /\ nodes \in Seq(NodeType) /\ Len(nodes) <= N /\ Shape(Len(nodes), Pf(nodes), Ch(nodes))
      /\ Len(nodes) \in Nat /\ DOMAIN nodes = 1..Len(nodes)
  BY <1>0, NodeFacts DEF Tree
<1>2. ASSUME NEW j \in 1..Len(nodes)
      PROVE  /\ ms[j] \in NodeType /\ ms[j].prefix = nodes[j].prefix
             /\ ms[j].child = nodes[j].child
             /\ ms[j].data = IF nodes[j].data = data THEN NoData ELSE nodes[j].data
  <2>1. nodes[j] \in NodeType
    BY <1>1, ElementOfSeq
  <2>2. ms[j] = IF nodes[j].data = data THEN [nodes[j] EXCEPT !.data = NoData] ELSE nodes[j]
    BY <1>1
  <2> QED  BY <2>1, <2>2 DEF NodeType
<1>3. ms \in Seq(NodeType) /\ Len(ms) = Len(nodes)
  <2>1. ms \in [1..Len(nodes) -> NodeType]
    BY <1>1, <1>2
  <2> HIDE DEF ms
  <2> QED  BY <1>1, <2>1
<1> HIDE DEF ms
<1>4. Pf(ms) = Pf(nodes) /\ Ch(ms) = Ch(nodes)
  BY <1>2, <1>3 DEF Pf, Ch
<1>5. Tree(ms)
  BY <1>1, <1>3, <1>4 DEF Tree
<1>6. table \in [Prefix -> Data \cup {NoData}]
  BY <1>0 DEF Agree
<1>7. /\ tc \in [Prefix -> Data \cup {NoData}]
      /\ \A q \in Prefix : tc[q] = IF table[q] = data THEN NoData ELSE table[q]
  BY <1>6
<1> HIDE DEF tc
<1>8. ASSUME NEW j \in 1..Len(ms) PROVE tc[ms[j].prefix] = ms[j].data
  <2>1. j \in 1..Len(nodes) /\ nodes[j].prefix \in Prefix
    BY <1>0, <1>3, NodeFacts
  <2>2. table[nodes[j].prefix] = nodes[j].data
    BY <1>0, <2>1 DEF Agree
  <2> QED  BY <1>2, <1>7, <2>1, <2>2
<1>9. ASSUME NEW q \in Prefix, tc[q] # NoData PROVE \E j \in 1..Len(ms) : ms[j].prefix = q
  <2>1. PICK j \in 1..Len(nodes) : nodes[j].prefix = q
    BY <1>0, <1>7, <1>9 DEF Agree
  <2> QED  BY <1>2, <1>3, <2>1
<1>10. Agree(ms, tc)
  BY <1>7, <1>8, <1>9 DEF Agree
<1> QED  BY <1>0, <1>5, <1>10 DEF TrieInv

(* Every step keeps it. *)
LEMMA StepInv ==
  ASSUME TrieInv, [Next]_vars
  PROVE  TrieInv'
<1>1. CASE UNCHANGED vars
  BY <1>1 DEF TrieInv, vars
<1>2. ASSUME NEW p \in Routes, NEW data \in Data, insert(p, data) PROVE TrieInv'
  <2>1. p \in Prefix
    BY Bits
  <2> QED  BY <1>2, <2>1, InsertInv
<1>3. ASSUME NEW data \in Data, remove(data) PROVE TrieInv'
  BY <1>3, RemoveInv
<1>4. CASE clear
  BY <1>4, EmptyArena DEF clear, TrieInv
<1> QED  BY <1>1, <1>2, <1>3, <1>4 DEF Next

(* The inductive invariant: the arena stays one tree over the prefixes that *)
(* were inserted, and its nodes hold what the table of insertions says.     *)
THEOREM TrieInvAlways == Spec => []TrieInv
  BY InitInv, StepInv, PTL DEF Spec
-----------------------------------------------------------------------------
(* The shape of the tree. *)

(* Every node but the root has exactly one parent: the deepest node above   *)
(* it.                                                                      *)
LEMMA OneParent ==
  ASSUME NEW ns, Tree(ns), NEW i \in 2..Len(ns)
  PROVE  \E j \in 1..Len(ns) :
           /\ \E b \in {0, 1} : ns[j].child[b] = i
           /\ \A k \in 1..Len(ns), b \in {0, 1} : ns[k].child[b] = i => k = j
<1>1. /\ Len(ns) \in Nat /\ i \in 1..Len(ns) /\ 1 \in 1..Len(ns) /\ i # 1 /\ i # None
      /\ ns[1].prefix = <<>> /\ ADDR_BITS \in Nat
  BY NodeFacts, Bits DEF None
<1>2. \A j \in 1..Len(ns) : ns[j].prefix \in Prefix /\ Len(ns[j].prefix) \in Nat
                              /\ Len(ns[j].prefix) <= ADDR_BITS
  BY NodeFacts
<1>3. Below(ns[1].prefix, ns[i].prefix)
  <2>1. Len(<<>>) = 0
    BY EmptyIsPrefix
  <2>2. Pre(ns[1].prefix, ns[i].prefix)
    BY <1>1, <1>2, <2>1 DEF Pre
  <2>3. ns[1].prefix # ns[i].prefix
    BY <1>1, PrefixesDiffer
  <2>4. Len(ns[1].prefix) # Len(ns[i].prefix)
    BY <1>1, <1>2, <2>2, <2>3, PreEqual
  <2> QED  BY <1>1, <1>2, <2>2, <2>4 DEF Below, Pre
<1> DEFINE Over == {j \in 1..Len(ns) : Below(ns[j].prefix, ns[i].prefix)}
           Lens == {Len(ns[j].prefix) : j \in Over}
<1>4. Lens \subseteq 0..ADDR_BITS /\ Lens # {}
  <2>1. \A j \in Over : Len(ns[j].prefix) \in 0..ADDR_BITS
    BY <1>1, <1>2
  <2>2. 1 \in Over
    BY <1>1, <1>3
  <2> HIDE DEF Over
  <2> QED  BY <2>1, <2>2
<1>5. Max(Lens) \in Lens /\ \A y \in Lens : y <= Max(Lens)
  <2> HIDE DEF Lens
  <2> QED  BY <1>1, <1>4, MaxIs
<1>6. PICK j \in Over : Len(ns[j].prefix) = Max(Lens)
  BY <1>5
<1>7. /\ j \in 1..Len(ns) /\ Below(ns[j].prefix, ns[i].prefix)
      /\ \A k \in 1..Len(ns) : Below(ns[k].prefix, ns[i].prefix) =>
                                   Len(ns[k].prefix) <= Len(ns[j].prefix)
  BY <1>5, <1>6
<1> HIDE DEF Over, Lens
<1> DEFINE b == ns[i].prefix[Len(ns[j].prefix) + 1]
           c == ns[j].child[b]
<1>8. b \in {0, 1}
  BY <1>1, <1>2, <1>7, BelowBits
<1>9. c # None /\ c \in 1..Len(ns) /\ Pre(ns[c].prefix, ns[i].prefix)
  BY <1>1, <1>7, CoverFacts
<1> HIDE DEF b
<1>10. Below(ns[j].prefix, ns[c].prefix)
  BY <1>7, <1>8, <1>9, ChildFacts
<1>11. c = i
  <2> SUFFICES ASSUME c # i PROVE FALSE
    OBVIOUS
  <2> HIDE DEF c
  <2>1. ns[c].prefix # ns[i].prefix
    BY <1>1, <1>9, PrefixesDiffer
  <2>2. Len(ns[c].prefix) # Len(ns[i].prefix)
    BY <1>1, <1>2, <1>9, <2>1, PreEqual
  <2>3. Below(ns[c].prefix, ns[i].prefix)
    BY <1>1, <1>2, <1>9, <2>2 DEF Below, Pre
  <2>4. Len(ns[c].prefix) <= Len(ns[j].prefix) /\ Len(ns[j].prefix) < Len(ns[c].prefix)
    BY <1>7, <1>9, <1>10, <2>3 DEF Below
  <2> QED  BY <1>2, <1>7, <1>9, <2>4
(* Two parents would be comparable, and the upper one's child the lower one. *)
<1>12. ASSUME NEW u \in 1..Len(ns), NEW v \in 1..Len(ns), NEW x \in {0, 1}, NEW y \in {0, 1},
              ns[u].child[x] = i, ns[v].child[y] = i, Len(ns[u].prefix) < Len(ns[v].prefix)
       PROVE  FALSE
  <2>1. /\ Below(ns[u].prefix, ns[i].prefix) /\ ns[i].prefix[Len(ns[u].prefix) + 1] = x
        /\ Below(ns[v].prefix, ns[i].prefix)
    BY <1>1, <1>12, ChildFacts
  <2>2. Pre(ns[u].prefix, ns[i].prefix) /\ Pre(ns[v].prefix, ns[i].prefix)
    BY <2>1 DEF Below
  <2>3. Pre(ns[u].prefix, ns[v].prefix)
    BY <1>1, <1>2, <1>12, <2>2, PreComparable
  <2>4. Below(ns[u].prefix, ns[v].prefix)
    BY <1>12, <2>3 DEF Below
  <2>5. ns[v].prefix[Len(ns[u].prefix) + 1] = x
    BY <1>1, <1>2, <2>1, <2>2, <2>4, BelowPre
  <2>6. Pre(ns[i].prefix, ns[v].prefix)
    BY <1>12, <2>4, <2>5, CoverFacts
  <2> QED  BY <1>1, <1>2, <2>1, <2>6, BelowNotPre
<1>13. ASSUME NEW k \in 1..Len(ns), NEW y \in {0, 1}, ns[k].child[y] = i PROVE k = j
  <2>1. ns[j].child[b] = i
    BY <1>11
  <2>2. Len(ns[k].prefix) = Len(ns[j].prefix)
    BY <1>2, <1>7, <1>8, <1>12, <1>13, <2>1
  <2>3. Pre(ns[k].prefix, ns[i].prefix) /\ Pre(ns[j].prefix, ns[i].prefix)
    BY <1>1, <1>7, <1>13, ChildFacts DEF Below
  <2>4. Pre(ns[k].prefix, ns[j].prefix)
    BY <1>1, <1>2, <1>7, <2>2, <2>3, PreComparable
  <2>5. ns[k].prefix = ns[j].prefix
    BY <1>2, <1>7, <2>2, <2>4, PreEqual
  <2> QED  BY <1>7, <2>5, PrefixesDiffer
<1> QED  BY <1>7, <1>8, <1>11, <1>13

(* The invariant is stronger than TrieIsProper. *)
LEMMA ProperTrie ==
  ASSUME TrieInv
  PROVE  TrieIsProper
<1>0. Tree(nodes)
  BY DEF TrieInv
<1>1. /\ Len(nodes) \in Nat /\ Len(nodes) >= 1 /\ DOMAIN nodes = 1..Len(nodes) /\ Len(nodes) <= N
      /\ \A j \in 1..Len(nodes) : nodes[j].prefix \in Prefix
  BY <1>0, NodeFacts DEF Tree
<1>2. \A i \in DOMAIN nodes : Children(i) \subseteq DOMAIN nodes
  BY <1>0, <1>1, ChildFacts DEF Children
<1>3. ASSUME NEW i \in DOMAIN nodes, NEW b \in {0, 1}, nodes[i].child[b] # None
      PROVE  IsPrefix(Append(nodes[i].prefix, b), nodes[nodes[i].child[b]].prefix)
  <2> DEFINE c == nodes[i].child[b]
             p == nodes[i].prefix
             q == nodes[c].prefix
             r == Append(p, b)
  <2>1. c \in 1..Len(nodes) /\ Below(p, q) /\ q[Len(p) + 1] = b
    BY <1>0, <1>1, <1>3, ChildFacts
  <2>2. p \in Prefix /\ q \in Prefix
    BY <1>1, <2>1
  <2> HIDE DEF p, q
  <2>3. /\ p \in Seq({0, 1}) /\ Len(p) \in Nat /\ Len(q) \in Nat /\ Len(q) <= ADDR_BITS
        /\ Len(p) + 1 <= Len(q)
    BY <2>1, <2>2, PrefixType, BelowBits
  <2>4. /\ r \in Seq({0, 1}) /\ Len(r) = Len(p) + 1 /\ r[Len(p) + 1] = b
        /\ \A j \in 1..Len(p) : r[j] = p[j]
    BY <2>3
  <2> HIDE DEF r
  <2>5. Pre(r, q)
    <3>1. \A j \in 1..Len(p) : p[j] = q[j]
      BY <2>1 DEF Below, Pre
    <3>2. \A j \in 1..(Len(p) + 1) : j \in 1..Len(p) \/ j = Len(p) + 1
      BY <2>3
    <3> QED  BY <2>1, <2>3, <2>4, <3>1, <3>2 DEF Pre
  <2>6. r \in Prefix
    BY <2>3, <2>4, PrefixIntro, Bits
  <2>7. IsPrefix(r, q)
    BY <2>2, <2>5, <2>6, PreIsPrefix
  <2> QED  BY <2>7 DEF r, p, q
<1>4. ASSUME NEW i \in 2..Len(nodes)
      PROVE  Cardinality({j \in DOMAIN nodes : i \in Children(j)}) = 1
  <2>1. PICK j \in 1..Len(nodes) :
          /\ \E b \in {0, 1} : nodes[j].child[b] = i
          /\ \A k \in 1..Len(nodes), b \in {0, 1} : nodes[k].child[b] = i => k = j
    BY <1>0, OneParent
  <2>2. i # None
    BY <1>1 DEF None
  <2>3. {k \in DOMAIN nodes : i \in Children(k)} = {j}
    BY <1>1, <2>1, <2>2 DEF Children
  <2> QED  BY <2>3, FS_Singleton
<1>5. Cardinality({nodes[i].prefix : i \in DOMAIN nodes}) = Len(nodes)
  <2> DEFINE S == 1..Len(nodes)
             T == {nodes[i].prefix : i \in DOMAIN nodes}
             f == [i \in S |-> nodes[i].prefix]
  <2>1. IsFiniteSet(S) /\ Cardinality(S) = Len(nodes)
    BY <1>1, FS_Interval
  <2>2. f \in [S -> T] /\ \A t \in T : \E x \in S : f[x] = t
    BY <1>1
  <2>3. \A x, y \in S : f[x] = f[y] => x = y
    BY <1>0, PrefixesDiffer
  <2> HIDE DEF S, T, f
  <2>4. f \in Bijection(S, T)
    BY <2>2, <2>3 DEF Bijection, Injection, Surjection, IsInjective
  <2>5. ExistsBijection(S, T)
    BY <2>4 DEF ExistsBijection
  <2>6. Cardinality(T) = Len(nodes)
    BY <2>1, <2>5, FS_Bijection
  <2> QED  BY <2>6 DEF T
<1> QED  BY <1>1, <1>2, <1>3, <1>4, <1>5 DEF TrieIsProper

(* However inserts split it, the arena is one tree within its capacity: a   *)
(* child's prefix extends its parent's by the bit of its branch, every node *)
(* but the root has one parent, and no prefix has two nodes (insert,        *)
(* remove, clear).                                                          *)
THEOREM TrieAlwaysProper == Spec => []TrieIsProper
  BY TrieInvAlways, ProperTrie, PTL
-----------------------------------------------------------------------------
(* The entries. *)

(* It is stronger than TableAgrees. *)
LEMMA EntriesAgree ==
  ASSUME TrieInv
  PROVE  TableAgrees
<1>0. Tree(nodes) /\ Agree(nodes, table)
  BY DEF TrieInv
<1>1. /\ DOMAIN nodes = 1..Len(nodes)
      /\ \A j \in 1..Len(nodes) : nodes[j].prefix \in Prefix /\ table[nodes[j].prefix] = nodes[j].data
      /\ \A q \in Prefix : table[q] # NoData => \E i \in 1..Len(nodes) : nodes[i].prefix = q
  BY <1>0, NodeFacts DEF Agree
<1> DEFINE T == {<<p, table[p]>> : p \in {q \in Prefix : table[q] # NoData}}
<1>2. ASSUME NEW e \in iter PROVE e \in T
  <2>1. PICK i \in DOMAIN nodes : nodes[i].data # NoData /\ e = <<nodes[i].prefix, nodes[i].data>>
    BY DEF iter
  <2> QED  BY <1>1, <2>1
<1>3. ASSUME NEW e \in T PROVE e \in iter
  <2>1. PICK p \in Prefix : table[p] # NoData /\ e = <<p, table[p]>>
    OBVIOUS
  <2>2. PICK i \in 1..Len(nodes) : nodes[i].prefix = p
    BY <1>1, <2>1
  <2>3. nodes[i].data = table[p]
    BY <1>1, <2>2
  <2> QED  BY <1>1, <2>1, <2>2, <2>3 DEF iter
<1>4. iter = T
  BY <1>2, <1>3
<1> QED  BY <1>4 DEF TableAgrees

(* The trie holds exactly what was inserted and not removed since, refused  *)
(* inserts and lazy removals included (insert, remove, clear, iter).        *)
THEOREM TableAlwaysAgrees == Spec => []TableAgrees
  BY TrieInvAlways, EntriesAgree, PTL
-----------------------------------------------------------------------------
(* find's walk. *)

Entry(key, k) == table[SubSeq(key, 1, k)]

(* v is the entry of the longest of the key's first n bits that has one. *)
IsBest(key, n, v) ==
  \/ v = NoData /\ \A k \in 0..n : Entry(key, k) = NoData
  \/ \E m \in 0..n : /\ Entry(key, m) # NoData /\ v = Entry(key, m)
                     /\ \A k \in 0..n : k > m => Entry(key, k) = NoData

(* The walk ends at node i. *)
Stopped(i, key) ==
  \/ Len(nodes[i].prefix) = ADDR_BITS
  \/ ChildOn(i, key) = None
  \/ ~Pre(nodes[ChildOn(i, key)].prefix, key)

FWalk(h, key, n) ==
  h = [k \in 0..n |-> IF k = 0 THEN [node |-> 1, best |-> nodes[1].data]
                       ELSE FindStep(h[k - 1], key)]

(* The recursive function of find exists. *)
LEMMA FWalkExists ==
  ASSUME NEW key, NEW n \in Nat
  PROVE  \E h : FWalk(h, key, n)
<1> DEFINE Bad == {m \in Nat : ~ \E h : FWalk(h, key, m)}
           Z == [node |-> 1, best |-> nodes[1].data]
<1> SUFFICES ASSUME Bad # {} PROVE FALSE
  OBVIOUS
<1>1. PICK m \in Bad : \A y \in Bad : m <= y
  BY HasLeast
<1>2. m \in Nat /\ ~ \E h : FWalk(h, key, m)
  OBVIOUS
<1>3. CASE m = 0
  <2> DEFINE f == [k \in 0..0 |-> Z]
  <2>1. FWalk(f, key, 0)
    BY DEF FWalk
  <2> QED  BY <1>2, <1>3, <2>1
<1>4. CASE m # 0
  <2>1. m - 1 \in Nat /\ m - 1 \notin Bad
    BY <1>1, <1>2, <1>4
  <2>2. PICK h : FWalk(h, key, m - 1)
    BY <2>1
  <2> DEFINE f == [k \in 0..m |-> IF k < m THEN h[k] ELSE FindStep(h[m - 1], key)]
  <2>3. FWalk(f, key, m)
    <3>1. ASSUME NEW k \in 0..m PROVE f[k] = IF k = 0 THEN Z ELSE FindStep(f[k - 1], key)
      BY <1>2, <1>4, <2>1, <2>2 DEF FWalk
    <3> QED  BY <3>1 DEF FWalk
  <2> QED  BY <1>2, <2>3
<1> QED  BY <1>3, <1>4

(* find is the answer at the end of that walk. *)
LEMMA FindIs ==
  ASSUME NEW key
  PROVE  \E h : FWalk(h, key, ADDR_BITS) /\ find(key) = h[ADDR_BITS].best
<1>1. ADDR_BITS \in Nat
  BY Bits
<1>2. PICK h : FWalk(h, key, ADDR_BITS)
  BY <1>1, FWalkExists
<1> DEFINE c == CHOOSE f : FWalk(f, key, ADDR_BITS)
<1>3. FWalk(c, key, ADDR_BITS)
  BY <1>2
<1>4. find(key) = c[ADDR_BITS].best
  BY DEF find, FWalk
<1> QED  BY <1>3, <1>4

(* What the table says of the key's first bits is at a node on its way. *)
LEMMA EntryIsANode ==
  ASSUME TrieInv, NEW key \in Address, NEW k \in 0..ADDR_BITS, Entry(key, k) # NoData
  PROVE  \E j \in 1..Len(nodes) : Pre(nodes[j].prefix, key) /\ Len(nodes[j].prefix) = k
<1>1. key \in Prefix /\ Len(key) = ADDR_BITS /\ ADDR_BITS \in Nat
  BY AddressIsPrefix, Bits
<1>2. SubSeq(key, 1, k) \in Prefix /\ Len(SubSeq(key, 1, k)) = k /\ Pre(SubSeq(key, 1, k), key)
  BY <1>1, FirstBits
<1>3. PICK j \in 1..Len(nodes) : nodes[j].prefix = SubSeq(key, 1, k)
  BY <1>2 DEF TrieInv, Agree, Entry
<1> QED  BY <1>2, <1>3

(* A node on the key's way holds what the table says of as many bits. *)
LEMMA NodeIsEntry ==
  ASSUME TrieInv, NEW key \in Address, NEW j \in 1..Len(nodes), Pre(nodes[j].prefix, key)
  PROVE  Entry(key, Len(nodes[j].prefix)) = nodes[j].data
<1>1. key \in Prefix /\ nodes[j].prefix \in Prefix
  BY AddressIsPrefix, NodeFacts DEF TrieInv
<1>2. SubSeq(key, 1, Len(nodes[j].prefix)) = nodes[j].prefix
  BY <1>1, PreIsFront
<1> QED  BY <1>2 DEF TrieInv, Agree, Entry

(* A turn of the loop, in terms of Stopped. *)
LEMMA FindStepIs ==
  ASSUME TrieInv, NEW key \in Address, NEW at, NEW i \in 1..Len(nodes), at.node = i,
         Pre(nodes[i].prefix, key)
  PROVE  LET c == ChildOn(i, key)
         IN  /\ Stopped(i, key) => FindStep(at, key) = at
             /\ ~Stopped(i, key) =>
                  /\ FindStep(at, key)
                       = [node |-> c, best |-> IF nodes[c].data = NoData THEN at.best ELSE nodes[c].data]
                  /\ c \in 1..Len(nodes) /\ Pre(nodes[c].prefix, key)
                  /\ Below(nodes[i].prefix, nodes[c].prefix)
                  /\ \A j \in 1..Len(nodes) :
                       Pre(nodes[j].prefix, key) /\ Len(nodes[j].prefix) > Len(nodes[i].prefix)
                       => Len(nodes[j].prefix) >= Len(nodes[c].prefix)
<1> DEFINE c == ChildOn(i, key)
           b == key[Len(nodes[i].prefix) + 1]
<1>0. Tree(nodes)
  BY DEF TrieInv
<1>1. key \in Prefix /\ Len(key) = ADDR_BITS /\ ADDR_BITS \in Nat
  BY AddressIsPrefix, Bits
<1>2. \A j \in 1..Len(nodes) : nodes[j].prefix \in Prefix /\ Len(nodes[j].prefix) \in Nat
                                 /\ Len(nodes[j].prefix) <= ADDR_BITS
  BY <1>0, NodeFacts
<1>3. CASE Len(nodes[i].prefix) = ADDR_BITS
  BY <1>3 DEF FindStep, Stopped
<1>4. CASE Len(nodes[i].prefix) # ADDR_BITS
  <2>1. Below(nodes[i].prefix, key)
    BY <1>1, <1>2, <1>4 DEF Below
  <2>2. b \in {0, 1}
    BY <1>1, <1>2, <2>1, BelowBits
  <2>3. c = nodes[i].child[b]
    BY DEF ChildOn
  <2> HIDE DEF b
  <2>4. c # None => c \in 1..Len(nodes) /\ Below(nodes[i].prefix, nodes[c].prefix)
                      /\ nodes[c].prefix[Len(nodes[i].prefix) + 1] = b
    BY <1>0, <2>2, <2>3, ChildFacts
  <2>5. c # None => (Matches(key, c) <=> Pre(nodes[c].prefix, key))
    BY <1>1, <1>2, <2>4, PreIsFront DEF Matches
  <2>6. FindStep(at, key) =
          IF c = None \/ ~Matches(key, c) THEN at
          ELSE [node |-> c, best |-> IF nodes[c].data = NoData THEN at.best ELSE nodes[c].data]
    BY <1>4 DEF FindStep
  <2> HIDE DEF c
  <2>7. Stopped(i, key) <=> c = None \/ ~Pre(nodes[c].prefix, key)
    BY <1>4 DEF Stopped, c
  <2>8. ASSUME c # None, Pre(nodes[c].prefix, key),
               NEW j \in 1..Len(nodes), Pre(nodes[j].prefix, key),
               Len(nodes[j].prefix) > Len(nodes[i].prefix)
        PROVE  Len(nodes[j].prefix) >= Len(nodes[c].prefix)
    <3>1. Pre(nodes[i].prefix, nodes[j].prefix)
      BY <1>1, <1>2, <2>8, PreComparable
    <3>2. Below(nodes[i].prefix, nodes[j].prefix)
      BY <1>2, <2>8, <3>1 DEF Below
    <3>3. nodes[j].prefix[Len(nodes[i].prefix) + 1] = b
      BY <1>1, <1>2, <2>8, <3>2, BelowPre DEF b
    <3>4. Pre(nodes[c].prefix, nodes[j].prefix)
      BY <1>0, <2>3, <3>2, <3>3, CoverFacts
    <3> QED  BY <1>2, <2>4, <2>8, <3>4 DEF Pre
  <2> QED  BY <2>4, <2>5, <2>6, <2>7, <2>8 DEF c
<1> QED  BY <1>3, <1>4

(* The best entry of more bits, when there is none in between. *)
LEMMA BestGrows ==
  ASSUME TrieInv, NEW key \in Address, NEW i \in 1..Len(nodes), NEW c \in 1..Len(nodes), NEW v,
         Pre(nodes[i].prefix, key), Pre(nodes[c].prefix, key),
         Len(nodes[i].prefix) < Len(nodes[c].prefix),
         \A j \in 1..Len(nodes) :
           Pre(nodes[j].prefix, key) /\ Len(nodes[j].prefix) > Len(nodes[i].prefix)
           => Len(nodes[j].prefix) >= Len(nodes[c].prefix),
         IsBest(key, Len(nodes[i].prefix), v)
  PROVE  IsBest(key, Len(nodes[c].prefix), IF nodes[c].data = NoData THEN v ELSE nodes[c].data)
<1> DEFINE m == Len(nodes[i].prefix)
           n == Len(nodes[c].prefix)
<1>1. m \in Nat /\ n \in Nat /\ m < n /\ n <= ADDR_BITS /\ ADDR_BITS \in Nat
  BY NodeFacts, Bits DEF TrieInv
<1>2. Entry(key, n) = nodes[c].data
  BY NodeIsEntry
<1>3. ASSUME NEW k \in 0..n, k > m, k # n PROVE Entry(key, k) = NoData
  <2> SUFFICES ASSUME Entry(key, k) # NoData PROVE FALSE
    OBVIOUS
  <2>1. k \in 0..ADDR_BITS
    BY <1>1
  <2>2. PICK j \in 1..Len(nodes) : Pre(nodes[j].prefix, key) /\ Len(nodes[j].prefix) = k
    BY <2>1, EntryIsANode
  <2>3. k >= n
    BY <1>3, <2>2
  <2> QED  BY <1>1, <1>3, <2>3
<1> HIDE DEF m, n
<1>b. IsBest(key, m, v)
  BY DEF m
<1>4. CASE nodes[c].data # NoData
  <2>1. n \in 0..n /\ \A k \in 0..n : ~(k > n)
    BY <1>1
  <2>2. IsBest(key, n, nodes[c].data)
    BY <1>2, <1>4, <2>1 DEF IsBest
  <2> QED  BY <1>4, <2>2 DEF n
<1>5. CASE nodes[c].data = NoData
  <2>1. \A k \in 0..n : k \in 0..m \/ (k > m /\ Entry(key, k) = NoData)
    BY <1>1, <1>2, <1>3, <1>5
  <2>2. \A k \in 0..m : k \in 0..n /\ ~(k > m)
    BY <1>1
  <2>3. IsBest(key, n, v)
    BY <1>b, <2>1, <2>2 DEF IsBest
  <2> QED  BY <1>5, <2>3 DEF n
<1> QED  BY <1>4, <1>5

(* At every step of find the best match so far is the best of the nodes     *)
(* above the one reached.                                                   *)
LEMMA FWalkFacts ==
  ASSUME TrieInv, NEW key \in Address, NEW h, FWalk(h, key, ADDR_BITS), NEW k \in 0..ADDR_BITS
  PROVE  /\ h[k].node \in 1..Len(nodes) /\ Pre(nodes[h[k].node].prefix, key)
         /\ IsBest(key, Len(nodes[h[k].node].prefix), h[k].best)
         /\ (Stopped(h[k].node, key) \/ Len(nodes[h[k].node].prefix) >= k)
<1> DEFINE Fine(m) == /\ h[m].node \in 1..Len(nodes) /\ Pre(nodes[h[m].node].prefix, key)
                      /\ IsBest(key, Len(nodes[h[m].node].prefix), h[m].best)
                      /\ (Stopped(h[m].node, key) \/ Len(nodes[h[m].node].prefix) >= m)
           Bad == {m \in 0..ADDR_BITS : ~Fine(m)}
<1>0. Tree(nodes) /\ ADDR_BITS \in Nat /\ key \in Prefix
  BY Bits, AddressIsPrefix DEF TrieInv
<1> SUFFICES ASSUME Bad # {} PROVE FALSE
  OBVIOUS
<1>1. PICK m \in Bad : \A y \in Bad : m <= y
  <2>1. Bad \in SUBSET Nat
    BY <1>0
  <2> HIDE DEF Bad
  <2> QED  BY <2>1, HasLeast
<1>2. m \in 0..ADDR_BITS /\ ~Fine(m) /\ m \in Nat
  BY <1>0
<1>3. CASE m = 0
  <2>1. h[m].node = 1 /\ h[m].best = nodes[1].data
    BY <1>0, <1>2, <1>3 DEF FWalk
  <2>2. 1 \in 1..Len(nodes) /\ nodes[1].prefix = <<>> /\ Len(nodes[1].prefix) \in Nat
    BY <1>0, NodeFacts
  <2>3. Len(<<>>) = 0 /\ Pre(<<>>, key)
    BY <1>0, EmptyIsPrefix, PrefixType DEF Pre
  <2>4. Entry(key, 0) = nodes[1].data
    BY <2>2, <2>3, NodeIsEntry
  <2>5. IsBest(key, 0, nodes[1].data)
    <3>1. \A k0 \in 0..0 : k0 = 0 /\ ~(k0 > 0)
      OBVIOUS
    <3>2. 0 \in 0..0
      OBVIOUS
    <3> QED  BY <2>4, <3>1, <3>2 DEF IsBest
  <2> QED  BY <1>2, <1>3, <2>1, <2>2, <2>3, <2>5
<1>4. CASE m # 0
  <2>1. m - 1 \in 0..ADDR_BITS /\ m - 1 \notin Bad
    BY <1>0, <1>1, <1>2, <1>4
  <2>2. Fine(m - 1)
    BY <2>1
  <2>3. h[m] = FindStep(h[m - 1], key)
    BY <1>2, <1>4 DEF FWalk
  <2> DEFINE at == h[m - 1]
             i == at.node
             d == h[m]
             c == ChildOn(i, key)
  <2>4. i \in 1..Len(nodes) /\ Pre(nodes[i].prefix, key)
           /\ IsBest(key, Len(nodes[i].prefix), at.best)
           /\ (Stopped(i, key) \/ Len(nodes[i].prefix) >= m - 1)
    BY <2>2
  <2>5. d = FindStep(at, key) /\ at.node = i
    BY <2>3
  <2> HIDE DEF at, i, d
  <2>6. CASE Stopped(i, key)
    <3>1. d = at
      BY <2>4, <2>5, <2>6, FindStepIs
    <3> QED  BY <1>2, <2>4, <2>5, <2>6, <3>1 DEF d
  <2>7. CASE ~Stopped(i, key)
    <3>1. /\ d = [node |-> c, best |-> IF nodes[c].data = NoData THEN at.best ELSE nodes[c].data]
          /\ c \in 1..Len(nodes) /\ Pre(nodes[c].prefix, key)
          /\ Below(nodes[i].prefix, nodes[c].prefix)
          /\ \A j \in 1..Len(nodes) :
               Pre(nodes[j].prefix, key) /\ Len(nodes[j].prefix) > Len(nodes[i].prefix)
               => Len(nodes[j].prefix) >= Len(nodes[c].prefix)
      BY <2>4, <2>5, <2>7, FindStepIs
    <3> HIDE DEF c
    <3>2. Len(nodes[i].prefix) < Len(nodes[c].prefix) /\ Len(nodes[i].prefix) >= m - 1
      BY <2>4, <2>7, <3>1 DEF Below
    <3>3. Len(nodes[i].prefix) \in Nat /\ Len(nodes[c].prefix) \in Nat
      BY <1>0, <2>4, <3>1, NodeFacts
    <3>4. Len(nodes[c].prefix) >= m
      BY <1>2, <3>2, <3>3
    <3>5. d.node = c /\ d.best = IF nodes[c].data = NoData THEN at.best ELSE nodes[c].data
      BY <3>1
    <3>6. IsBest(key, Len(nodes[c].prefix), d.best)
      BY <2>4, <3>1, <3>2, <3>5, BestGrows
    <3> QED  BY <1>2, <3>1, <3>4, <3>5, <3>6 DEF d
  <2> QED  BY <2>6, <2>7
<1> QED  BY <1>3, <1>4

(* When find stops, no longer match is left. *)
LEMMA FindIsBest ==
  ASSUME TrieInv, NEW key \in Address
  PROVE  IsBest(key, ADDR_BITS, find(key))
<1>0. Tree(nodes) /\ ADDR_BITS \in Nat /\ key \in Prefix /\ Len(key) = ADDR_BITS
  BY Bits, AddressIsPrefix DEF TrieInv
<1>1. PICK h : FWalk(h, key, ADDR_BITS) /\ find(key) = h[ADDR_BITS].best
  BY FindIs
<1> DEFINE i == h[ADDR_BITS].node
           v == h[ADDR_BITS].best
           m == Len(nodes[i].prefix)
<1>2. /\ i \in 1..Len(nodes) /\ Pre(nodes[i].prefix, key)
      /\ IsBest(key, m, v) /\ (Stopped(i, key) \/ m >= ADDR_BITS)
  <2>1. ADDR_BITS \in 0..ADDR_BITS
    BY <1>0
  <2> QED  BY <1>1, <2>1, FWalkFacts
<1> HIDE DEF i, v
<1>3. \A j \in 1..Len(nodes) : nodes[j].prefix \in Prefix /\ Len(nodes[j].prefix) \in Nat
                                 /\ Len(nodes[j].prefix) <= ADDR_BITS
  BY <1>0, NodeFacts
<1>4. \A j \in 1..Len(nodes) : Pre(nodes[j].prefix, key) => Len(nodes[j].prefix) <= m
  <2>1. CASE m = ADDR_BITS
    BY <1>3, <2>1
  <2>2. CASE m # ADDR_BITS
    <3>1. Below(nodes[i].prefix, key)
      BY <1>0, <1>2, <1>3, <2>2 DEF Below
    <3>2. Stopped(i, key)
      BY <1>0, <1>2, <1>3, <2>2
    <3>3. Pf(nodes)[i] = nodes[i].prefix /\ Ch(nodes)[i] = nodes[i].child
      BY <1>0, <1>2, NodeFacts
    <3>4. On(Pf(nodes), Ch(nodes), i, key) = ChildOn(i, key)
      BY <3>3 DEF On, ChildOn
    <3>5. ChildOn(i, key) = None \/ ~Pre(Pf(nodes)[ChildOn(i, key)], key)
      <4>1. ASSUME ChildOn(i, key) # None PROVE ~Pre(Pf(nodes)[ChildOn(i, key)], key)
        <5>1. key[m + 1] \in {0, 1}
          BY <1>0, <1>2, <1>3, <3>1, BelowBits
        <5>2. ChildOn(i, key) \in 1..Len(nodes)
          BY <1>0, <1>2, <4>1, <5>1, ChildFacts DEF ChildOn
        <5>3. Pf(nodes)[ChildOn(i, key)] = nodes[ChildOn(i, key)].prefix
          BY <1>0, <5>2, NodeFacts
        <5> QED  BY <2>2, <3>2, <4>1, <5>3 DEF Stopped
      <4> QED  BY <4>1
    <3>6. Shape(Len(nodes), Pf(nodes), Ch(nodes))
      BY <1>0 DEF Tree
    <3>7. \A j \in 1..Len(nodes) : Pre(Pf(nodes)[j], key) => Pre(Pf(nodes)[j], Pf(nodes)[i])
      BY <1>0, <1>2, <3>1, <3>3, <3>4, <3>5, <3>6, LastOnTheWay
    <3> QED  BY <1>0, <3>3, <3>7, NodeFacts DEF Pre
  <2> QED  BY <2>1, <2>2
<1>5. ASSUME NEW k \in 0..ADDR_BITS, k > m PROVE Entry(key, k) = NoData
  <2> SUFFICES ASSUME Entry(key, k) # NoData PROVE FALSE
    OBVIOUS
  <2>1. PICK j \in 1..Len(nodes) : Pre(nodes[j].prefix, key) /\ Len(nodes[j].prefix) = k
    BY EntryIsANode
  <2>2. k <= m /\ m \in Nat
    BY <1>2, <1>3, <1>4, <2>1
  <2> QED  BY <1>0, <1>5, <2>2
<1>6. m \in Nat /\ m <= ADDR_BITS
  BY <1>2, <1>3
<1> HIDE DEF m
<1>7. /\ \A k \in 0..ADDR_BITS : k \in 0..m \/ (k > m /\ Entry(key, k) = NoData)
      /\ \A k \in 0..m : k \in 0..ADDR_BITS /\ ~(k > m)
  BY <1>0, <1>5, <1>6
<1>8. IsBest(key, ADDR_BITS, v)
  BY <1>2, <1>7 DEF IsBest
<1> QED  BY <1>1, <1>8 DEF v

(* find answers as the table does. *)
LEMMA LongestMatch ==
  ASSUME TrieInv
  PROVE  FindIsLongestMatch
<1> SUFFICES ASSUME NEW key \in Address
             PROVE  LET held == {k \in 0..ADDR_BITS : table[SubSeq(key, 1, k)] # NoData}
                    IN  find(key) = IF held = {} THEN NoData ELSE table[SubSeq(key, 1, Max(held))]
  BY DEF FindIsLongestMatch
<1> DEFINE held == {k \in 0..ADDR_BITS : table[SubSeq(key, 1, k)] # NoData}
<1>1. IsBest(key, ADDR_BITS, find(key)) /\ ADDR_BITS \in Nat
  BY FindIsBest, Bits
<1>2. CASE held = {}
  <2>1. \A k \in 0..ADDR_BITS : Entry(key, k) = NoData
    BY <1>2 DEF Entry
  <2>2. find(key) = NoData
    BY <1>1, <2>1 DEF IsBest
  <2> QED  BY <1>2, <2>2
<1>3. CASE held # {}
  <2>1. held \subseteq 0..ADDR_BITS
    OBVIOUS
  <2>2. Max(held) \in held /\ \A y \in held : y <= Max(held)
    <3> HIDE DEF held
    <3> QED  BY <1>1, <1>3, <2>1, MaxIs
  <2> DEFINE x == Max(held)
  <2>3. x \in 0..ADDR_BITS /\ Entry(key, x) # NoData
          /\ \A k \in 0..ADDR_BITS : Entry(key, k) # NoData => k <= x
    <3> HIDE DEF x
    <3>1. x \in held /\ \A y \in held : y <= x
      BY <2>2 DEF x
    <3> QED  BY <3>1 DEF Entry
  <2> HIDE DEF x
  <2>4. PICK m \in 0..ADDR_BITS : /\ Entry(key, m) # NoData /\ find(key) = Entry(key, m)
                                  /\ \A k \in 0..ADDR_BITS : k > m => Entry(key, k) = NoData
    BY <1>1, <2>3 DEF IsBest
  <2>5. m = x
    BY <1>1, <2>3, <2>4
  <2>6. find(key) = table[SubSeq(key, 1, x)]
    BY <2>4, <2>5 DEF Entry
  <2> QED  BY <1>3, <2>6 DEF x
<1> QED  BY <1>2, <1>3

(* prefixes_overlap says whether two prefixes share an address. *)
LEMMA OverlapIs ==
  ASSUME NEW p \in Prefix, NEW q \in Prefix
  PROVE  prefixes_overlap(p, q) <=> \E key \in Address : IsPrefix(p, key) /\ IsPrefix(q, key)
<1>1. Len(p) \in Nat /\ Len(q) \in Nat /\ Len(p) <= ADDR_BITS /\ Len(q) <= ADDR_BITS
        /\ ADDR_BITS \in Nat
  BY PrefixType, Bits
<1>2. prefixes_overlap(p, q) <=> common_prefix_len(p, q) = IF Len(p) <= Len(q) THEN Len(p) ELSE Len(q)
  BY <1>1, MinOfTwo DEF prefixes_overlap
<1>3. prefixes_overlap(p, q) <=> (Pre(p, q) \/ Pre(q, p))
  <2>1. (common_prefix_len(p, q) = Len(q) <=> Pre(q, p)) /\ (common_prefix_len(p, q) = Len(p) <=> Pre(p, q))
    BY CommonIsAll
  <2>2. (Pre(p, q) => Len(p) <= Len(q)) /\ (Pre(q, p) => Len(q) <= Len(p))
    BY DEF Pre
  <2> QED  BY <1>1, <1>2, <2>1, <2>2
<1>4. \A key \in Address : key \in Prefix /\ Len(key) = ADDR_BITS
  BY AddressIsPrefix
(* The longer one with zeros after it. *)
<1>5. ASSUME NEW r \in Prefix PROVE \E key \in Address : Pre(r, key)
  <2> DEFINE key == [j \in 1..ADDR_BITS |-> IF j <= Len(r) THEN r[j] ELSE 0]
  <2>1. Len(r) \in Nat /\ Len(r) <= ADDR_BITS /\ \A j \in 1..Len(r) : r[j] \in {0, 1}
    BY PrefixType
  <2>2. \A j \in 1..ADDR_BITS : (IF j <= Len(r) THEN r[j] ELSE 0) \in {0, 1}
    BY <1>1, <2>1
  <2>3. key \in Address
    BY <2>2 DEF Address
  <2>4. \A j \in 1..Len(r) : key[j] = r[j]
    BY <1>1, <2>1
  <2> HIDE DEF key
  <2>5. Len(key) = ADDR_BITS
    BY <1>4, <2>3
  <2> QED  BY <2>1, <2>3, <2>4, <2>5 DEF Pre
<1>6. ASSUME Pre(p, q) \/ Pre(q, p)
      PROVE  \E key \in Address : IsPrefix(p, key) /\ IsPrefix(q, key)
  <2>1. CASE Pre(p, q)
    <3>1. PICK key \in Address : Pre(q, key)
      BY <1>5
    <3>2. Pre(p, key)
      BY <1>4, <2>1, <3>1, PreTransitive
    <3> QED  BY <1>4, <3>1, <3>2, PreIsPrefix
  <2>2. CASE Pre(q, p)
    <3>1. PICK key \in Address : Pre(p, key)
      BY <1>5
    <3>2. Pre(q, key)
      BY <1>4, <2>2, <3>1, PreTransitive
    <3> QED  BY <1>4, <3>1, <3>2, PreIsPrefix
  <2> QED  BY <1>6, <2>1, <2>2
<1>7. ASSUME NEW key \in Address, IsPrefix(p, key), IsPrefix(q, key)
      PROVE  Pre(p, q) \/ Pre(q, p)
  <2>1. Pre(p, key) /\ Pre(q, key) /\ key \in Prefix
    BY <1>4, <1>7, PreIsPrefix
  <2>2. CASE Len(p) <= Len(q)
    BY <2>1, <2>2, PreComparable
  <2>3. CASE Len(q) <= Len(p)
    BY <2>1, <2>3, PreComparable
  <2> QED  BY <1>1, <2>2, <2>3
<1> QED  BY <1>3, <1>6, <1>7

(* overlaps answers as the table does. *)
LEMMA ExactOverlaps ==
  ASSUME TrieInv
  PROVE  OverlapsIsExact
<1>1. iter = {<<p, table[p]>> : p \in {q \in Prefix : table[q] # NoData}}
  BY EntriesAgree DEF TableAgrees
<1> SUFFICES ASSUME NEW p \in Prefix
             PROVE  overlaps(p) <=> \E q \in Prefix, key \in Address :
                      table[q] # NoData /\ IsPrefix(p, key) /\ IsPrefix(q, key)
  BY DEF OverlapsIsExact
<1>2. overlaps(p) <=> \E q \in Prefix : table[q] # NoData /\ prefixes_overlap(p, q)
  <2>1. ASSUME NEW e \in iter, prefixes_overlap(p, e[1])
        PROVE  \E q \in Prefix : table[q] # NoData /\ prefixes_overlap(p, q)
    <3>1. PICK q \in Prefix : table[q] # NoData /\ e = <<q, table[q]>>
      BY <1>1
    <3> QED  BY <2>1, <3>1
  <2>2. ASSUME NEW q \in Prefix, table[q] # NoData, prefixes_overlap(p, q)
        PROVE  \E e \in iter : prefixes_overlap(p, e[1])
    <3>1. <<q, table[q]>> \in iter
      BY <1>1, <2>2
    <3>2. <<q, table[q]>>[1] = q
      OBVIOUS
    <3> QED  BY <2>2, <3>1, <3>2
  <2> QED  BY <2>1, <2>2 DEF overlaps
<1> QED  BY <1>2, OverlapIs

(* A packet goes to the peer of the longest inserted prefix of its address, *)
(* and a prefix overlaps the trie exactly when an address is in it and in   *)
(* an inserted one, whatever was inserted, split, removed and refused       *)
(* before (find, overlaps).                                                 *)
THEOREM LookupsAlwaysAgree == Spec => []LookupsAgree
<1>1. TrieInv => LookupsAgree
  BY LongestMatch, ExactOverlaps DEF LookupsAgree
<1> QED  BY <1>1, TrieInvAlways, PTL
=============================================================================
