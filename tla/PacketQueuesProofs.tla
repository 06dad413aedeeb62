------------------------- MODULE PacketQueuesProofs -------------------------
(***************************************************************************)
(* The properties of PacketQueues for any finite set of peers, any size of *)
(* the table and of the arena, any limits and both builds, and that its    *)
(* shared intrusive lists implement PendingQueues.                         *)
(*                                                                         *)
(* The loops of the code are recursive functions and folds.  What they     *)
(* compute is shown by a least counterexample: a family of sets R, one for *)
(* each number of iterations (or set of peers) done, such that an          *)
(* iteration leads from R to the next.  The operations of one list are     *)
(* shown first (Changes, Pops), then lifted to all lists (Holds), then     *)
(* stated as what they do to the sequences of packets (Shows).             *)
(***************************************************************************)
EXTENDS PacketQueues, FiniteSetTheorems, SequenceTheorems, WellFoundedInduction, TLAPS

-----------------------------------------------------------------------------
(* Loops and folds. *)

(* Every set of naturals has a least member. *)
LEMMA HasLeast ==
  ASSUME NEW S \in SUBSET Nat, S # {}
  PROVE  \E x \in S : \A y \in S : x <= y
<1> DEFINE R == OpToRel(<, Nat)
<1>1. IsWellFoundedOn(R, Nat)
  BY NatLessThanWellFounded
<1> HIDE DEF R
<1>2. PICK x \in S : \A y \in S : ~(<<y, x>> \in R)
  BY <1>1, WFMin
<1>3. ASSUME NEW y \in Nat, y < x PROVE <<y, x>> \in R
  <2>1. <<y, x>> \in Nat \X Nat /\ <<y, x>>[1] < <<y, x>>[2]
    BY <1>3
  <2> QED  BY <2>1 DEF R, OpToRel
<1>4. ASSUME NEW y \in S PROVE x <= y
  <2>1. x \in Nat /\ y \in Nat
    OBVIOUS
  <2>2. ~(y < x)
    BY <1>2, <1>3, <2>1
  <2> QED  BY <2>1, <2>2
<1> QED  BY <1>4

(* Min picks the least member. *)
LEMMA MinIs ==
  ASSUME NEW S \in SUBSET Nat, S # {}
  PROVE  Min(S) \in S /\ \A y \in S : Min(S) <= y
<1>1. \E x \in S : \A y \in S : x <= y
  BY HasLeast
<1> QED  BY <1>1 DEF Min

(* A property of the steps of a loop holds of all of them: a set of        *)
(* possible states for each step, which a step leads from one to the next. *)
LEMMA LoopInv ==
  ASSUME NEW n \in Nat, NEW R, NEW g, g[0] \in R[0],
         \A i \in 1..n : g[i - 1] \in R[i - 1] => g[i] \in R[i]
  PROVE  \A i \in 0..n : g[i] \in R[i]
<1> DEFINE Bad == {i \in 0..n : g[i] \notin R[i]}
<1>1. SUFFICES ASSUME Bad # {} PROVE FALSE
  OBVIOUS
<1>2. Bad \in SUBSET Nat
  OBVIOUS
<1> HIDE DEF Bad
<1>3. PICK m \in Bad : \A k \in Bad : m <= k
  BY <1>1, <1>2, HasLeast
<1>4. m \in 0..n /\ g[m] \notin R[m]
  BY DEF Bad
<1>5. m # 0
  BY <1>4
<1>6. m - 1 \in 0..n /\ m \in 1..n /\ ~(m <= m - 1)
  BY <1>4, <1>5
<1>7. m - 1 \notin Bad
  BY <1>3, <1>6
<1>8. g[m - 1] \in R[m - 1]
  BY <1>6, <1>7 DEF Bad
<1> QED  BY <1>4, <1>6, <1>8

(* The loop that starts with b and does F can be run for n steps. *)
Loops(g, n, b, F) == g = [i \in 0..n |-> IF i = 0 THEN b ELSE F[g[i - 1]]]

(* A loop of n iterations has a run. *)
LEMMA LoopExists ==
  ASSUME NEW n \in Nat, NEW F, NEW b
  PROVE  \E g : Loops(g, n, b, F)
<1> DEFINE Bad == {m \in Nat : ~\E g : Loops(g, m, b, F)}
<1>1. SUFFICES ASSUME Bad # {} PROVE FALSE
  OBVIOUS
<1>2. Bad \in SUBSET Nat
  OBVIOUS
<1> HIDE DEF Bad
<1>3. PICK m \in Bad : \A k \in Bad : m <= k
  BY <1>1, <1>2, HasLeast
<1>4. m \in Nat /\ ~\E g : Loops(g, m, b, F)
  BY DEF Bad
<1>5. CASE m = 0
  <2> DEFINE g == [i \in 0..0 |-> b]
  <2>1. g = [i \in 0..0 |-> IF i = 0 THEN b ELSE F[g[i - 1]]]
    OBVIOUS
  <2>2. Loops(g, m, b, F)
    BY <2>1, <1>5 DEF Loops
  <2> HIDE DEF g
  <2> QED  BY <1>4, <2>2
<1>6. CASE m # 0
  <2>1. m - 1 \in Nat /\ ~(m <= m - 1)
    BY <1>4, <1>6
  <2>2. m - 1 \notin Bad
    BY <1>3, <2>1
  <2>3. PICK f : Loops(f, m - 1, b, F)
    BY <2>1, <2>2 DEF Bad
  <2> DEFINE g == [i \in 0..m |-> IF i = 0 THEN b ELSE F[f[i - 1]]]
  <2>4. ASSUME NEW i \in 0..(m - 1) PROVE g[i] = f[i]
    BY <1>4, <2>1, <2>3 DEF Loops
  <2>5. ASSUME NEW i \in 0..m PROVE g[i] = IF i = 0 THEN b ELSE F[g[i - 1]]
    <3>1. CASE i = 0
      BY <3>1
    <3>2. CASE i # 0
      <4>1. i - 1 \in 0..(m - 1)
        BY <1>4, <3>2
      <4> QED  BY <2>4, <3>2, <4>1
    <3> QED  BY <3>1, <3>2
  <2>6. DOMAIN g = 0..m /\ g = [i \in DOMAIN g |-> g[i]]
    OBVIOUS
  <2> HIDE DEF g
  <2>7. g = [i \in 0..m |-> IF i = 0 THEN b ELSE F[g[i - 1]]]
    BY <2>5, <2>6
  <2> QED  BY <1>4, <2>7 DEF Loops
<1> QED  BY <1>5, <1>6

(* What the first value has and every iteration keeps holds all along. *)
LEMMA LoopRuns ==
  ASSUME NEW n \in Nat, NEW F, NEW R, NEW b \in R[0],
         \A i \in 1..n : \A a \in R[i - 1] : F[a] \in R[i]
  PROVE  \E g : Loops(g, n, b, F) /\ \A i \in 0..n : g[i] \in R[i]
<1>1. PICK g : Loops(g, n, b, F)
  BY LoopExists
<1>2. g[0] = b /\ \A i \in 1..n : g[i] = F[g[i - 1]]
  BY <1>1 DEF Loops
<1>3. \A i \in 1..n : g[i - 1] \in R[i - 1] => g[i] \in R[i]
  BY <1>2
<1>4. \A i \in 0..n : g[i] \in R[i]
  BY <1>2, <1>3, LoopInv
<1> QED  BY <1>1, <1>4

(* The member of a set that a fold takes first. *)
First(s) == CHOOSE x \in s : TRUE

(* The same for a fold over a finite set. *)
LEMMA FoldInv ==
  ASSUME NEW S, IsFiniteSet(S), NEW R, NEW g, g[{}] \in R[{}],
         \A s \in SUBSET S : s # {} /\ g[s \ {First(s)}] \in R[s \ {First(s)}] => g[s] \in R[s]
  PROVE  \A s \in SUBSET S : g[s] \in R[s]
<1> DEFINE Bad == {s \in SUBSET S : g[s] \notin R[s]}
           Sz == {Cardinality(s) : s \in Bad}
<1>1. SUFFICES ASSUME Bad # {} PROVE FALSE
  OBVIOUS
<1>2. ASSUME NEW s \in SUBSET S PROVE IsFiniteSet(s) /\ Cardinality(s) \in Nat
  BY FS_Subset, FS_CardinalityType
<1>3. Sz \in SUBSET Nat /\ Sz # {}
  BY <1>1, <1>2
<1>4. PICK m \in Sz : \A k \in Sz : m <= k
  BY <1>3, HasLeast
<1>5. PICK s \in Bad : Cardinality(s) = m
  BY <1>4
<1>6. s \in SUBSET S /\ g[s] \notin R[s] /\ s # {}
  OBVIOUS
<1> DEFINE x == First(s)
           t == s \ {x}
<1>7. x \in s
  BY <1>6 DEF First
<1>8. t \in SUBSET S /\ Cardinality(t) = Cardinality(s) - 1
  BY <1>2, <1>6, <1>7, FS_RemoveElement
<1>9. t \notin Bad
  <2>1. Cardinality(t) \in Nat /\ Cardinality(s) \in Nat
    BY <1>2, <1>6, <1>8
  <2>2. ~(m <= Cardinality(t))
    BY <1>5, <1>8, <2>1
  <2> QED  BY <1>4, <2>2
<1>10. g[t] \in R[t]
  BY <1>8, <1>9
<1> QED  BY <1>6, <1>10

Folding(g, S, b, F) ==
  g = [s \in SUBSET S |-> IF s = {} THEN b ELSE F[<<First(s), g[s \ {First(s)}]>>]]

(* The subsets with at most m members. *)
Small(S, m) == {s \in SUBSET S : Cardinality(s) <= m}

FoldingSmall(g, S, m, b, F) ==
  g = [s \in Small(S, m) |-> IF s = {} THEN b ELSE F[<<First(s), g[s \ {First(s)}]>>]]

(* A fold over a finite set has a run, too. *)
LEMMA FoldExists ==
  ASSUME NEW S, IsFiniteSet(S), NEW F, NEW b
  PROVE  \E g : Folding(g, S, b, F)
<1> DEFINE Bad == {m \in Nat : ~\E g : FoldingSmall(g, S, m, b, F)}
<1>0. ASSUME NEW s \in SUBSET S PROVE IsFiniteSet(s) /\ Cardinality(s) \in Nat
  BY FS_Subset, FS_CardinalityType
<1>1. Bad = {}
  <2>1. SUFFICES ASSUME Bad # {} PROVE FALSE
    OBVIOUS
  <2>2. Bad \in SUBSET Nat
    OBVIOUS
  <2> HIDE DEF Bad
  <2>3. PICK m \in Bad : \A k \in Bad : m <= k
    BY <2>1, <2>2, HasLeast
  <2>4. m \in Nat /\ ~\E g : FoldingSmall(g, S, m, b, F)
    BY DEF Bad
  <2>5. CASE m = 0
    <3> DEFINE g == [s \in Small(S, 0) |-> b]
    <3>1. ASSUME NEW s \in Small(S, 0) PROVE s = {}
      <4>1. s \in SUBSET S /\ Cardinality(s) <= 0
        BY DEF Small
      <4>2. IsFiniteSet(s) /\ Cardinality(s) \in Nat
        BY <4>1, <1>0
      <4> QED  BY <4>1, <4>2, FS_EmptySet
    <3>2. g = [s \in Small(S, 0) |-> IF s = {} THEN b ELSE F[<<First(s), g[s \ {First(s)}]>>]]
      BY <3>1
    <3> HIDE DEF g
    <3> QED  BY <2>4, <2>5, <3>2 DEF FoldingSmall
  <2>6. CASE m # 0
    <3>1. m - 1 \in Nat /\ ~(m <= m - 1)
      BY <2>4, <2>6
    <3>2. m - 1 \notin Bad
      BY <2>3, <3>1
    <3>3. PICK f : FoldingSmall(f, S, m - 1, b, F)
      BY <3>1, <3>2 DEF Bad
    <3> DEFINE g == [s \in Small(S, m) |-> IF s = {} THEN b ELSE F[<<First(s), f[s \ {First(s)}]>>]]
    <3>4. ASSUME NEW s \in Small(S, m - 1) PROVE g[s] = f[s]
      <4>1. s \in Small(S, m)
        <5>1. s \in SUBSET S /\ Cardinality(s) <= m - 1
          BY DEF Small
        <5>2. Cardinality(s) \in Nat
          BY <5>1, <1>0
        <5>3. Cardinality(s) <= m
          BY <5>1, <5>2, <2>4
        <5> QED  BY <5>1, <5>3 DEF Small
      <4>2. f[s] = IF s = {} THEN b ELSE F[<<First(s), f[s \ {First(s)}]>>]
        BY <3>3 DEF FoldingSmall
      <4> QED  BY <4>1, <4>2
    <3>5. ASSUME NEW s \in Small(S, m)
          PROVE  g[s] = IF s = {} THEN b ELSE F[<<First(s), g[s \ {First(s)}]>>]
      <4>1. CASE s = {}
        BY <4>1
      <4>2. CASE s # {}
        <5>1. First(s) \in s
          BY <4>2 DEF First
        <5>2. s \in SUBSET S /\ Cardinality(s) <= m
          BY DEF Small
        <5>3. /\ s \ {First(s)} \in SUBSET S /\ Cardinality(s) \in Nat
              /\ Cardinality(s \ {First(s)}) = Cardinality(s) - 1
          BY <5>1, <5>2, <1>0, FS_RemoveElement
        <5>4. Cardinality(s \ {First(s)}) <= m - 1
          BY <5>2, <5>3, <2>4
        <5>5. s \ {First(s)} \in Small(S, m - 1)
          BY <5>3, <5>4 DEF Small
        <5> QED  BY <3>4, <4>2, <5>5
      <4> QED  BY <4>1, <4>2
    <3>6. DOMAIN g = Small(S, m) /\ g = [s \in DOMAIN g |-> g[s]]
      OBVIOUS
    <3> HIDE DEF g
    <3>7. g = [s \in Small(S, m) |-> IF s = {} THEN b ELSE F[<<First(s), g[s \ {First(s)}]>>]]
      BY <3>5, <3>6
    <3> QED  BY <2>4, <3>7 DEF FoldingSmall
  <2> QED  BY <2>5, <2>6
<1>2. Cardinality(S) \in Nat
  BY <1>0
<1>3. PICK g : FoldingSmall(g, S, Cardinality(S), b, F)
  BY <1>1, <1>2
<1>4. Small(S, Cardinality(S)) = SUBSET S
  <2>1. ASSUME NEW s \in SUBSET S PROVE Cardinality(s) <= Cardinality(S)
    BY FS_Subset
  <2> QED  BY <2>1 DEF Small
<1> QED  BY <1>3, <1>4 DEF FoldingSmall, Folding

(* And what its base has and every member keeps holds all along. *)
LEMMA FoldRuns ==
  ASSUME NEW S, IsFiniteSet(S), NEW F, NEW R, NEW b \in R[{}],
         \A s \in SUBSET S : \A x \in S : \A a \in R[s] :
            x \notin s => F[<<x, a>>] \in R[s \cup {x}]
  PROVE  \E g : Folding(g, S, b, F) /\ \A s \in SUBSET S : g[s] \in R[s]
<1>1. PICK g : Folding(g, S, b, F)
  BY FoldExists
<1>2. /\ g[{}] = b
      /\ \A s \in SUBSET S : s # {} => g[s] = F[<<First(s), g[s \ {First(s)}]>>]
  BY <1>1 DEF Folding
<1>3. ASSUME NEW s \in SUBSET S, s # {}, g[s \ {First(s)}] \in R[s \ {First(s)}]
      PROVE  g[s] \in R[s]
  <2>1. First(s) \in s
    BY <1>3 DEF First
  <2>2. PICK t \in SUBSET S : t = s \ {First(s)}
    OBVIOUS
  <2>3. s = t \cup {First(s)} /\ First(s) \notin t /\ First(s) \in S
    BY <2>1, <2>2
  <2>4. g[s] = F[<<First(s), g[t]>>] /\ g[t] \in R[t]
    BY <1>2, <1>3, <2>2
  <2> QED  BY <2>3, <2>4
<1>4. \A s \in SUBSET S : g[s] \in R[s]
  <2>1. g[{}] \in R[{}]
    BY <1>2
  <2> QED  BY <1>3, <2>1, FoldInv
<1> QED  BY <1>1, <1>4
-----------------------------------------------------------------------------
(* Sums of packet sizes. *)

Bytes(sl, S) == MapThenSumSet(LAMBDA h : sl[h].size, S)

Summing(g, sl, S) ==
  g = [s \in SUBSET S |-> IF s = {} THEN 0 ELSE sl[First(s)].size + g[s \ {First(s)}]]

(* The sum is the last value of a fold, and a natural number. *)
LEMMA BytesIs ==
  ASSUME NEW S, IsFiniteSet(S), NEW sl, \A h \in S : sl[h].size \in Nat
  PROVE  \E g : /\ Summing(g, sl, S) /\ Bytes(sl, S) = g[S]
                /\ \A s \in SUBSET S : g[s] \in Nat
<1> DEFINE F == [xa \in S \X Nat |-> sl[xa[1]].size + xa[2]]
           R == [s \in SUBSET S |-> Nat]
<1>1. 0 \in R[{}]
  OBVIOUS
<1>2. ASSUME NEW x \in S, NEW a \in Nat PROVE F[<<x, a>>] = sl[x].size + a /\ F[<<x, a>>] \in Nat
  <2>1. <<x, a>> \in S \X Nat /\ <<x, a>>[1] = x /\ <<x, a>>[2] = a
    OBVIOUS
  <2>2. sl[x].size \in Nat
    OBVIOUS
  <2> QED  BY <2>1, <2>2
<1>3. ASSUME NEW s \in SUBSET S, NEW x \in S, NEW a \in R[s], x \notin s
      PROVE  F[<<x, a>>] \in R[s \cup {x}]
  BY <1>2
<1>4. \A s \in SUBSET S : R[s] = Nat
  OBVIOUS
<1> HIDE DEF F, R
<1>5. PICK g : Folding(g, S, 0, F) /\ \A s \in SUBSET S : g[s] \in R[s]
  BY <1>1, <1>3, FoldRuns
<1>6. ASSUME NEW s \in SUBSET S, s # {}
      PROVE F[<<First(s), g[s \ {First(s)}]>>] = sl[First(s)].size + g[s \ {First(s)}]
  <2>1. First(s) \in S
    BY <1>6 DEF First
  <2>2. g[s \ {First(s)}] \in Nat
    BY <1>4, <1>5
  <2> QED  BY <1>2, <2>1, <2>2
<1>7. Summing(g, sl, S)
  <2>1. g = [s \in SUBSET S |-> IF s = {} THEN 0 ELSE F[<<First(s), g[s \ {First(s)}]>>]]
    BY <1>5 DEF Folding
  <2> DEFINE G == [s \in SUBSET S |-> IF s = {} THEN 0 ELSE sl[First(s)].size + g[s \ {First(s)}]]
  <2>2. ASSUME NEW s \in SUBSET S PROVE g[s] = G[s]
    BY <2>1, <1>6
  <2>3. DOMAIN g = SUBSET S /\ g = [s \in DOMAIN g |-> g[s]]
    BY <2>1
  <2>4. DOMAIN G = SUBSET S /\ G = [s \in DOMAIN G |-> G[s]]
    OBVIOUS
  <2>5. g = G
    BY <2>2, <2>3, <2>4
  <2> QED  BY <2>5 DEF Summing
<1> DEFINE h == CHOOSE r : Summing(r, sl, S)
<1>8. Bytes(sl, S) = h[S]
  BY DEF Bytes, Summing, First, MapThenSumSet, MapThenFoldSet
<1>9. Summing(h, sl, S)
  BY <1>7
<1> HIDE DEF h
<1>10. ASSUME NEW s \in SUBSET S PROVE h[s] \in Nat
  <2>1. /\ h[{}] = 0
        /\ \A u \in SUBSET S : u # {} => h[u] = sl[First(u)].size + h[u \ {First(u)}]
    BY <1>9 DEF Summing
  <2>2. h[{}] \in R[{}]
    BY <2>1, <1>1
  <2>3. ASSUME NEW u \in SUBSET S, u # {}, h[u \ {First(u)}] \in R[u \ {First(u)}]
        PROVE  h[u] \in R[u]
    <3>1. First(u) \in S
      BY <2>3 DEF First
    <3>2. h[u \ {First(u)}] \in Nat /\ sl[First(u)].size \in Nat
      BY <1>4, <2>3, <3>1
    <3>3. h[u] = sl[First(u)].size + h[u \ {First(u)}]
      BY <2>1, <2>3
    <3>4. h[u] \in Nat
      BY <3>2, <3>3
    <3> QED  BY <1>4, <3>4
  <2>4. h[s] \in R[s]
    BY <2>2, <2>3, FoldInv
  <2> QED  BY <1>4, <2>4
<1> QED  BY <1>8, <1>9, <1>10

(* Any member can be taken out of a sum first. *)
LEMMA SumExtract ==
  ASSUME NEW S, IsFiniteSet(S), NEW sl, \A h \in S : sl[h].size \in Nat,
         NEW g, Summing(g, sl, S), \A s \in SUBSET S : g[s] \in Nat
  PROVE  \A s \in SUBSET S : \A x \in s : g[s] = sl[x].size + g[s \ {x}]
<1> DEFINE Fine(s) == \A x \in s : g[s] = sl[x].size + g[s \ {x}]
           Bad == {s \in SUBSET S : ~Fine(s)}
           Sz == {Cardinality(s) : s \in Bad}
<1>1. SUFFICES ASSUME Bad # {} PROVE FALSE
  OBVIOUS
<1>2. ASSUME NEW s \in SUBSET S PROVE IsFiniteSet(s) /\ Cardinality(s) \in Nat
  BY FS_Subset, FS_CardinalityType
<1>3. Sz \in SUBSET Nat /\ Sz # {}
  BY <1>1, <1>2
<1>4. PICK m \in Sz : \A k \in Sz : m <= k
  BY <1>3, HasLeast
<1>5. PICK s \in Bad : Cardinality(s) = m
  BY <1>4
<1>6. PICK x \in s : g[s] # sl[x].size + g[s \ {x}]
  OBVIOUS
<1>7. s \in SUBSET S /\ s # {}
  BY <1>6
<1>8. ASSUME NEW z \in s PROVE Fine(s \ {z})
  <2>1. s \ {z} \in SUBSET S /\ Cardinality(s \ {z}) = Cardinality(s) - 1
    BY <1>2, <1>7, FS_RemoveElement
  <2>2. Cardinality(s \ {z}) \in Nat /\ Cardinality(s) \in Nat
    BY <1>2, <1>7, <2>1
  <2>3. ~(m <= Cardinality(s \ {z}))
    BY <1>5, <2>1, <2>2
  <2>4. s \ {z} \notin Bad
    BY <1>4, <2>3
  <2> QED  BY <2>1, <2>4
<1> HIDE DEF Bad, Sz
<1> DEFINE y == First(s)
<1>9. y \in s
  BY <1>7 DEF First
<1>10. g[s] = sl[y].size + g[s \ {y}]
  BY <1>7 DEF Summing
<1>11. x # y
  BY <1>6, <1>10
<1> HIDE DEF y
<1>12. g[s \ {y}] = sl[x].size + g[(s \ {y}) \ {x}]
  BY <1>8, <1>9, <1>11
<1>13. g[s \ {x}] = sl[y].size + g[(s \ {x}) \ {y}]
  BY <1>8, <1>9, <1>11
<1>14. PICK u \in SUBSET S : u = (s \ {x}) \ {y}
  BY <1>7
<1>15. (s \ {y}) \ {x} = u
  BY <1>14
<1>16. sl[x].size \in Nat /\ sl[y].size \in Nat /\ g[u] \in Nat
  BY <1>7, <1>9
<1>17. g[s \ {y}] = sl[x].size + g[u] /\ g[s \ {x}] = sl[y].size + g[u]
  BY <1>12, <1>13, <1>14, <1>15
<1> QED  BY <1>6, <1>10, <1>16, <1>17

(* A sum depends only on the sizes of its members. *)
LEMMA BytesSame ==
  ASSUME NEW S, IsFiniteSet(S), NEW sl, NEW sm, NEW T \in SUBSET S,
         \A h \in S : sl[h].size \in Nat, \A h \in T : sm[h].size = sl[h].size,
         NEW g, Summing(g, sl, S)
  PROVE  Bytes(sm, T) = g[T]
<1>1. IsFiniteSet(T)
  BY FS_Subset
<1>2. PICK f : Summing(f, sm, T) /\ Bytes(sm, T) = f[T]
  BY <1>1, BytesIs
<1> DEFINE R == [s \in SUBSET T |-> {g[s]}]
<1>3. f[{}] \in R[{}]
  BY <1>2 DEF Summing
<1>4. ASSUME NEW s \in SUBSET T, s # {}, f[s \ {First(s)}] \in R[s \ {First(s)}]
      PROVE  f[s] \in R[s]
  <2>1. First(s) \in T
    BY <1>4 DEF First
  <2>2. f[s \ {First(s)}] = g[s \ {First(s)}]
    BY <1>4
  <2>3. f[s] = sm[First(s)].size + f[s \ {First(s)}]
    BY <1>2, <1>4 DEF Summing
  <2>4. s \in SUBSET S
    OBVIOUS
  <2>5. g[s] = sl[First(s)].size + g[s \ {First(s)}]
    BY <1>4, <2>4 DEF Summing
  <2> QED  BY <2>1, <2>2, <2>3, <2>5
<1>5. \A s \in SUBSET T : R[s] = {g[s]}
  OBVIOUS
<1> HIDE DEF R
<1>6. f[T] \in R[T]
  BY <1>1, <1>3, <1>4, FoldInv
<1> QED  BY <1>2, <1>5, <1>6

(* One packet more. *)
LEMMA BytesAdd ==
  ASSUME NEW S, IsFiniteSet(S), NEW h, h \notin S, NEW sl, NEW sm,
         \A x \in S : sl[x].size \in Nat, \A x \in S : sm[x].size = sl[x].size,
         sm[h].size \in Nat
  PROVE  /\ Bytes(sm, S \cup {h}) = Bytes(sl, S) + sm[h].size
         /\ Bytes(sl, S) \in Nat
<1> DEFINE T == S \cup {h}
<1>1. IsFiniteSet(T) /\ S \in SUBSET T /\ T \in SUBSET T /\ h \in T /\ T \ {h} = S
  BY FS_AddElement
<1>2. \A x \in T : sm[x].size \in Nat
  OBVIOUS
<1> HIDE DEF T
<1>3. PICK g : Summing(g, sm, T) /\ Bytes(sm, T) = g[T] /\ \A s \in SUBSET T : g[s] \in Nat
  BY <1>1, <1>2, BytesIs
<1>4. g[T] = sm[h].size + g[S]
  BY <1>1, <1>2, <1>3, SumExtract
<1>5. \A x \in S : sl[x].size = sm[x].size
  OBVIOUS
<1>6. Bytes(sl, S) = g[S]
  BY <1>1, <1>2, <1>3, <1>5, BytesSame
<1>7. g[S] \in Nat
  BY <1>1, <1>3
<1> QED  BY <1>3, <1>4, <1>6, <1>7 DEF T

(* One packet less. *)
LEMMA BytesRemove ==
  ASSUME NEW S, IsFiniteSet(S), NEW h \in S, NEW sl, NEW sm,
         \A x \in S : sl[x].size \in Nat, \A x \in S \ {h} : sm[x].size = sl[x].size
  PROVE  /\ Bytes(sl, S) = Bytes(sm, S \ {h}) + sl[h].size
         /\ Bytes(sm, S \ {h}) \in Nat
<1>1. PICK T \in SUBSET S : T = S \ {h}
  OBVIOUS
<1>2. IsFiniteSet(T) /\ h \notin T /\ T \cup {h} = S
  BY <1>1, FS_Subset
<1>3. \A x \in T : sm[x].size \in Nat
  BY <1>1
<1>4. \A x \in T : sl[x].size = sm[x].size
  BY <1>1
<1>5. Bytes(sl, T \cup {h}) = Bytes(sm, T) + sl[h].size /\ Bytes(sm, T) \in Nat
  BY <1>2, <1>3, <1>4, BytesAdd
<1> QED  BY <1>1, <1>2, <1>5

(* Only the sizes of the members matter. *)
LEMMA BytesEqual ==
  ASSUME NEW S, IsFiniteSet(S), NEW sl, NEW sm,
         \A x \in S : sl[x].size \in Nat, \A x \in S : sm[x].size = sl[x].size
  PROVE  Bytes(sm, S) = Bytes(sl, S)
<1>1. PICK g : Summing(g, sl, S) /\ Bytes(sl, S) = g[S]
  BY BytesIs
<1>2. S \in SUBSET S
  OBVIOUS
<1> QED  BY <1>1, <1>2, BytesSame

(* No packets hold no bytes. *)
LEMMA BytesNone == ASSUME NEW sl PROVE Bytes(sl, {}) = 0
<1>1. PICK g : Summing(g, sl, {}) /\ Bytes(sl, {}) = g[{}]
  BY BytesIs, FS_EmptySet
<1> QED  BY <1>1 DEF Summing
-----------------------------------------------------------------------------
(* The descriptor table, in both builds. *)

VecCell == [name : Names, next : Nat, queued_at : Nat, size : Sizes]
ArenaCell == [name : Names, next : Nat, queued_at : Nat, size : Sizes, offset : Nat]

VecPool == [slots : Seq(VecCell \cup {Free}), free : Seq(Nat), used_bytes : Nat]
ArenaPool == [slots : [Handle -> ArenaCell \cup {Free}]]

Injective(s) == \A i, j \in DOMAIN s : s[i] = s[j] => i = j

(* The books of the pool: VecAccounts and ArenaAccounts of any pool pl. *)
VecOk(pl) ==
  /\ pl \in VecPool
  /\ Len(pl.slots) <= N /\ pl.used_bytes <= BYTES
  /\ Range(pl.free) = DOMAIN pl.slots \ Live(pl)
  /\ Injective(pl.free)
  /\ pl.used_bytes = Bytes(pl.slots, Live(pl))

End(pl, h) == pl.slots[h].offset + pl.slots[h].size

ArenaOk(pl) ==
  /\ pl \in ArenaPool
  /\ \A h \in Live(pl) : End(pl, h) <= BYTES
  /\ \A g, h \in Live(pl) :
       g # h => End(pl, g) <= pl.slots[h].offset \/ End(pl, h) <= pl.slots[g].offset

PoolOk(bd, pl) ==
  \/ bd = "alloc" /\ VecOk(pl)
  \/ bd = "no_alloc" /\ ArenaOk(pl)

(* What the constants are. *)
LEMMA Consts ==
  /\ N \in Nat /\ N >= 1 /\ BYTES \in Nat /\ Sizes \subseteq Nat
  /\ MAX_PENDING_PACKETS \in Nat /\ MAX_PENDING_PACKETS >= 1
  /\ PENDING_PACKET_TTL \in Nat /\ PENDING_PACKET_TTL >= 1 /\ MaxTime \in Nat
  BY PoolAssumption

(* A packet's descriptor is not a free one. *)
LEMMA CellNotFree ==
  /\ \A s \in VecCell : s # Free
  /\ \A s \in ArenaCell : s # Free
<1>1. DOMAIN Free = {"name"}
  BY DEF Free
<1>2. ASSUME NEW s \in VecCell PROVE DOMAIN s = {"name", "next", "queued_at", "size"}
  BY DEF VecCell
<1>3. ASSUME NEW s \in ArenaCell PROVE DOMAIN s = {"name", "next", "queued_at", "size", "offset"}
  BY DEF ArenaCell
<1> QED  BY <1>1, <1>2, <1>3

(* The live descriptors of the growing table. *)
LEMMA LiveVec ==
  ASSUME NEW pl \in VecPool
  PROVE  /\ DOMAIN pl.slots = 1..Len(pl.slots) /\ Len(pl.slots) \in Nat
         /\ IsFiniteSet(Live(pl)) /\ Live(pl) \subseteq 1..Len(pl.slots)
         /\ \A h \in 1..Len(pl.slots) :
              /\ pl.slots[h] \in VecCell \cup {Free}
              /\ h \in Live(pl) <=> pl.slots[h] \in VecCell
         /\ \A h \in Live(pl) : pl.slots[h] \in VecCell
<1>1. pl.slots \in Seq(VecCell \cup {Free})
  BY DEF VecPool
<1>2. DOMAIN pl.slots = 1..Len(pl.slots) /\ Len(pl.slots) \in Nat
  BY <1>1
<1>3. \A h \in 1..Len(pl.slots) : pl.slots[h] \in VecCell \cup {Free}
  BY <1>1
<1>4. Live(pl) \subseteq 1..Len(pl.slots)
  BY <1>2 DEF Live
<1>5. IsFiniteSet(Live(pl))
  <2>1. IsFiniteSet(1..Len(pl.slots))
    BY <1>2, FS_Interval
  <2> QED  BY <1>4, <2>1, FS_Subset
<1>6. \A h \in 1..Len(pl.slots) : h \in Live(pl) <=> pl.slots[h] \in VecCell
  BY <1>2, <1>3, CellNotFree DEF Live, IsLive
<1> QED  BY <1>2, <1>3, <1>4, <1>5, <1>6

(* The live descriptors of the fixed table. *)
LEMMA LiveArena ==
  ASSUME NEW pl \in ArenaPool
  PROVE  /\ DOMAIN pl.slots = Handle /\ Handle \subseteq Nat
         /\ IsFiniteSet(Live(pl)) /\ Live(pl) \subseteq Handle
         /\ \A h \in Handle :
              /\ pl.slots[h] \in ArenaCell \cup {Free}
              /\ h \in Live(pl) <=> pl.slots[h] \in ArenaCell
         /\ \A h \in Live(pl) : pl.slots[h] \in ArenaCell
<1>1. pl.slots \in [Handle -> ArenaCell \cup {Free}]
  BY DEF ArenaPool
<1>2. DOMAIN pl.slots = Handle
  BY <1>1
<1>3. \A h \in Handle : pl.slots[h] \in ArenaCell \cup {Free}
  BY <1>1
<1>4. Live(pl) \subseteq Handle
  BY <1>2 DEF Live
<1>5. IsFiniteSet(Live(pl)) /\ Handle \subseteq Nat
  BY <1>2, <1>4, FS_Interval, FS_Subset, Consts DEF Handle
<1>6. \A h \in Handle : h \in Live(pl) <=> pl.slots[h] \in ArenaCell
  BY <1>2, <1>3, CellNotFree DEF Live, IsLive
<1> QED  BY <1>2, <1>3, <1>4, <1>5, <1>6

(* What the queues need to know of a live descriptor. *)
LEMMA LiveCell ==
  ASSUME NEW bd, NEW pl, PoolOk(bd, pl), NEW h \in Live(pl)
  PROVE  /\ h \in 1..N /\ h \in Nat /\ h # None
         /\ pl.slots[h].name \in Names /\ pl.slots[h].next \in Nat
         /\ pl.slots[h].queued_at \in Nat /\ pl.slots[h].size \in Sizes
         /\ pl.slots[h].size \in Nat
<1>1. CASE bd = "alloc"
  <2>1. VecOk(pl)
    BY <1>1 DEF PoolOk
  <2>2. pl \in VecPool /\ Len(pl.slots) <= N
    BY <2>1 DEF VecOk
  <2>3. pl.slots[h] \in VecCell /\ h \in 1..Len(pl.slots) /\ Len(pl.slots) \in Nat
    BY <2>2, LiveVec
  <2>4. h \in 1..N /\ h \in Nat /\ h # None
    BY <2>2, <2>3, Consts DEF None
  <2> QED  BY <2>3, <2>4, Consts DEF VecCell
<1>2. CASE bd = "no_alloc"
  <2>1. pl \in ArenaPool
    BY <1>2 DEF PoolOk, ArenaOk
  <2>2. pl.slots[h] \in ArenaCell /\ h \in Handle
    BY <2>1, LiveArena
  <2>3. h \in 1..N /\ h \in Nat /\ h # None
    BY <2>2, Consts DEF None, Handle
  <2> QED  BY <2>2, <2>3, Consts DEF ArenaCell
<1> QED  BY <1>1, <1>2 DEF PoolOk

(* set_next changes one link and nothing else. *)
SetsNext(pl, pm, h, n) ==
  /\ Live(pm) = Live(pl)
  /\ \A g \in Live(pl) \ {h} : pm.slots[g] = pl.slots[g]
  /\ pm.slots[h].next = n /\ pm.slots[h].name = pl.slots[h].name
  /\ pm.slots[h].queued_at = pl.slots[h].queued_at /\ pm.slots[h].size = pl.slots[h].size

(* set_next with an allocator. *)
LEMMA SetNextVec ==
  ASSUME NEW pl, VecOk(pl), NEW h \in Live(pl), NEW n \in Nat
  PROVE  VecOk(set_next(pl, h, n)) /\ SetsNext(pl, set_next(pl, h, n), h, n)
<1>0. pl \in VecPool
  BY DEF VecOk
<1> DEFINE cell == [pl.slots[h] EXCEPT !.next = n]
           sm == [pl.slots EXCEPT ![h] = cell]
           pm == [slots |-> sm, free |-> pl.free, used_bytes |-> pl.used_bytes]
<1>1. set_next(pl, h, n) = pm
  <2>1. pl = [slots |-> pl.slots, free |-> pl.free, used_bytes |-> pl.used_bytes]
    BY <1>0 DEF VecPool
  <2>2. [pl EXCEPT !.slots = sm] = pm
    BY <2>1
  <2> QED  BY <2>2 DEF set_next
<1>2. /\ pl.slots[h] \in VecCell /\ h \in 1..Len(pl.slots) /\ Len(pl.slots) \in Nat
      /\ DOMAIN pl.slots = 1..Len(pl.slots) /\ pl.slots \in Seq(VecCell \cup {Free})
  BY <1>0, LiveVec DEF VecPool
<1>3. /\ cell \in VecCell /\ cell.next = n /\ cell.name = pl.slots[h].name
      /\ cell.queued_at = pl.slots[h].queued_at /\ cell.size = pl.slots[h].size
  BY <1>2 DEF VecCell
<1> HIDE DEF cell
<1>4. sm \in Seq(VecCell \cup {Free}) /\ Len(sm) = Len(pl.slots) /\ DOMAIN sm = DOMAIN pl.slots
  BY <1>2, <1>3
<1>5. sm[h] = cell /\ \A g \in 1..Len(pl.slots) : g # h => sm[g] = pl.slots[g]
  BY <1>2
<1>6. pm \in VecPool /\ pm.slots = sm /\ pm.free = pl.free /\ pm.used_bytes = pl.used_bytes
  BY <1>0, <1>4 DEF VecPool
<1> HIDE DEF pm, sm
<1>7. Live(pm) = Live(pl)
  <2>1. ASSUME NEW g \in 1..Len(pl.slots) PROVE g \in Live(pm) <=> g \in Live(pl)
    <3>1. CASE g = h
      BY <1>0, <1>2, <1>3, <1>4, <1>5, <1>6, <3>1, LiveVec
    <3>2. CASE g # h
      <4>1. pm.slots[g] = pl.slots[g]
        BY <1>5, <1>6, <3>2
      <4>2. g \in Live(pm) <=> pm.slots[g] \in VecCell
        BY <1>4, <1>6, LiveVec
      <4>3. g \in Live(pl) <=> pl.slots[g] \in VecCell
        BY <1>0, LiveVec
      <4> QED  BY <4>1, <4>2, <4>3
    <3> QED  BY <3>1, <3>2
  <2>2. Live(pm) \subseteq 1..Len(pl.slots) /\ Live(pl) \subseteq 1..Len(pl.slots)
    BY <1>0, <1>4, <1>6, LiveVec
  <2> QED  BY <2>1, <2>2
<1>8. SetsNext(pl, pm, h, n)
  <2>1. Live(pl) \subseteq 1..Len(pl.slots)
    BY <1>0, LiveVec
  <2> QED  BY <1>3, <1>5, <1>6, <1>7, <2>1 DEF SetsNext
<1>9. Bytes(sm, Live(pl)) = Bytes(pl.slots, Live(pl))
  <2>1. ASSUME NEW x \in Live(pl) PROVE pl.slots[x].size \in Nat /\ sm[x].size = pl.slots[x].size
    <3>1. pl.slots[x] \in VecCell /\ x \in 1..Len(pl.slots)
      BY <1>0, LiveVec
    <3> QED  BY <1>3, <1>5, <3>1, Consts DEF VecCell
  <2>2. IsFiniteSet(Live(pl))
    BY <1>0, LiveVec
  <2> QED  BY <2>1, <2>2, BytesEqual
<1>10. VecOk(pm)
  BY <1>4, <1>6, <1>7, <1>9 DEF VecOk
<1> QED  BY <1>1, <1>8, <1>10

(* set_next without one. *)
LEMMA SetNextArena ==
  ASSUME NEW pl, ArenaOk(pl), NEW h \in Live(pl), NEW n \in Nat
  PROVE  ArenaOk(set_next(pl, h, n)) /\ SetsNext(pl, set_next(pl, h, n), h, n)
<1>0. pl \in ArenaPool
  BY DEF ArenaOk
<1> DEFINE cell == [pl.slots[h] EXCEPT !.next = n]
           sm == [pl.slots EXCEPT ![h] = cell]
           pm == [slots |-> sm]
<1>1. set_next(pl, h, n) = pm
  BY <1>0 DEF set_next, ArenaPool
<1>2. /\ pl.slots[h] \in ArenaCell /\ h \in Handle
      /\ pl.slots \in [Handle -> ArenaCell \cup {Free}]
  BY <1>0, LiveArena DEF ArenaPool
<1>3. /\ cell \in ArenaCell /\ cell.next = n /\ cell.name = pl.slots[h].name
      /\ cell.queued_at = pl.slots[h].queued_at /\ cell.size = pl.slots[h].size
      /\ cell.offset = pl.slots[h].offset
  BY <1>2 DEF ArenaCell
<1> HIDE DEF cell
<1>4. sm \in [Handle -> ArenaCell \cup {Free}]
  BY <1>2, <1>3
<1>5. sm[h] = cell /\ \A g \in Handle : g # h => sm[g] = pl.slots[g]
  BY <1>2
<1>6. pm \in ArenaPool /\ pm.slots = sm
  BY <1>4 DEF ArenaPool
<1> HIDE DEF pm, sm
<1>7. Live(pm) = Live(pl)
  <2>1. ASSUME NEW g \in Handle PROVE g \in Live(pm) <=> g \in Live(pl)
    <3>1. g \in Live(pm) <=> pm.slots[g] \in ArenaCell
      BY <1>6, LiveArena
    <3>2. g \in Live(pl) <=> pl.slots[g] \in ArenaCell
      BY <1>0, LiveArena
    <3>3. CASE g = h
      BY <1>2, <1>3, <1>5, <1>6, <3>1, <3>2, <3>3
    <3>4. CASE g # h
      BY <1>5, <1>6, <3>1, <3>2, <3>4
    <3> QED  BY <3>3, <3>4
  <2>2. Live(pm) \subseteq Handle /\ Live(pl) \subseteq Handle
    BY <1>0, <1>6, LiveArena
  <2> QED  BY <2>1, <2>2
<1>8. Live(pl) \subseteq Handle
  BY <1>0, LiveArena
<1>9. SetsNext(pl, pm, h, n)
  BY <1>3, <1>5, <1>6, <1>7, <1>8 DEF SetsNext
<1>10. ASSUME NEW g \in Live(pl)
       PROVE  pm.slots[g].offset = pl.slots[g].offset /\ pm.slots[g].size = pl.slots[g].size
  BY <1>3, <1>5, <1>6, <1>8
<1>11. ArenaOk(pm)
  BY <1>6, <1>7, <1>10 DEF ArenaOk, End
<1> QED  BY <1>1, <1>9, <1>11

(* set_next in either build. *)
LEMMA SetNext ==
  ASSUME NEW bd, NEW pl, PoolOk(bd, pl), NEW h \in Live(pl), NEW n \in Nat
  PROVE  PoolOk(bd, set_next(pl, h, n)) /\ SetsNext(pl, set_next(pl, h, n), h, n)
  BY SetNextVec, SetNextArena DEF PoolOk

(* free takes one descriptor out and leaves the others as they are. *)
Frees(pl, pm, h) ==
  /\ Live(pm) = Live(pl) \ {h}
  /\ \A g \in Live(pl) \ {h} : pm.slots[g] = pl.slots[g]

(* free with an allocator: the descriptor goes on the free list, its bytes  *)
(* are given back.                                                          *)
LEMMA FreeVecOk ==
  ASSUME NEW pl, VecOk(pl), NEW h \in Live(pl)
  PROVE  VecOk(FreeVec(pl, h)) /\ Frees(pl, FreeVec(pl, h), h)
<1>0. pl \in VecPool
  BY DEF VecOk
<1> DEFINE sm == [pl.slots EXCEPT ![h] = Free]
           fm == Append(pl.free, h)
           um == pl.used_bytes - pl.slots[h].size
           pm == [slots |-> sm, free |-> fm, used_bytes |-> um]
<1>1. FreeVec(pl, h) = pm
  BY DEF FreeVec
<1>2. /\ pl.slots[h] \in VecCell /\ h \in 1..Len(pl.slots) /\ Len(pl.slots) \in Nat
      /\ DOMAIN pl.slots = 1..Len(pl.slots) /\ pl.slots \in Seq(VecCell \cup {Free})
      /\ pl.free \in Seq(Nat) /\ pl.used_bytes \in Nat /\ h \in Nat
  BY <1>0, LiveVec DEF VecPool
<1>3. sm \in Seq(VecCell \cup {Free}) /\ Len(sm) = Len(pl.slots) /\ DOMAIN sm = DOMAIN pl.slots
  BY <1>2
<1>4. sm[h] = Free /\ \A g \in 1..Len(pl.slots) : g # h => sm[g] = pl.slots[g]
  BY <1>2
<1>5. ASSUME NEW x \in Live(pl) PROVE pl.slots[x].size \in Nat /\ x \in 1..Len(pl.slots)
  <2>1. pl.slots[x] \in VecCell /\ x \in 1..Len(pl.slots)
    BY <1>0, LiveVec
  <2> QED  BY <2>1, Consts DEF VecCell
<1>6. /\ Bytes(pl.slots, Live(pl)) = Bytes(sm, Live(pl) \ {h}) + pl.slots[h].size
      /\ Bytes(sm, Live(pl) \ {h}) \in Nat
  <2>1. IsFiniteSet(Live(pl))
    BY <1>0, LiveVec
  <2>2. \A x \in Live(pl) \ {h} : sm[x].size = pl.slots[x].size
    BY <1>4, <1>5
  <2> HIDE DEF sm
  <2> QED  BY <1>5, <2>1, <2>2, BytesRemove
<1>7. um \in Nat /\ um <= BYTES /\ um = Bytes(sm, Live(pl) \ {h})
  <2>1. pl.used_bytes = Bytes(pl.slots, Live(pl)) /\ pl.used_bytes <= BYTES
    BY DEF VecOk
  <2>2. pl.slots[h].size \in Nat
    BY <1>5
  <2> QED  BY <1>2, <1>6, <2>1, <2>2, Consts
<1> HIDE DEF sm, um
<1>8. fm \in Seq(Nat) /\ Len(fm) = Len(pl.free) + 1 /\ Len(pl.free) \in Nat
  BY <1>2
<1>9. pm \in VecPool /\ pm.slots = sm /\ pm.free = fm /\ pm.used_bytes = um
  BY <1>3, <1>7, <1>8 DEF VecPool
<1> HIDE DEF pm
<1>10. Live(pm) = Live(pl) \ {h}
  <2>1. ASSUME NEW g \in 1..Len(pl.slots) PROVE g \in Live(pm) <=> g \in Live(pl) /\ g # h
    <3>1. g \in Live(pm) <=> pm.slots[g] \in VecCell
      BY <1>3, <1>9, LiveVec
    <3>2. g \in Live(pl) <=> pl.slots[g] \in VecCell
      BY <1>0, LiveVec
    <3>3. CASE g = h
      BY <1>4, <1>9, <3>1, <3>3, CellNotFree
    <3>4. CASE g # h
      BY <1>4, <1>9, <3>1, <3>2, <3>4
    <3> QED  BY <3>3, <3>4
  <2>2. Live(pm) \subseteq 1..Len(pl.slots) /\ Live(pl) \subseteq 1..Len(pl.slots)
    BY <1>0, <1>3, <1>9, LiveVec
  <2> QED  BY <2>1, <2>2
<1>11. Frees(pl, pm, h)
  BY <1>4, <1>5, <1>9, <1>10 DEF Frees
<1>12. DOMAIN fm = 1..(Len(pl.free) + 1) /\ DOMAIN pl.free = 1..Len(pl.free)
  BY <1>2, <1>8
<1>13. /\ \A i \in 1..Len(pl.free) : fm[i] = pl.free[i]
       /\ fm[Len(pl.free) + 1] = h
  BY <1>2
<1> HIDE DEF fm
<1>14. h \notin Range(pl.free)
  BY DEF VecOk
<1>15. Range(fm) = Range(pl.free) \cup {h}
  <2>1. ASSUME NEW x \in Range(fm) PROVE x \in Range(pl.free) \cup {h}
    <3>1. PICK i \in 1..(Len(pl.free) + 1) : x = fm[i]
      BY <1>12 DEF Range
    <3>2. CASE i \in 1..Len(pl.free)
      BY <1>12, <1>13, <3>1, <3>2 DEF Range
    <3>3. CASE i = Len(pl.free) + 1
      BY <1>13, <3>1, <3>3
    <3> QED  BY <1>8, <3>1, <3>2, <3>3
  <2>2. ASSUME NEW x \in Range(pl.free) PROVE x \in Range(fm)
    <3>1. PICK i \in 1..Len(pl.free) : x = pl.free[i]
      BY <1>12 DEF Range
    <3>2. i \in DOMAIN fm /\ fm[i] = x
      BY <1>8, <1>12, <1>13, <3>1
    <3> QED  BY <3>2 DEF Range
  <2>3. h \in Range(fm)
    <3>1. Len(pl.free) + 1 \in DOMAIN fm
      BY <1>8, <1>12
    <3> QED  BY <1>13, <3>1 DEF Range
  <2> QED  BY <2>1, <2>2, <2>3
<1>16. Injective(fm)
  <2>1. ASSUME NEW i \in 1..(Len(pl.free) + 1), NEW j \in 1..(Len(pl.free) + 1), fm[i] = fm[j]
        PROVE  i = j
    <3>1. ASSUME NEW k \in 1..Len(pl.free) PROVE pl.free[k] # h
      BY <1>12, <1>14 DEF Range
    <3>2. CASE i \in 1..Len(pl.free) /\ j \in 1..Len(pl.free)
      BY <1>12, <1>13, <2>1, <3>2 DEF VecOk, Injective
    <3>3. CASE i = Len(pl.free) + 1
      <4>1. j \notin 1..Len(pl.free)
        BY <1>13, <2>1, <3>1, <3>3
      <4> QED  BY <1>8, <3>3, <4>1
    <3>4. CASE j = Len(pl.free) + 1
      <4>1. i \notin 1..Len(pl.free)
        BY <1>13, <2>1, <3>1, <3>4
      <4> QED  BY <1>8, <3>4, <4>1
    <3> QED  BY <1>8, <3>2, <3>3, <3>4
  <2> QED  BY <1>12, <2>1 DEF Injective
<1>17. Range(fm) = DOMAIN sm \ Live(pm)
  BY <1>2, <1>3, <1>10, <1>15 DEF VecOk
<1>18. VecOk(pm)
  BY <1>3, <1>7, <1>9, <1>10, <1>16, <1>17 DEF VecOk
<1> QED  BY <1>1, <1>11, <1>18

(* free without one: the stretch of the packet is a gap again. *)
LEMMA FreeArenaOk ==
  ASSUME NEW pl, ArenaOk(pl), NEW h \in Live(pl)
  PROVE  ArenaOk(FreeArena(pl, h)) /\ Frees(pl, FreeArena(pl, h), h)
<1>0. pl \in ArenaPool
  BY DEF ArenaOk
<1> DEFINE sm == [pl.slots EXCEPT ![h] = Free]
           pm == [slots |-> sm]
<1>1. FreeArena(pl, h) = pm
  BY <1>0 DEF FreeArena, ArenaPool
<1>2. /\ pl.slots[h] \in ArenaCell /\ h \in Handle
      /\ pl.slots \in [Handle -> ArenaCell \cup {Free}]
  BY <1>0, LiveArena DEF ArenaPool
<1>4. sm \in [Handle -> ArenaCell \cup {Free}]
  BY <1>2
<1>5. sm[h] = Free /\ \A g \in Handle : g # h => sm[g] = pl.slots[g]
  BY <1>2
<1>6. pm \in ArenaPool /\ pm.slots = sm
  BY <1>4 DEF ArenaPool
<1> HIDE DEF pm, sm
<1>7. Live(pm) = Live(pl) \ {h}
  <2>1. ASSUME NEW g \in Handle PROVE g \in Live(pm) <=> g \in Live(pl) /\ g # h
    <3>1. g \in Live(pm) <=> pm.slots[g] \in ArenaCell
      BY <1>6, LiveArena
    <3>2. g \in Live(pl) <=> pl.slots[g] \in ArenaCell
      BY <1>0, LiveArena
    <3>3. CASE g = h
      BY <1>5, <1>6, <3>1, <3>3, CellNotFree
    <3>4. CASE g # h
      BY <1>5, <1>6, <3>1, <3>2, <3>4
    <3> QED  BY <3>3, <3>4
  <2>2. Live(pm) \subseteq Handle /\ Live(pl) \subseteq Handle
    BY <1>0, <1>6, LiveArena
  <2> QED  BY <2>1, <2>2
<1>8. Live(pl) \subseteq Handle
  BY <1>0, LiveArena
<1>9. Frees(pl, pm, h)
  BY <1>5, <1>6, <1>7, <1>8 DEF Frees
<1>10. ASSUME NEW g \in Live(pm) PROVE pm.slots[g] = pl.slots[g] /\ g \in Live(pl)
  BY <1>7, <1>9 DEF Frees
<1>11. ArenaOk(pm)
  BY <1>6, <1>10 DEF ArenaOk, End
<1> QED  BY <1>1, <1>9, <1>11

(* free in either build. *)
LEMMA FreeOk ==
  ASSUME NEW pl, PoolOk(build, pl), NEW h \in Live(pl)
  PROVE  PoolOk(build, free(pl, h)) /\ Frees(pl, free(pl, h), h)
<1>1. CASE build = "alloc"
  <2>1. VecOk(pl) /\ free(pl, h) = FreeVec(pl, h)
    BY <1>1 DEF PoolOk, free
  <2>2. VecOk(FreeVec(pl, h)) /\ Frees(pl, FreeVec(pl, h), h)
    BY <2>1, FreeVecOk
  <2> QED  BY <1>1, <2>1, <2>2 DEF PoolOk
<1>2. CASE build = "no_alloc"
  <2>1. ArenaOk(pl) /\ free(pl, h) = FreeArena(pl, h)
    BY <1>2 DEF PoolOk, free
  <2>2. ArenaOk(FreeArena(pl, h)) /\ Frees(pl, FreeArena(pl, h), h)
    BY <2>1, FreeArenaOk
  <2> QED  BY <1>2, <2>1, <2>2 DEF PoolOk
<1> QED  BY <1>1, <1>2 DEF PoolOk

(* alloc hands out a descriptor that is not live. *)
Allocs(pl, pm, h, name, size, t) ==
  /\ h \notin Live(pl) /\ Live(pm) = Live(pl) \cup {h}
  /\ \A g \in Live(pl) : pm.slots[g] = pl.slots[g]
  /\ pm.slots[h].name = name /\ pm.slots[h].next = None
  /\ pm.slots[h].queued_at = t /\ pm.slots[h].size = size

(* The descriptor handed out and the free list that is left. *)
LEMMA VecSlotIs ==
  ASSUME NEW pl, VecOk(pl), NEW size, CanAllocVec(pl, size), NEW slot \in VecCell
  PROVE  LET h == VecSlot(pl)
             pm == AllocVec(pl, slot)
         IN  /\ h \in 1..N /\ h \notin Live(pl)
             /\ pm.slots \in Seq(VecCell \cup {Free}) /\ Len(pm.slots) <= N
             /\ DOMAIN pm.slots = DOMAIN pl.slots \cup {h}
             /\ pm.slots[h] = slot
             /\ \A g \in DOMAIN pl.slots : g # h => pm.slots[g] = pl.slots[g]
             /\ pm.free \in Seq(Nat) /\ Injective(pm.free)
             /\ Range(pm.free) = Range(pl.free) \ {h}
<1>0. pl \in VecPool /\ Len(pl.slots) <= N
  BY DEF VecOk
<1>1. /\ Len(pl.slots) \in Nat /\ DOMAIN pl.slots = 1..Len(pl.slots)
      /\ pl.slots \in Seq(VecCell \cup {Free}) /\ pl.free \in Seq(Nat)
      /\ Live(pl) \subseteq 1..Len(pl.slots) /\ N \in Nat
  BY <1>0, LiveVec, Consts DEF VecPool
<1>2. /\ Range(pl.free) = (1..Len(pl.slots)) \ Live(pl) /\ Injective(pl.free)
      /\ Len(pl.free) \in Nat /\ DOMAIN pl.free = 1..Len(pl.free)
  BY <1>1 DEF VecOk
<1> DEFINE h == VecSlot(pl)
           pm == AllocVec(pl, slot)
<1>3. CASE pl.free # <<>>
  <2>1. Len(pl.free) \in 1..Len(pl.free)
    BY <1>1, <1>2, <1>3
  <2>2. h = pl.free[Len(pl.free)]
    BY <1>3 DEF VecSlot, Last
  <2>3. h \in Range(pl.free)
    BY <1>2, <2>1, <2>2 DEF Range
  <2>4. h \in 1..Len(pl.slots) /\ h \notin Live(pl) /\ h \in 1..N /\ h # Len(pl.slots) + 1
    BY <1>0, <1>1, <1>2, <2>3
  <2> DEFINE sm == [pl.slots EXCEPT ![h] = slot]
             fm == SubSeq(pl.free, 1, Len(pl.free) - 1)
  <2>5. pm.slots = sm /\ pm.free = fm
    BY <1>3, <2>4 DEF AllocVec, Front
  <2> HIDE DEF h, pm
  <2>6. /\ sm \in Seq(VecCell \cup {Free}) /\ Len(sm) = Len(pl.slots)
        /\ DOMAIN sm = DOMAIN pl.slots /\ sm[h] = slot
        /\ \A g \in 1..Len(pl.slots) : g # h => sm[g] = pl.slots[g]
    BY <1>1, <2>4
  <2>7. /\ fm \in Seq(Nat) /\ Len(fm) = Len(pl.free) - 1 /\ DOMAIN fm = 1..(Len(pl.free) - 1)
        /\ \A i \in 1..(Len(pl.free) - 1) : fm[i] = pl.free[i]
    BY <1>1, <1>2, <2>1
  <2> HIDE DEF sm, fm
  <2>8. ASSUME NEW i \in 1..(Len(pl.free) - 1)
        PROVE  i \in 1..Len(pl.free) /\ pl.free[i] # h
    <3>1. i \in 1..Len(pl.free) /\ i # Len(pl.free)
      BY <1>2
    <3> QED  BY <1>2, <2>1, <2>2, <3>1 DEF Injective
  <2>9. Injective(fm)
    BY <1>2, <2>7, <2>8 DEF Injective
  <2>10. Range(fm) = Range(pl.free) \ {h}
    <3>1. ASSUME NEW x \in Range(fm) PROVE x \in Range(pl.free) \ {h}
      <4>1. PICK i \in 1..(Len(pl.free) - 1) : x = fm[i]
        BY <2>7 DEF Range
      <4> QED  BY <1>2, <2>7, <2>8, <4>1 DEF Range
    <3>2. ASSUME NEW x \in Range(pl.free), x # h PROVE x \in Range(fm)
      <4>1. PICK i \in 1..Len(pl.free) : x = pl.free[i]
        BY <1>2 DEF Range
      <4>2. i \in 1..(Len(pl.free) - 1)
        BY <1>2, <2>2, <3>2, <4>1
      <4> QED  BY <2>7, <4>1, <4>2 DEF Range
    <3> QED  BY <3>1, <3>2
  <2>11. DOMAIN pl.slots \cup {h} = DOMAIN pl.slots
    BY <1>1, <2>4
  <2> QED  BY <1>0, <1>1, <1>2, <2>4, <2>5, <2>6, <2>7, <2>9, <2>10, <2>11 DEF h, pm
<1>4. CASE pl.free = <<>>
  <2>1. Len(pl.slots) < N
    BY <1>4 DEF CanAllocVec
  <2>2. h = Len(pl.slots) + 1
    BY <1>4 DEF VecSlot
  <2> DEFINE sm == Append(pl.slots, slot)
  <2>3. pm.slots = sm /\ pm.free = <<>>
    BY <1>4, <2>2 DEF AllocVec
  <2> HIDE DEF h, pm
  <2>4. /\ sm \in Seq(VecCell \cup {Free}) /\ Len(sm) = Len(pl.slots) + 1
        /\ DOMAIN sm = 1..(Len(pl.slots) + 1) /\ sm[h] = slot
        /\ \A g \in 1..Len(pl.slots) : sm[g] = pl.slots[g]
    BY <1>1, <2>2
  <2> HIDE DEF sm
  <2>5. Range(pl.free) = {} /\ Range(pm.free) = {} /\ Injective(pm.free) /\ pm.free \in Seq(Nat)
    BY <1>4, <2>3 DEF Range, Injective
  <2>6. h \notin 1..Len(pl.slots) /\ h \in 1..N /\ 1..(Len(pl.slots) + 1) = (1..Len(pl.slots)) \cup {h}
    BY <1>1, <2>1, <2>2
  <2>7. Len(sm) <= N
    BY <1>1, <2>1, <2>4
  <2> QED  BY <1>1, <2>3, <2>4, <2>5, <2>6, <2>7 DEF h, pm
<1> QED  BY <1>3, <1>4

(* alloc with an allocator. *)
LEMMA AllocVecOk ==
  ASSUME NEW pl, VecOk(pl), NEW slot \in VecCell, CanAllocVec(pl, slot.size), slot.next = None
  PROVE  /\ VecOk(AllocVec(pl, slot))
         /\ Allocs(pl, AllocVec(pl, slot), VecSlot(pl), slot.name, slot.size, slot.queued_at)
<1>0. pl \in VecPool /\ pl.used_bytes = Bytes(pl.slots, Live(pl)) /\ pl.used_bytes \in Nat
  BY DEF VecOk, VecPool
<1>1. PICK h : h = VecSlot(pl)
  OBVIOUS
<1>2. PICK pm : pm = AllocVec(pl, slot)
  OBVIOUS
<1>3. /\ h \in 1..N /\ h \notin Live(pl)
      /\ pm.slots \in Seq(VecCell \cup {Free}) /\ Len(pm.slots) <= N
      /\ DOMAIN pm.slots = DOMAIN pl.slots \cup {h}
      /\ pm.slots[h] = slot
      /\ \A g \in DOMAIN pl.slots : g # h => pm.slots[g] = pl.slots[g]
      /\ pm.free \in Seq(Nat) /\ Injective(pm.free)
      /\ Range(pm.free) = Range(pl.free) \ {h}
  BY <1>1, <1>2, VecSlotIs
<1>4. slot.size \in Nat /\ slot \in VecCell
  BY Consts DEF VecCell
<1>5. /\ pm = [slots |-> pm.slots, free |-> pm.free, used_bytes |-> pm.used_bytes]
      /\ pm.used_bytes = pl.used_bytes + slot.size
  BY <1>2 DEF AllocVec
<1>6. pm.used_bytes \in Nat /\ pm.used_bytes <= BYTES
  BY <1>0, <1>4, <1>5 DEF CanAllocVec
<1>7. pm \in VecPool
  BY <1>3, <1>5, <1>6 DEF VecPool
<1>8. Live(pm) = Live(pl) \cup {h}
  <2>1. ASSUME NEW g \in DOMAIN pm.slots PROVE g \in Live(pm) <=> g \in Live(pl) \/ g = h
    <3>1. CASE g = h
      BY <1>3, <1>4, <2>1, <3>1, CellNotFree DEF Live, IsLive
    <3>2. CASE g # h
      BY <1>3, <2>1, <3>2 DEF Live, IsLive
    <3> QED  BY <3>1, <3>2
  <2>2. Live(pm) \subseteq DOMAIN pm.slots /\ Live(pl) \subseteq DOMAIN pl.slots
    BY DEF Live
  <2> QED  BY <1>3, <2>1, <2>2
<1>9. ASSUME NEW g \in Live(pl) PROVE pm.slots[g] = pl.slots[g] /\ pl.slots[g].size \in Nat
  <2>1. g \in DOMAIN pl.slots /\ g # h /\ pl.slots[g] \in VecCell
    BY <1>0, <1>3, LiveVec
  <2> QED  BY <1>3, <2>1, Consts DEF VecCell
<1>10. Allocs(pl, pm, h, slot.name, slot.size, slot.queued_at)
  BY <1>3, <1>8, <1>9 DEF Allocs
<1>11. Bytes(pm.slots, Live(pl) \cup {h}) = Bytes(pl.slots, Live(pl)) + pm.slots[h].size
  <2>1. IsFiniteSet(Live(pl))
    BY <1>0, LiveVec
  <2>2. PICK sl, sm : sl = pl.slots /\ sm = pm.slots
    OBVIOUS
  <2>3. \A x \in Live(pl) : sl[x].size \in Nat
    BY <1>9, <2>2
  <2>4. \A x \in Live(pl) : sm[x].size = sl[x].size
    BY <1>9, <2>2
  <2>5. sm[h].size \in Nat
    BY <1>3, <1>4, <2>2
  <2>6. Bytes(sm, Live(pl) \cup {h}) = Bytes(sl, Live(pl)) + sm[h].size
    <3>1. PICK S : S = Live(pl)
      OBVIOUS
    <3>2. IsFiniteSet(S) /\ h \notin S
      BY <1>3, <2>1, <3>1
    <3>3. \A x \in S : sl[x].size \in Nat
      BY <2>3, <3>1
    <3>5. \A x \in S : sm[x].size = sl[x].size
      BY <2>4, <3>1
    <3>4. Bytes(sm, S \cup {h}) = Bytes(sl, S) + sm[h].size /\ Bytes(sl, S) \in Nat
      BY <2>5, <3>2, <3>3, <3>5, BytesAdd
    <3> QED  BY <3>1, <3>4
  <2> QED  BY <2>2, <2>6
<1>12. pm.used_bytes = Bytes(pm.slots, Live(pm))
  BY <1>0, <1>3, <1>5, <1>8, <1>11
<1>13. Range(pm.free) = DOMAIN pm.slots \ Live(pm)
  <2>1. Range(pl.free) = DOMAIN pl.slots \ Live(pl)
    BY DEF VecOk
  <2> QED  BY <1>3, <1>8, <2>1
<1>14. VecOk(pm)
  BY <1>3, <1>6, <1>7, <1>12, <1>13 DEF VecOk
<1> QED  BY <1>1, <1>2, <1>10, <1>14
-----------------------------------------------------------------------------
(* First fit in the arena. *)

(* find_gap has nowhere to go from start. *)
Settled(pl, start, size) ==
  start + size > BYTES \/ \A h \in Live(pl) : ~Meets(pl, h, start, size)

(* The packets that end behind start. *)
Ahead(pl, start) == {h \in Live(pl) : End(pl, h) > start}

(* The size bytes from t are free. *)
IsGap(pl, t, size) ==
  /\ t \in Nat /\ t + size <= BYTES
  /\ \A h \in Live(pl) : ~Meets(pl, h, t, size)

(* An iteration of find_gap stays, or moves past a packet in the way. *)
LEMMA GapStepIs ==
  ASSUME NEW pl, ArenaOk(pl), NEW start \in Nat, NEW size \in Nat
  PROVE  LET nxt == GapStep(pl, start, size)
         IN  \/ Settled(pl, start, size) /\ nxt = start
             \/ /\ start + size <= BYTES
                /\ \E h \in Live(pl) : Meets(pl, h, start, size) /\ nxt = End(pl, h)
<1> DEFINE W == {h \in Live(pl) : Meets(pl, h, start, size)}
<1>1. GapStep(pl, start, size) =
        IF start + size > BYTES \/ W = {} THEN start
        ELSE pl.slots[Min(W)].offset + pl.slots[Min(W)].size
  BY DEF GapStep
<1>2. BYTES \in Nat
  BY Consts
<1>3. CASE start + size > BYTES \/ W = {}
  <2>1. Settled(pl, start, size)
    BY <1>3 DEF Settled
  <2> QED  BY <1>1, <1>3, <2>1
<1>4. CASE ~(start + size > BYTES) /\ W # {}
  <2>1. W \in SUBSET Nat
    <3>1. Live(pl) \subseteq Nat
      BY LiveArena DEF ArenaOk
    <3> QED  BY <3>1
  <2>2. Min(W) \in W
    BY <1>4, <2>1, MinIs
  <2>3. GapStep(pl, start, size) = End(pl, Min(W))
    BY <1>1, <1>4 DEF End
  <2>4. Min(W) \in Live(pl) /\ Meets(pl, Min(W), start, size)
    BY <2>2
  <2>5. start + size <= BYTES
    BY <1>2, <1>4
  <2> QED  BY <2>3, <2>4, <2>5
<1> QED  BY <1>3, <1>4

(* Where a live packet starts and ends. *)
LEMMA ArenaEnds ==
  ASSUME NEW pl, ArenaOk(pl), NEW h \in Live(pl)
  PROVE  End(pl, h) \in Nat /\ pl.slots[h].offset \in Nat /\ pl.slots[h].size \in Nat
<1>1. pl.slots[h] \in ArenaCell
  BY LiveArena DEF ArenaOk
<1>2. pl.slots[h].offset \in Nat /\ pl.slots[h].size \in Nat
  BY <1>1, Consts DEF ArenaCell
<1> QED  BY <1>2 DEF End

(* A step goes past a packet that was ahead, and never past a gap. *)
GapRun(pl, size, i) ==
  {a \in Nat : /\ Settled(pl, a, size) \/ Cardinality(Ahead(pl, a)) <= N - i
               /\ \A t \in Nat : IsGap(pl, t, size) => a <= t}

(* Only finitely many packets end behind a byte. *)
LEMMA AheadFinite ==
  ASSUME NEW pl, ArenaOk(pl), NEW a
  PROVE  /\ IsFiniteSet(Ahead(pl, a)) /\ Cardinality(Ahead(pl, a)) \in Nat
         /\ Cardinality(Ahead(pl, a)) <= N
<1>1. Ahead(pl, a) \in SUBSET (1..N)
  BY LiveArena DEF Ahead, ArenaOk, Handle
<1>2. IsFiniteSet(1..N) /\ Cardinality(1..N) = N
  BY Consts, FS_Interval
<1>3. IsFiniteSet(Ahead(pl, a)) /\ Cardinality(Ahead(pl, a)) <= N
  BY <1>1, <1>2, FS_Subset
<1> QED  BY <1>3, FS_CardinalityType

(* find_gap starts at the first byte. *)
LEMMA GapStart ==
  ASSUME NEW pl, ArenaOk(pl), NEW size \in Nat
  PROVE  0 \in GapRun(pl, size, 0)
<1>1. Cardinality(Ahead(pl, 0)) <= N - 0
  BY AheadFinite, Consts
<1>2. \A t \in Nat : 0 <= t
  OBVIOUS
<1> QED  BY <1>1, <1>2 DEF GapRun

(* Each iteration settles or leaves one packet more behind, and passes no   *)
(* gap.                                                                     *)
LEMMA GapAdvances ==
  ASSUME NEW pl, ArenaOk(pl), NEW size \in Nat, NEW i \in 1..N, NEW a \in GapRun(pl, size, i - 1)
  PROVE  GapStep(pl, a, size) \in GapRun(pl, size, i)
<1>1. a \in Nat /\ N \in Nat /\ i \in Nat /\ BYTES \in Nat
  BY Consts DEF GapRun
<1>2. CASE Settled(pl, a, size) /\ GapStep(pl, a, size) = a
  BY <1>2 DEF GapRun
<1>3. ASSUME a + size <= BYTES, NEW h \in Live(pl), Meets(pl, h, a, size),
             GapStep(pl, a, size) = End(pl, h)
      PROVE  GapStep(pl, a, size) \in GapRun(pl, size, i)
  <2>1. PICK e \in Nat : e = End(pl, h)
    BY ArenaEnds
  <2>2. a < e
    BY <1>3, <2>1 DEF Meets, End
  <2>3. ~Settled(pl, a, size)
    BY <1>1, <1>3 DEF Settled
  <2>4. Cardinality(Ahead(pl, a)) <= N - (i - 1)
    BY <2>3 DEF GapRun
  <2>5. Ahead(pl, e) \in SUBSET (Ahead(pl, a) \ {h}) /\ h \in Ahead(pl, a)
    <3>1. ASSUME NEW x \in Live(pl), End(pl, x) > e PROVE End(pl, x) > a /\ x # h
      <4>1. End(pl, x) \in Nat
        BY ArenaEnds
      <4> QED  BY <1>1, <2>1, <2>2, <3>1, <4>1
    <3> QED  BY <2>1, <2>2, <3>1 DEF Ahead
  <2>6. IsFiniteSet(Ahead(pl, a)) /\ Cardinality(Ahead(pl, a)) \in Nat
    BY AheadFinite
  <2>7. IsFiniteSet(Ahead(pl, a) \ {h}) /\ Cardinality(Ahead(pl, a) \ {h}) = Cardinality(Ahead(pl, a)) - 1
    BY <2>5, <2>6, FS_RemoveElement
  <2>8. Cardinality(Ahead(pl, e)) <= Cardinality(Ahead(pl, a)) - 1
    BY <2>5, <2>7, FS_Subset
  <2>9. Cardinality(Ahead(pl, e)) \in Nat
    BY AheadFinite
  <2>10. Cardinality(Ahead(pl, e)) <= N - i
    BY <1>1, <2>4, <2>6, <2>8, <2>9
  <2>11. ASSUME NEW t \in Nat, IsGap(pl, t, size) PROVE e <= t
    <3>1. a <= t
      BY <2>11 DEF GapRun
    <3>2. ~Meets(pl, h, t, size)
      BY <2>11 DEF IsGap
    <3>3. /\ pl.slots[h].offset \in Nat /\ pl.slots[h].size \in Nat
          /\ e = pl.slots[h].offset + pl.slots[h].size
      BY <2>1, ArenaEnds DEF End
    <3>4. a + size > pl.slots[h].offset
      BY <1>3 DEF Meets
    <3>5. t >= e \/ t + size <= pl.slots[h].offset
      BY <3>2, <3>3 DEF Meets
    <3> QED  BY <1>1, <2>1, <3>1, <3>3, <3>4, <3>5
  <2> QED  BY <1>3, <2>1, <2>10, <2>11 DEF GapRun
<1> QED  BY <1>1, <1>2, <1>3, GapStepIs

(* find_gap ends at the first gap, or so far back that there is none. *)
LEMMA FindGap ==
  ASSUME NEW pl, ArenaOk(pl), NEW size \in Nat
  PROVE  /\ find_gap(pl, size) \in Nat
         /\ Settled(pl, find_gap(pl, size), size)
         /\ \A t \in Nat : IsGap(pl, t, size) => find_gap(pl, size) <= t
<1> DEFINE F == [a \in Nat |-> GapStep(pl, a, size)]
           R == [i \in 0..N |-> GapRun(pl, size, i)]
           Is(r) == r = [i \in 0..N |-> IF i = 0 THEN 0 ELSE GapStep(pl, r[i - 1], size)]
<1>0. N \in Nat /\ 0 \in 0..N
  BY Consts
<1>1. 0 \in R[0]
  BY <1>0, GapStart
<1>2. ASSUME NEW i \in 1..N, NEW a \in R[i - 1] PROVE GapStep(pl, a, size) \in R[i] /\ F[a] = GapStep(pl, a, size)
  <2>1. i - 1 \in 0..N /\ i \in 0..N
    BY <1>0
  <2>2. a \in GapRun(pl, size, i - 1)
    BY <2>1
  <2>3. GapStep(pl, a, size) \in GapRun(pl, size, i) /\ a \in Nat
    BY <2>2, GapAdvances DEF GapRun
  <2> QED  BY <2>1, <2>3
<1>3. \A i \in 1..N : \A a \in R[i - 1] : F[a] \in R[i]
  BY <1>2
<1>4. R[N] = GapRun(pl, size, N)
  BY <1>0
<1> HIDE DEF F, R
<1>5. PICK g : Loops(g, N, 0, F) /\ \A i \in 0..N : g[i] \in R[i]
  BY <1>0, <1>1, <1>3, LoopRuns
<1>6. Is(g)
  <2>1. ASSUME NEW i \in 0..N, i # 0 PROVE F[g[i - 1]] = GapStep(pl, g[i - 1], size)
    <3>1. i - 1 \in 0..N /\ i \in 1..N
      BY <1>0, <2>1
    <3> QED  BY <1>2, <1>5, <3>1
  <2> QED  BY <1>5, <2>1 DEF Loops
<1> DEFINE r == CHOOSE s : Is(s)
<1>7. Is(r)
  BY <1>6
<1>8. find_gap(pl, size) = r[N]
  BY DEF find_gap
<1> HIDE DEF r
<1>9. r[N] \in R[N]
  <2>1. r[0] = 0 /\ \A i \in 1..N : r[i] = GapStep(pl, r[i - 1], size)
    BY <1>0, <1>7
  <2>2. \A i \in 1..N : r[i - 1] \in R[i - 1] => r[i] \in R[i]
    BY <1>2, <2>1
  <2>3. \A i \in 0..N : r[i] \in R[i]
    BY <1>0, <1>1, <2>1, <2>2, LoopInv
  <2> QED  BY <1>0, <2>3
<1>10. PICK a \in Nat : a = r[N]
  BY <1>4, <1>9 DEF GapRun
<1>11. Settled(pl, a, size)
  <2>1. SUFFICES ASSUME Cardinality(Ahead(pl, a)) <= N - N PROVE Settled(pl, a, size)
    BY <1>4, <1>9, <1>10 DEF GapRun
  <2>2. Ahead(pl, a) = {}
    <3>1. IsFiniteSet(Ahead(pl, a)) /\ Cardinality(Ahead(pl, a)) \in Nat
      BY AheadFinite
    <3>2. Cardinality(Ahead(pl, a)) = 0
      BY <1>0, <2>1, <3>1
    <3> QED  BY <3>1, <3>2, FS_EmptySet
  <2>3. ASSUME NEW h \in Live(pl) PROVE ~Meets(pl, h, a, size)
    <3>1. ~(End(pl, h) > a) /\ End(pl, h) \in Nat
      BY <2>2, ArenaEnds DEF Ahead
    <3> QED  BY <1>10, <3>1 DEF Meets, End
  <2> QED  BY <2>3 DEF Settled
<1> QED  BY <1>4, <1>8, <1>9, <1>10, <1>11 DEF GapRun

(* alloc without an allocator: the stretch found meets no live one. *)
LEMMA AllocArenaOk ==
  ASSUME NEW pl, ArenaOk(pl), NEW slot \in VecCell, CanAllocArena(pl, slot.size)
  PROVE  /\ ArenaOk(AllocArena(pl, slot))
         /\ Allocs(pl, AllocArena(pl, slot), Min(Unused(pl)), slot.name, slot.size, slot.queued_at)
<1>0. pl \in ArenaPool
  BY DEF ArenaOk
<1>1. slot.size \in Nat /\ slot.size \in Sizes /\ slot.name \in Names /\ slot.queued_at \in Nat
  BY Consts DEF VecCell
<1>2. PICK o \in Nat : o = find_gap(pl, slot.size)
  BY <1>1, FindGap
<1>3. Settled(pl, o, slot.size) /\ o + slot.size <= BYTES
  BY <1>1, <1>2, FindGap DEF CanAllocArena
<1>4. \A h \in Live(pl) : ~Meets(pl, h, o, slot.size)
  BY <1>1, <1>3, Consts DEF Settled
<1>5. PICK h : h = Min(Unused(pl))
  OBVIOUS
<1>6. h \in Handle /\ h \notin Live(pl)
  <2>1. Unused(pl) \in SUBSET Nat /\ Unused(pl) # {}
    BY <1>0, LiveArena DEF Unused, CanAllocArena
  <2>2. h \in Unused(pl)
    BY <1>5, <2>1, MinIs
  <2> QED  BY <2>2 DEF Unused
<1> DEFINE cell == [name |-> slot.name, next |-> None, queued_at |-> slot.queued_at,
                    size |-> slot.size, offset |-> o]
           sm == [pl.slots EXCEPT ![h] = cell]
           pm == [slots |-> sm]
<1>7. AllocArena(pl, slot) = pm
  BY <1>0, <1>2, <1>5 DEF AllocArena, ArenaPool
<1>8. /\ cell \in ArenaCell /\ cell.name = slot.name /\ cell.next = None
      /\ cell.queued_at = slot.queued_at /\ cell.size = slot.size /\ cell.offset = o
  BY <1>1, <1>2 DEF ArenaCell, None
<1> HIDE DEF cell
<1>9. /\ sm \in [Handle -> ArenaCell \cup {Free}] /\ sm[h] = cell
      /\ \A g \in Handle : g # h => sm[g] = pl.slots[g]
  BY <1>0, <1>6, <1>8 DEF ArenaPool
<1>10. pm \in ArenaPool /\ pm.slots = sm
  BY <1>9 DEF ArenaPool
<1> HIDE DEF sm, pm
<1>11. Live(pl) \subseteq Handle /\ Live(pm) \subseteq Handle
  BY <1>0, <1>10, LiveArena
<1>12. Live(pm) = Live(pl) \cup {h}
  <2>1. ASSUME NEW g \in Handle PROVE g \in Live(pm) <=> g \in Live(pl) \/ g = h
    <3>1. g \in Live(pm) <=> pm.slots[g] \in ArenaCell
      BY <1>10, LiveArena
    <3>2. g \in Live(pl) <=> pl.slots[g] \in ArenaCell
      BY <1>0, LiveArena
    <3>3. CASE g = h
      BY <1>8, <1>9, <1>10, <3>1, <3>3
    <3>4. CASE g # h
      BY <1>9, <1>10, <3>1, <3>2, <3>4
    <3> QED  BY <3>3, <3>4
  <2> QED  BY <1>6, <1>11, <2>1
<1>13. \A g \in Live(pl) : pm.slots[g] = pl.slots[g]
  BY <1>6, <1>9, <1>10, <1>11
<1>14. Allocs(pl, pm, h, slot.name, slot.size, slot.queued_at)
  BY <1>6, <1>8, <1>9, <1>10, <1>12, <1>13 DEF Allocs
<1>15. End(pm, h) = o + slot.size /\ pm.slots[h].offset = o
  BY <1>8, <1>9, <1>10 DEF End
<1>16. ASSUME NEW g \in Live(pl)
       PROVE /\ End(pm, g) = End(pl, g) /\ pm.slots[g].offset = pl.slots[g].offset
             /\ End(pm, g) <= o \/ o + slot.size <= pm.slots[g].offset
  <2>1. End(pm, g) = End(pl, g) /\ pm.slots[g].offset = pl.slots[g].offset
    BY <1>13 DEF End
  <2>2. End(pl, g) \in Nat /\ pl.slots[g].offset \in Nat
    BY ArenaEnds
  <2>3. ~(o < End(pl, g)) \/ ~(o + slot.size > pl.slots[g].offset)
    BY <1>4 DEF Meets, End
  <2> QED  BY <1>1, <2>1, <2>2, <2>3
<1>17. ArenaOk(pm)
  <2>1. ASSUME NEW g \in Live(pm) PROVE End(pm, g) <= BYTES
    BY <1>3, <1>12, <1>15, <1>16 DEF ArenaOk
  <2>2. ASSUME NEW g \in Live(pm), NEW k \in Live(pm), g # k
        PROVE  End(pm, g) <= pm.slots[k].offset \/ End(pm, k) <= pm.slots[g].offset
    <3>1. CASE g = h
      <4>1. k \in Live(pl)
        BY <1>12, <2>2, <3>1
      <4> QED  BY <1>15, <1>16, <3>1, <4>1
    <3>2. CASE k = h
      <4>1. g \in Live(pl)
        BY <1>12, <2>2, <3>2
      <4> QED  BY <1>15, <1>16, <3>2, <4>1
    <3>3. CASE g # h /\ k # h
      <4>1. g \in Live(pl) /\ k \in Live(pl)
        BY <1>12, <3>3
      <4>2. End(pl, g) <= pl.slots[k].offset \/ End(pl, k) <= pl.slots[g].offset
        BY <2>2, <4>1 DEF ArenaOk
      <4> QED  BY <1>16, <4>1, <4>2
    <3> QED  BY <3>1, <3>2, <3>3
  <2> QED  BY <1>10, <2>1, <2>2 DEF ArenaOk
<1> QED  BY <1>5, <1>7, <1>14, <1>17

(* alloc in either build. *)
LEMMA AllocOk ==
  ASSUME NEW pl, PoolOk(build, pl), NEW name \in Names, NEW size \in Sizes, now \in Nat,
         CanAlloc(pl, size)
  PROVE  /\ PoolOk(build, alloc(pl, name, size))
         /\ Allocs(pl, alloc(pl, name, size), free_slot(pl), name, size, now)
<1> DEFINE slot == [name |-> name, next |-> None, queued_at |-> now, size |-> size]
<1>1. /\ slot \in VecCell /\ slot.name = name /\ slot.next = None /\ slot.queued_at = now
      /\ slot.size = size
  BY DEF VecCell, None
<1>2. alloc(pl, name, size) = IF build = "alloc" THEN AllocVec(pl, slot) ELSE AllocArena(pl, slot)
  BY DEF alloc
<1> HIDE DEF slot
<1>3. CASE build = "alloc"
  <2>1. VecOk(pl) /\ CanAllocVec(pl, slot.size) /\ free_slot(pl) = VecSlot(pl)
    BY <1>1, <1>3 DEF PoolOk, CanAlloc, free_slot
  <2>2. /\ VecOk(AllocVec(pl, slot))
        /\ Allocs(pl, AllocVec(pl, slot), VecSlot(pl), slot.name, slot.size, slot.queued_at)
    BY <1>1, <2>1, AllocVecOk
  <2> QED  BY <1>1, <1>2, <1>3, <2>1, <2>2 DEF PoolOk
<1>4. CASE build = "no_alloc"
  <2>1. ArenaOk(pl) /\ CanAllocArena(pl, slot.size) /\ free_slot(pl) = Min(Unused(pl))
    BY <1>1, <1>4 DEF PoolOk, CanAlloc, free_slot
  <2>2. /\ ArenaOk(AllocArena(pl, slot))
        /\ Allocs(pl, AllocArena(pl, slot), Min(Unused(pl)), slot.name, slot.size, slot.queued_at)
    BY <1>1, <2>1, AllocArenaOk
  <2> QED  BY <1>1, <1>2, <1>4, <2>1, <2>2 DEF PoolOk
<1> QED  BY <1>3, <1>4 DEF PoolOk
-----------------------------------------------------------------------------
(* One list through the table: c is the sequence of its descriptors.        *)

Cells(c) == {c[i] : i \in 1..Len(c)}

QueueType == [head : Nat, tail : Nat, len : Nat]

IsChain(pl, q, c) ==
  /\ c \in Seq(Nat) /\ q \in QueueType
  /\ \A i, j \in 1..Len(c) : c[i] = c[j] => i = j
  /\ \A i \in 1..Len(c) : c[i] \in Live(pl)
  /\ \A i \in 1..Len(c) : pl.slots[c[i]].next = IF i < Len(c) THEN c[i + 1] ELSE None
  /\ q.len = Len(c)
  /\ q.head = IF Len(c) = 0 THEN None ELSE c[1]
  /\ q.tail = IF Len(c) = 0 THEN None ELSE c[Len(c)]

(* What is left of a sequence without its first k members. *)
Rest(s, k) == [i \in 1..(Len(s) - k) |-> s[i + k]]

Packet(pl, h) ==
  [payload |-> [name |-> pl.slots[h].name, size |-> pl.slots[h].size],
   queued_at |-> pl.slots[h].queued_at]

PacketsOf(pl, c) == [i \in 1..Len(c) |-> Packet(pl, c[i])]

(* An operation on a list turns it into another one: descriptors outside of *)
(* it stay as they are, and those it gains were not live.                   *)
Changes(bd, pl, c, pm, qm, cm) ==
  /\ PoolOk(bd, pm) /\ IsChain(pm, qm, cm)
  /\ Live(pm) = (Live(pl) \ Cells(c)) \cup Cells(cm)
  /\ Cells(cm) \cap (Live(pl) \ Cells(c)) = {}
  /\ \A g \in Live(pl) \ Cells(c) : pm.slots[g] = pl.slots[g]

(* The members of what is left of a sequence. *)
LEMMA RestIs ==
  ASSUME NEW T, NEW s \in Seq(T), NEW k \in 0..Len(s)
  PROVE  /\ Rest(s, k) \in Seq(T) /\ Len(Rest(s, k)) = Len(s) - k
         /\ \A i \in 1..(Len(s) - k) : Rest(s, k)[i] = s[i + k]
         /\ Rest(s, k) = SubSeq(s, k + 1, Len(s))
<1>1. Len(s) \in Nat /\ k \in Nat /\ Len(s) - k \in Nat
  OBVIOUS
<1>2. \A i \in 1..(Len(s) - k) : i + k \in 1..Len(s)
  BY <1>1
<1>3. Rest(s, k) \in [1..(Len(s) - k) -> T]
  BY <1>2 DEF Rest
<1>4. Rest(s, k) \in Seq(T) /\ Len(Rest(s, k)) = Len(s) - k
  BY <1>1, <1>3
<1>5. \A i \in 1..(Len(s) - k) : Rest(s, k)[i] = s[i + k]
  BY DEF Rest
<1> DEFINE u == SubSeq(s, k + 1, Len(s))
<1>6. u \in Seq(T) /\ Len(u) = Len(s) - k /\ \A i \in 1..(Len(s) - k) : u[i] = s[i + k]
  BY <1>1
<1> HIDE DEF u
<1>7. Rest(s, k) = u
  BY <1>1, <1>4, <1>5, <1>6
<1> QED  BY <1>4, <1>5, <1>7 DEF u

(* To leave a list alone is a change. *)
LEMMA ChangesNothing ==
  ASSUME NEW bd, NEW pl, NEW q, NEW c, PoolOk(bd, pl), IsChain(pl, q, c)
  PROVE  Changes(bd, pl, c, pl, q, c)
<1>1. Cells(c) \subseteq Live(pl)
  BY DEF IsChain, Cells
<1> QED  BY <1>1 DEF Changes

(* Two changes after each other are one. *)
LEMMA ChangesTwice ==
  ASSUME NEW bd, NEW pl, NEW c, NEW p1, NEW q1, NEW c1, NEW p2, NEW q2, NEW c2,
         Changes(bd, pl, c, p1, q1, c1), Changes(bd, p1, c1, p2, q2, c2)
  PROVE  Changes(bd, pl, c, p2, q2, c2)
<1>1. Live(p1) \ Cells(c1) = Live(pl) \ Cells(c)
  BY DEF Changes
<1> QED  BY <1>1 DEF Changes

(* The next links of the first cell tell whether it is the only one. *)
LEMMA ChainHead ==
  ASSUME NEW bd, NEW pl, NEW q, NEW c, PoolOk(bd, pl), IsChain(pl, q, c)
  PROVE  /\ Len(c) \in Nat
         /\ q.head = None <=> Len(c) = 0
         /\ Len(c) # 0 => /\ q.head = c[1] /\ c[1] \in Live(pl)
                          /\ pl.slots[c[1]].next = None <=> Len(c) = 1
                          /\ q.tail = c[1] <=> Len(c) = 1
                          /\ Len(c) # 1 => pl.slots[c[1]].next = c[2]
<1>1. Len(c) \in Nat /\ \A i \in 1..Len(c) : c[i] \in Live(pl) /\ c[i] # None
  BY LiveCell DEF IsChain
<1>2. CASE Len(c) = 0
  BY <1>2 DEF IsChain
<1>3. CASE Len(c) = 1
  <2>1. 1 \in 1..Len(c)
    BY <1>3
  <2> QED  BY <1>1, <1>3, <2>1 DEF IsChain
<1>4. CASE Len(c) > 1
  <2>1. 1 \in 1..Len(c) /\ 2 \in 1..Len(c) /\ Len(c) \in 1..Len(c) /\ 1 < Len(c)
    BY <1>1, <1>4
  <2>2. pl.slots[c[1]].next = c[2] /\ c[2] # None /\ c[1] \in Live(pl) /\ c[1] # None
    BY <1>1, <2>1 DEF IsChain
  <2>3. q.tail = c[Len(c)] /\ c[Len(c)] # c[1] /\ q.head = c[1]
    BY <1>4, <2>1 DEF IsChain
  <2> QED  BY <1>4, <2>2, <2>3
<1>5. Len(c) = 0 \/ Len(c) = 1 \/ Len(c) > 1
  <2>1. PICK n \in Nat : n = Len(c)
    BY <1>1
  <2>2. n = 0 \/ n = 1 \/ n > 1
    OBVIOUS
  <2> QED  BY <2>1, <2>2
<1> QED  BY <1>2, <1>3, <1>4, <1>5

(* The first cell is unlinked and freed. *)
LEMMA PopFree ==
  ASSUME NEW pl, NEW q, NEW c, PoolOk(build, pl), IsChain(pl, q, c), Len(c) # 0
  PROVE  LET pm == free(set_next(pl, c[1], None), c[1])
             qm == [head |-> pl.slots[c[1]].next,
                    tail |-> IF Len(c) = 1 THEN None ELSE q.tail, len |-> q.len - 1]
         IN  /\ Changes(build, pl, c, pm, qm, Rest(c, 1))
             /\ PacketsOf(pm, Rest(c, 1)) = Rest(PacketsOf(pl, c), 1)
<1>1. PICK h : h = c[1]
  OBVIOUS
<1>2. PICK p1 : p1 = set_next(pl, h, None)
  OBVIOUS
<1>3. PICK pm : pm = free(p1, h)
  OBVIOUS
<1>4. PICK qm : qm = [head |-> pl.slots[c[1]].next,
                    tail |-> IF Len(c) = 1 THEN None ELSE q.tail, len |-> q.len - 1]
  OBVIOUS
<1>5. PICK d : d = Rest(c, 1)
  OBVIOUS
<1>6. c \in Seq(Nat) /\ Len(c) \in Nat /\ 1 \in 1..Len(c) /\ h \in Live(pl) /\ 1 \in 0..Len(c)
  BY <1>1 DEF IsChain
<1>7. None \in Nat
  BY DEF None
<1>8. PoolOk(build, p1) /\ SetsNext(pl, p1, h, None)
  BY <1>2, <1>6, <1>7, SetNext
<1>9. PoolOk(build, pm) /\ Frees(p1, pm, h)
  <2>1. h \in Live(p1)
    BY <1>6, <1>8 DEF SetsNext
  <2> QED  BY <1>3, <1>8, <2>1, FreeOk
<1>10. Live(pm) = Live(pl) \ {h} /\ \A g \in Live(pl) \ {h} : pm.slots[g] = pl.slots[g]
  BY <1>8, <1>9 DEF SetsNext, Frees
<1>11. d \in Seq(Nat) /\ Len(d) = Len(c) - 1 /\ \A i \in 1..(Len(c) - 1) : d[i] = c[i + 1]
  BY <1>5, <1>6, RestIs
<1>12. ASSUME NEW i \in 1..(Len(c) - 1)
       PROVE  /\ i + 1 \in 1..Len(c) /\ c[i + 1] \in Live(pl) /\ c[i + 1] # h
              /\ pm.slots[c[i + 1]] = pl.slots[c[i + 1]]
  <2>1. i + 1 \in 1..Len(c) /\ i + 1 # 1
    BY <1>6
  <2>2. c[i + 1] \in Live(pl) /\ c[i + 1] # h
    BY <1>1, <1>6, <2>1 DEF IsChain
  <2> QED  BY <1>10, <2>1, <2>2
<1>13. Cells(c) = Cells(d) \cup {h} /\ h \notin Cells(d)
  <2>1. ASSUME NEW x \in Cells(d) PROVE x \in Cells(c) /\ x # h
    <3>1. PICK i \in 1..(Len(c) - 1) : x = c[i + 1]
      BY <1>11 DEF Cells
    <3> QED  BY <1>12, <3>1 DEF Cells
  <2>2. ASSUME NEW x \in Cells(c), x # h PROVE x \in Cells(d)
    <3>1. PICK i \in 1..Len(c) : x = c[i]
      BY DEF Cells
    <3>2. i # 1
      BY <1>1, <2>2, <3>1
    <3>3. i - 1 \in 1..(Len(c) - 1) /\ (i - 1) + 1 = i
      BY <1>6, <3>2
    <3>4. d[i - 1] = x
      BY <1>11, <3>1, <3>3
    <3> QED  BY <1>11, <3>3, <3>4 DEF Cells
  <2>3. h \in Cells(c)
    BY <1>1, <1>6 DEF Cells
  <2> QED  BY <2>1, <2>2, <2>3
<1>14. IsChain(pm, qm, d)
  <2>1. \A i, j \in 1..Len(d) : d[i] = d[j] => i = j
    <3>1. ASSUME NEW i \in 1..(Len(c) - 1), NEW j \in 1..(Len(c) - 1), c[i + 1] = c[j + 1] PROVE i = j
      <4>1. i + 1 = j + 1
        BY <1>12, <3>1 DEF IsChain
      <4> QED  BY <4>1
    <3> QED  BY <1>11, <3>1
  <2>2. \A i \in 1..Len(d) : d[i] \in Live(pm)
    BY <1>10, <1>11, <1>12
  <2>3. ASSUME NEW i \in 1..(Len(c) - 1)
        PROVE  pm.slots[d[i]].next = IF i < Len(d) THEN d[i + 1] ELSE None
    <3>1. pm.slots[d[i]].next = IF i + 1 < Len(c) THEN c[(i + 1) + 1] ELSE None
      <4>1. PICK k \in 1..Len(c) : k = i + 1
        BY <1>12
      <4>2. pl.slots[c[k]].next = IF k < Len(c) THEN c[k + 1] ELSE None
        BY DEF IsChain
      <4>3. d[i] = c[k] /\ pm.slots[c[k]] = pl.slots[c[k]]
        BY <1>11, <1>12, <4>1
      <4> QED  BY <4>1, <4>2, <4>3
    <3>2. CASE i < Len(d)
      <4>1. i + 1 \in 1..(Len(c) - 1) /\ i + 1 < Len(c)
        BY <1>6, <1>11, <3>2
      <4> QED  BY <1>11, <3>1, <3>2, <4>1
    <3>3. CASE ~(i < Len(d))
      <4>1. ~(i + 1 < Len(c))
        BY <1>6, <1>11, <3>3
      <4> QED  BY <3>1, <3>3, <4>1
    <3> QED  BY <3>2, <3>3
  <2>4. q \in QueueType /\ q.len = Len(c) /\ q.tail = c[Len(c)]
    BY <1>6 DEF IsChain
  <2>5. /\ qm.head = IF Len(d) = 0 THEN None ELSE d[1]
        /\ qm.tail = IF Len(d) = 0 THEN None ELSE d[Len(d)]
        /\ qm.len = Len(d)
    <3>1. CASE Len(c) = 1
      <4>1. pl.slots[c[1]].next = None
        BY <1>6, <3>1 DEF IsChain
      <4> QED  BY <1>4, <1>11, <2>4, <3>1, <4>1
    <3>2. CASE Len(c) # 1
      <4>1. 1 < Len(c) /\ 1 \in 1..(Len(c) - 1) /\ Len(c) - 1 \in 1..(Len(c) - 1)
        <5>1. PICK n \in Nat : n = Len(c)
          BY <1>6
        <5>2. 1 \in 1..n /\ n # 1
          BY <1>6, <3>2, <5>1
        <5>3. 1 < n /\ 1 \in 1..(n - 1) /\ n - 1 \in 1..(n - 1)
          BY <5>2
        <5> QED  BY <5>1, <5>3
      <4>2. pl.slots[c[1]].next = c[2]
        BY <1>6, <4>1 DEF IsChain
      <4>3. d[1] = c[2] /\ d[Len(d)] = c[Len(c)]
        BY <1>11, <4>1
      <4> QED  BY <1>4, <1>11, <2>4, <3>2, <4>1, <4>2, <4>3
    <3> QED  BY <3>1, <3>2
  <2>6. qm \in QueueType
    <3>1. qm.len \in Nat /\ qm = [head |-> qm.head, tail |-> qm.tail, len |-> qm.len]
      BY <1>4, <1>6, <1>11, <2>5
    <3>2. qm.head \in Nat /\ qm.tail \in Nat
      <4>1. CASE Len(d) = 0
        BY <1>7, <2>5, <4>1
      <4>2. CASE Len(d) # 0
        <5>1. d[1] \in Nat /\ d[Len(d)] \in Nat
          BY <1>11, <4>2
        <5> QED  BY <2>5, <4>2, <5>1
      <4> QED  BY <4>1, <4>2
    <3> QED  BY <3>1, <3>2 DEF QueueType
  <2> QED  BY <1>11, <2>1, <2>2, <2>3, <2>5, <2>6 DEF IsChain
<1>15. Cells(c) \subseteq Live(pl)
  BY DEF Cells, IsChain
<1>16. Changes(build, pl, c, pm, qm, d)
  BY <1>9, <1>10, <1>13, <1>14, <1>15 DEF Changes
<1>17. PacketsOf(pm, d) = Rest(PacketsOf(pl, c), 1)
  <2>1. Len(PacketsOf(pl, c)) = Len(c)
    BY <1>6 DEF PacketsOf
  <2>2. ASSUME NEW i \in 1..(Len(c) - 1) PROVE Packet(pm, d[i]) = PacketsOf(pl, c)[i + 1]
    <3>1. PacketsOf(pl, c)[i + 1] = Packet(pl, c[i + 1])
      BY <1>12 DEF PacketsOf
    <3>2. Packet(pm, d[i]) = Packet(pl, c[i + 1])
      BY <1>11, <1>12 DEF Packet
    <3> QED  BY <3>1, <3>2
  <2>3. PacketsOf(pm, d) = [i \in 1..(Len(c) - 1) |-> Packet(pm, d[i])]
    BY <1>11 DEF PacketsOf
  <2>4. Rest(PacketsOf(pl, c), 1) = [i \in 1..(Len(c) - 1) |-> PacketsOf(pl, c)[i + 1]]
    BY <2>1 DEF Rest
  <2> QED  BY <2>2, <2>3, <2>4
<1> QED  BY <1>1, <1>2, <1>3, <1>4, <1>5, <1>16, <1>17

(* A list has a tail exactly when it has a cell. *)
LEMMA ChainTail ==
  ASSUME NEW bd, NEW pl, NEW q, NEW c, PoolOk(bd, pl), IsChain(pl, q, c)
  PROVE  /\ Len(c) \in Nat
         /\ q.tail = None <=> Len(c) = 0
         /\ Len(c) # 0 => /\ q.tail = c[Len(c)] /\ Len(c) \in 1..Len(c)
                          /\ c[Len(c)] \in Live(pl)
<1>1. Len(c) \in Nat /\ \A i \in 1..Len(c) : c[i] \in Live(pl) /\ c[i] # None
  BY LiveCell DEF IsChain
<1>2. CASE Len(c) = 0
  BY <1>2 DEF IsChain
<1>3. CASE Len(c) # 0
  <2>1. Len(c) \in 1..Len(c)
    BY <1>1, <1>3
  <2> QED  BY <1>1, <1>3, <2>1 DEF IsChain
<1> QED  BY <1>1, <1>2, <1>3

(* A new descriptor is linked to the tail. *)
LEMMA PushBack ==
  ASSUME NEW pl, NEW q, NEW c, PoolOk(build, pl), IsChain(pl, q, c),
         NEW pa, NEW h, NEW name, NEW size, NEW t, PoolOk(build, pa),
         Allocs(pl, pa, h, name, size, t)
  PROVE  LET st == push_back([pool |-> pa, queue |-> q], h)
         IN  /\ Changes(build, pl, c, st.pool, st.queue, Append(c, h))
             /\ PacketsOf(st.pool, Append(c, h)) =
                  Append(PacketsOf(pl, c), [payload |-> [name |-> name, size |-> size],
                                            queued_at |-> t])
<1> DEFINE n == Len(c)
<1>0. PICK np : np = [payload |-> [name |-> name, size |-> size], queued_at |-> t]
  OBVIOUS
<1>1. PICK pm : pm = IF q.tail # None THEN set_next(pa, q.tail, h) ELSE pa
  OBVIOUS
<1>2. PICK qm : qm = [head |-> IF q.tail # None THEN q.head ELSE h, tail |-> h, len |-> q.len + 1]
  OBVIOUS
<1>3. push_back([pool |-> pa, queue |-> q], h) = [pool |-> pm, queue |-> qm]
  BY <1>1, <1>2 DEF push_back
<1>4. /\ n \in Nat /\ c \in Seq(Nat)
      /\ q.tail = None <=> n = 0
      /\ n # 0 => q.tail = c[n] /\ n \in 1..n /\ c[n] \in Live(pl)
  BY ChainTail DEF IsChain
<1>5. h \in Live(pa) /\ h \notin Live(pl) /\ Live(pa) = Live(pl) \cup {h}
  BY DEF Allocs
<1>6. h \in Nat /\ h # None
  BY <1>5, LiveCell
<1>7. /\ PoolOk(build, pm) /\ Live(pm) = Live(pl) \cup {h}
      /\ \A g \in Live(pl) : (n = 0 \/ g # c[n]) => pm.slots[g] = pl.slots[g]
      /\ n # 0 => pm.slots[c[n]].next = h
      /\ \A g \in Live(pl) : Packet(pm, g) = Packet(pl, g)
      /\ pm.slots[h].next = None
      /\ Packet(pm, h) = np
  <2>1. CASE n = 0
    <3>1. pm = pa
      BY <1>1, <1>4, <2>1
    <3>2. \A g \in Live(pl) : pm.slots[g] = pl.slots[g]
      BY <3>1 DEF Allocs
    <3>3. \A g \in Live(pl) : Packet(pm, g) = Packet(pl, g)
      BY <3>2 DEF Packet
    <3>4. /\ pm.slots[h].next = None
          /\ Packet(pm, h) = np
      BY <1>0, <3>1 DEF Allocs, Packet
    <3>5. PoolOk(build, pm) /\ Live(pm) = Live(pl) \cup {h}
      BY <1>5, <3>1
    <3>6. n # 0 => pm.slots[c[n]].next = h
      BY <2>1
    <3>7. \A g \in Live(pl) : (n = 0 \/ g # c[n]) => pm.slots[g] = pl.slots[g]
      BY <3>2
    <3> QED  BY <3>3, <3>4, <3>5, <3>6, <3>7
  <2>2. CASE n # 0
    <3>1. pm = set_next(pa, c[n], h)
      BY <1>1, <1>4, <2>2
    <3>2. c[n] \in Live(pa) /\ c[n] # h
      BY <1>4, <1>5, <2>2
    <3>3. PoolOk(build, pm) /\ SetsNext(pa, pm, c[n], h)
      BY <1>6, <3>1, <3>2, SetNext
    <3>4. ASSUME NEW g \in Live(pl), g # c[n] PROVE pm.slots[g] = pl.slots[g]
      BY <1>5, <3>3, <3>4 DEF SetsNext, Allocs
    <3>5. pm.slots[h] = pa.slots[h]
      BY <1>5, <3>2, <3>3 DEF SetsNext
    <3>6. Packet(pm, c[n]) = Packet(pl, c[n])
      <4>1. pa.slots[c[n]] = pl.slots[c[n]]
        BY <1>4, <2>2 DEF Allocs
      <4> QED  BY <3>3, <4>1 DEF SetsNext, Packet
    <3>7. ASSUME NEW g \in Live(pl) PROVE Packet(pm, g) = Packet(pl, g)
      <4>1. CASE g = c[n]
        BY <3>6, <4>1
      <4>2. CASE g # c[n]
        BY <3>4, <4>2 DEF Packet
      <4> QED  BY <4>1, <4>2
    <3>8. pm.slots[h].next = None /\ Packet(pm, h) = np
      BY <1>0, <3>5 DEF Allocs, Packet
    <3>9. Live(pm) = Live(pl) \cup {h} /\ pm.slots[c[n]].next = h
      BY <1>5, <3>3 DEF SetsNext
    <3> QED  BY <2>2, <3>3, <3>4, <3>7, <3>8, <3>9
  <2> QED  BY <2>1, <2>2
<1>8. PICK e : e = Append(c, h)
  OBVIOUS
<1>9. /\ e \in Seq(Nat) /\ Len(e) = n + 1 /\ e[n + 1] = h /\ \A i \in 1..n : e[i] = c[i]
  BY <1>4, <1>6, <1>8
<1>10. Cells(e) = Cells(c) \cup {h} /\ Cells(c) \subseteq Live(pl)
  <2>1. ASSUME NEW x \in Cells(e) PROVE x \in Cells(c) \cup {h}
    <3>1. PICK i \in 1..(n + 1) : x = e[i]
      BY <1>9 DEF Cells
    <3>2. CASE i \in 1..n
      BY <1>9, <3>1, <3>2 DEF Cells
    <3>3. CASE i = n + 1
      BY <1>9, <3>1, <3>3
    <3> QED  BY <1>4, <3>2, <3>3
  <2>2. ASSUME NEW i \in 1..n PROVE c[i] \in Cells(e) /\ c[i] \in Live(pl)
    <3>1. i \in 1..(n + 1) /\ e[i] = c[i]
      BY <1>4, <1>9
    <3>2. c[i] \in Live(pl)
      BY DEF IsChain
    <3> QED  BY <1>9, <3>1, <3>2 DEF Cells
  <2>3. h \in Cells(e)
    <3>1. n + 1 \in 1..(n + 1)
      BY <1>4
    <3> QED  BY <1>9, <3>1 DEF Cells
  <2> QED  BY <2>1, <2>2, <2>3 DEF Cells
<1>11. IsChain(pm, qm, e)
  <2>0. \A i \in 1..n : c[i] \in Live(pl) /\ c[i] # h
    BY <1>5 DEF IsChain
  <2>1. ASSUME NEW i \in 1..(n + 1), NEW j \in 1..(n + 1), e[i] = e[j] PROVE i = j
    <3>1. CASE i \in 1..n /\ j \in 1..n
      BY <1>9, <2>1, <3>1 DEF IsChain
    <3>2. CASE i = n + 1
      <4>1. j \notin 1..n
        BY <1>9, <2>0, <2>1, <3>2
      <4> QED  BY <1>4, <3>2, <4>1
    <3>3. CASE j = n + 1
      <4>1. i \notin 1..n
        BY <1>9, <2>0, <2>1, <3>3
      <4> QED  BY <1>4, <3>3, <4>1
    <3> QED  BY <1>4, <3>1, <3>2, <3>3
  <2>2. ASSUME NEW i \in 1..(n + 1) PROVE e[i] \in Live(pm)
    <3>1. CASE i \in 1..n
      BY <1>7, <1>9, <2>0, <3>1
    <3>2. CASE i = n + 1
      BY <1>7, <1>9, <3>2
    <3> QED  BY <1>4, <3>1, <3>2
  <2>3. ASSUME NEW i \in 1..(n + 1) PROVE pm.slots[e[i]].next = IF i < n + 1 THEN e[i + 1] ELSE None
    <3>1. CASE i = n + 1
      BY <1>4, <1>7, <1>9, <3>1
    <3>2. CASE i = n
      <4>1. n # 0 /\ i \in 1..n
        BY <3>2
      <4>2. pm.slots[c[n]].next = h /\ e[i] = c[n] /\ e[i + 1] = h
        BY <1>7, <1>9, <3>2, <4>1
      <4> QED  BY <1>4, <3>2, <4>2
    <3>3. CASE i \in 1..(n - 1)
      <4>1. i \in 1..n /\ i < n /\ i # n /\ n \in 1..n /\ i + 1 \in 1..n /\ i < n + 1
        BY <1>4, <3>3
      <4>2. c[i] # c[n] /\ c[i] \in Live(pl) /\ pl.slots[c[i]].next = c[i + 1]
        BY <4>1 DEF IsChain
      <4>3. pm.slots[c[i]].next = c[i + 1]
        BY <1>7, <4>2
      <4> QED  BY <1>9, <4>1, <4>3
    <3> QED  BY <1>4, <3>1, <3>2, <3>3
  <2>4. q \in QueueType /\ q.len = n
    BY DEF IsChain
  <2>5. qm.len = n + 1 /\ qm.tail = h /\ qm.head = e[1]
    <3>1. CASE n = 0
      BY <1>2, <1>4, <1>9, <2>4, <3>1
    <3>2. CASE n # 0
      <4>1. q.head = c[1] /\ 1 \in 1..n
        BY <1>4, <3>2 DEF IsChain
      <4> QED  BY <1>2, <1>4, <1>9, <2>4, <3>2, <4>1
    <3> QED  BY <3>1, <3>2
  <2>6. qm \in QueueType
    <3>1. qm = [head |-> qm.head, tail |-> qm.tail, len |-> qm.len]
      BY <1>2
    <3>2. e[1] \in Nat
      BY <1>4, <1>9
    <3> QED  BY <1>4, <1>6, <2>5, <3>1, <3>2 DEF QueueType
  <2>7. n + 1 # 0
    BY <1>4
  <2> QED  BY <1>9, <2>1, <2>2, <2>3, <2>5, <2>6, <2>7 DEF IsChain
<1>12. Changes(build, pl, c, pm, qm, e)
  <2>1. ASSUME NEW g \in Live(pl) \ Cells(c) PROVE pm.slots[g] = pl.slots[g]
    <3>1. n = 0 \/ g # c[n]
      BY <1>4 DEF Cells
    <3> QED  BY <1>7, <3>1
  <2> QED  BY <1>5, <1>7, <1>10, <1>11, <2>1 DEF Changes
<1>13. PacketsOf(pm, e) = Append(PacketsOf(pl, c), Packet(pm, h))
  <2>1. PICK s : s = PacketsOf(pl, c)
    OBVIOUS
  <2>2. s = [i \in 1..n |-> Packet(pl, c[i])]
    BY <2>1 DEF PacketsOf
  <2>3. PICK T, x : x = Packet(pm, h) /\ x \in T /\ \A i \in 1..n : Packet(pl, c[i]) \in T
    <3>1. Packet(pm, h) \in {Packet(pl, c[i]) : i \in 1..n} \cup {Packet(pm, h)}
      OBVIOUS
    <3> QED  BY <3>1
  <2>4. PICK v : v = Append(s, x)
    OBVIOUS
  <2>5. /\ DOMAIN v = 1..(n + 1) /\ v = [i \in DOMAIN v |-> v[i]]
        /\ v[n + 1] = x /\ \A i \in 1..n : v[i] = s[i]
    <3>1. PICK m \in Nat : m = n
      BY <1>4
    <3>2. s \in [1..m -> T]
      BY <2>2, <2>3, <3>1
    <3>3. s \in Seq(T) /\ Len(s) = m
      BY <3>2
    <3>4. v \in Seq(T) /\ Len(v) = m + 1 /\ v[m + 1] = x /\ \A i \in 1..m : v[i] = s[i]
      BY <2>3, <2>4, <3>3
    <3>5. DOMAIN v = 1..(m + 1) /\ v = [i \in DOMAIN v |-> v[i]]
      BY <3>4
    <3> QED  BY <3>1, <3>4, <3>5
  <2>6. ASSUME NEW i \in 1..(n + 1) PROVE Packet(pm, e[i]) = v[i]
    <3>1. CASE i \in 1..n
      <4>1. c[i] \in Live(pl) /\ e[i] = c[i] /\ v[i] = s[i]
        BY <1>9, <2>5, <3>1 DEF IsChain
      <4>2. s[i] = Packet(pl, c[i])
        BY <2>2, <3>1
      <4> QED  BY <1>7, <4>1, <4>2
    <3>2. CASE i = n + 1
      BY <1>9, <2>3, <2>5, <3>2
    <3> QED  BY <1>4, <3>1, <3>2
  <2>7. PacketsOf(pm, e) = [i \in 1..(n + 1) |-> Packet(pm, e[i])]
    BY <1>9 DEF PacketsOf
  <2>8. PacketsOf(pm, e) = v
    BY <2>5, <2>6, <2>7
  <2> QED  BY <2>1, <2>3, <2>4, <2>8
<1> QED  BY <1>0, <1>3, <1>7, <1>8, <1>12, <1>13

(* flush_queued_packet without a nonce. *)
FlushLast(st) ==
  IF st.queue.head = None THEN st ELSE requeue_packet(dequeue_packet(st), st.queue.head)

(* The definition without the truth value. *)
LEMMA FlushKeeps == ASSUME NEW st PROVE flush_queued_packet(st, FALSE) = FlushLast(st)
  BY DEF FlushLast, flush_queued_packet

(* It puts the head back where it was. *)
LEMMA FlushRequeues ==
  ASSUME NEW pl, NEW q, NEW c, PoolOk(build, pl), IsChain(pl, q, c),
         Len(c) <= MAX_PENDING_PACKETS,
         NEW st, st = FlushLast([pool |-> pl, queue |-> q])
  PROVE  /\ Changes(build, pl, c, st.pool, st.queue, c)
         /\ PacketsOf(st.pool, c) = PacketsOf(pl, c)
<1>1. CASE Len(c) = 0
  <2>1. q.head = None
    BY <1>1 DEF IsChain
  <2>2. st = [pool |-> pl, queue |-> q]
    BY <2>1 DEF FlushLast
  <2>3. Changes(build, pl, c, pl, q, c)
    BY ChangesNothing
  <2>4. st.pool = pl /\ st.queue = q
    BY ONLY <2>2
  <2>5. Changes(build, pl, c, st.pool, st.queue, c)
    BY <2>3, <2>4
  <2>6. PacketsOf(st.pool, c) = PacketsOf(pl, c)
    BY <2>4
  <2> QED  BY <2>5, <2>6
<1>2. CASE Len(c) # 0
  <2>1. PICK h : h = c[1]
    OBVIOUS
  <2>2. PICK nx : nx = pl.slots[h].next
    OBVIOUS
  <2>3. PICK p1 : p1 = set_next(pl, h, None)
    OBVIOUS
  <2>4. PICK pm : pm = set_next(p1, h, nx)
    OBVIOUS
  <2>5. /\ Len(c) \in Nat /\ q.head = h /\ h # None /\ h \in Live(pl)
        /\ nx = None <=> Len(c) = 1
    BY <1>2, <2>1, <2>2, ChainHead
  <2>6. nx \in Nat /\ None \in Nat /\ h \in Nat
    BY <2>2, <2>5, LiveCell DEF None
  <2>7. PoolOk(build, p1) /\ SetsNext(pl, p1, h, None)
    BY <2>3, <2>5, <2>6, SetNext
  <2>8. PoolOk(build, pm) /\ SetsNext(p1, pm, h, nx)
    <3>1. h \in Live(p1)
      BY <2>5, <2>7 DEF SetsNext
    <3> QED  BY <2>4, <2>6, <2>7, <3>1, SetNext
  <2>9. /\ Live(pm) = Live(pl) /\ \A g \in Live(pl) \ {h} : pm.slots[g] = pl.slots[g]
        /\ pm.slots[h].next = nx /\ Packet(pm, h) = Packet(pl, h)
    BY <2>7, <2>8 DEF SetsNext, Packet
  <2>10. /\ q \in QueueType /\ q.len = Len(c) /\ q.tail = c[Len(c)] /\ q.tail # None
    BY <1>2, ChainTail DEF IsChain
  <2>11. st = [pool |-> pm, queue |-> q]
    <3>1. PICK tk : tk = dequeue_packet([pool |-> pl, queue |-> q])
      OBVIOUS
    <3>2. st = requeue_packet(tk, h)
      BY <2>5, <3>1 DEF FlushLast
    <3>3. tk = [pool |-> p1, queue |-> [head |-> nx, tail |-> IF nx = None THEN None ELSE q.tail,
                                        len |-> q.len - 1]]
      BY <2>2, <2>3, <2>5, <3>1 DEF dequeue_packet
    <3>4. ~(q.len - 1 >= MAX_PENDING_PACKETS)
      BY <2>5, <2>10, Consts
    <3>5. st = [pool |-> pm,
                queue |-> [head |-> h, tail |-> IF tk.queue.tail = None THEN h ELSE tk.queue.tail,
                           len |-> (q.len - 1) + 1]]
      BY <2>4, <3>2, <3>3, <3>4 DEF requeue_packet
    <3>6. (IF tk.queue.tail = None THEN h ELSE tk.queue.tail) = q.tail
      <4>1. CASE nx = None
        BY <2>1, <2>5, <2>10, <3>3, <4>1
      <4>2. CASE nx # None
        BY <2>10, <3>3, <4>2
      <4> QED  BY <4>1, <4>2
    <3>7. (q.len - 1) + 1 = q.len
      BY <2>5, <2>10
    <3>8. q = [head |-> h, tail |-> q.tail, len |-> q.len]
      BY <2>5, <2>10 DEF QueueType
    <3> QED  BY <3>5, <3>6, <3>7, <3>8
  <2>12. ASSUME NEW g \in Live(pl)
         PROVE  pm.slots[g].next = pl.slots[g].next /\ Packet(pm, g) = Packet(pl, g)
    <3>1. CASE g = h
      BY <2>2, <2>9, <3>1
    <3>2. CASE g # h
      BY <2>9, <3>2 DEF Packet
    <3> QED  BY <3>1, <3>2
  <2>13. IsChain(pm, q, c)
    BY <2>9, <2>12 DEF IsChain
  <2>14. Cells(c) \subseteq Live(pl) /\ h \in Cells(c)
    <3>1. 1 \in 1..Len(c)
      BY <1>2, <2>5
    <3> QED  BY <2>1, <3>1 DEF IsChain, Cells
  <2>15. Changes(build, pl, c, pm, q, c)
    BY <2>8, <2>9, <2>13, <2>14 DEF Changes
  <2>16. PacketsOf(pm, c) = PacketsOf(pl, c)
    BY <2>12 DEF PacketsOf, IsChain
  <2>17. st.pool = pm /\ st.queue = q
    BY ONLY <2>11
  <2>18. Changes(build, pl, c, st.pool, st.queue, c)
    BY <2>15, <2>17
  <2>19. PacketsOf(st.pool, c) = PacketsOf(pl, c)
    BY <2>16, <2>17
  <2> QED  BY <2>18, <2>19
<1> QED  BY <1>1, <1>2
-----------------------------------------------------------------------------
(* The loops over one list. *)

PoolSet == VecPool \cup ArenaPool

(* A pool with its books right is a pool. *)
LEMMA PoolType ==
  ASSUME NEW bd, NEW pl, PoolOk(bd, pl)
  PROVE  pl \in PoolSet
  BY DEF PoolOk, VecOk, ArenaOk, PoolSet

(* A list has no more cells than the table. *)
LEMMA ChainShort ==
  ASSUME NEW bd, NEW pl, NEW q, NEW c, PoolOk(bd, pl), IsChain(pl, q, c)
  PROVE  Len(c) \in Nat /\ Len(c) <= N
<1>1. Len(c) \in Nat /\ N \in Nat
  BY Consts DEF IsChain
<1>2. c \in Seq(Nat) /\ \A i \in 1..Len(c) : c[i] \in 1..N
  BY LiveCell DEF IsChain
<1>3. c \in [1..Len(c) -> 1..N]
  BY <1>1, <1>2
<1>4. c \in Injection(1..Len(c), 1..N)
  BY <1>3 DEF Injection, IsInjective, IsChain
<1>5. IsFiniteSet(1..N) /\ Cardinality(1..N) = N /\ Cardinality(1..Len(c)) = Len(c)
  <2>1. ASSUME NEW m \in Nat PROVE IsFiniteSet(1..m) /\ Cardinality(1..m) = m
    <3>1. IsFiniteSet(1..m) /\ Cardinality(1..m) = IF 1 > m THEN 0 ELSE m - 1 + 1
      BY FS_Interval
    <3> QED  BY <3>1
  <2> QED  BY <1>1, <2>1
<1>6. Cardinality(1..Len(c)) <= Cardinality(1..N)
  BY <1>4, <1>5, FS_Injection
<1> QED  BY <1>1, <1>5, <1>6

(* The first k cells of c are gone. *)
Pops(pl, c, k, pm, qm) ==
  /\ k \in 0..Len(c)
  /\ Changes(build, pl, c, pm, qm, Rest(c, k))
  /\ PacketsOf(pm, Rest(c, k)) = Rest(PacketsOf(pl, c), k)

(* The packets on a list are a sequence as long as the list. *)
LEMMA PacketsType ==
  ASSUME NEW bd, NEW pl, NEW q, NEW c, PoolOk(bd, pl), IsChain(pl, q, c)
  PROVE  LET s == PacketsOf(pl, c)
         IN  /\ s \in Seq([payload : [name : Names, size : Sizes], queued_at : Nat])
             /\ Len(s) = Len(c) /\ Len(c) \in Nat
             /\ \A i \in 1..Len(c) : s[i] = Packet(pl, c[i])
<1>1. Len(c) \in Nat
  BY DEF IsChain
<1>2. ASSUME NEW i \in 1..Len(c)
      PROVE  Packet(pl, c[i]) \in [payload : [name : Names, size : Sizes], queued_at : Nat]
  <2>1. c[i] \in Live(pl)
    BY DEF IsChain
  <2> QED  BY <2>1, LiveCell DEF Packet
<1>3. PICK T : T = [payload : [name : Names, size : Sizes], queued_at : Nat]
  OBVIOUS
<1>4. PacketsOf(pl, c) \in [1..Len(c) -> T]
  BY <1>2, <1>3 DEF PacketsOf
<1>5. PacketsOf(pl, c) \in Seq(T) /\ Len(PacketsOf(pl, c)) = Len(c)
  BY <1>1, <1>4
<1>6. \A i \in 1..Len(c) : PacketsOf(pl, c)[i] = Packet(pl, c[i])
  BY DEF PacketsOf
<1> QED  BY <1>1, <1>3, <1>5, <1>6

(* Nothing is taken from the front. *)
LEMMA RestZero ==
  ASSUME NEW T, NEW s \in Seq(T)
  PROVE  Rest(s, 0) = s
<1>1. Rest(s, 0) = [i \in 1..Len(s) |-> s[i]]
  BY DEF Rest
<1> QED  BY <1>1

(* One member more is taken from the front. *)
LEMMA RestRest ==
  ASSUME NEW T, NEW s \in Seq(T), NEW k \in 0..Len(s), k < Len(s)
  PROVE  Rest(Rest(s, k), 1) = Rest(s, k + 1)
<1>1. Len(s) \in Nat /\ k \in Nat
  OBVIOUS
<1>2. Len(Rest(s, k)) = Len(s) - k /\ \A i \in 1..(Len(s) - k) : Rest(s, k)[i] = s[i + k]
  BY RestIs
<1>3. (Len(s) - k) - 1 = Len(s) - (k + 1)
  BY <1>1
<1>4. Rest(Rest(s, k), 1) = [i \in 1..((Len(s) - k) - 1) |-> Rest(s, k)[i + 1]]
  BY <1>2 DEF Rest
<1>5. ASSUME NEW i \in 1..(Len(s) - (k + 1)) PROVE Rest(s, k)[i + 1] = s[i + (k + 1)]
  <2>1. i + 1 \in 1..(Len(s) - k) /\ (i + 1) + k = i + (k + 1)
    BY <1>1
  <2> QED  BY <1>2, <2>1
<1> QED  BY <1>3, <1>4, <1>5 DEF Rest

(* At first no cell is gone. *)
LEMMA PopsZero ==
  ASSUME NEW pl, NEW q, NEW c, PoolOk(build, pl), IsChain(pl, q, c)
  PROVE  Pops(pl, c, 0, pl, q)
<1>1. c \in Seq(Nat) /\ Len(c) \in Nat /\ Rest(c, 0) = c
  BY RestZero DEF IsChain
<1>2. Rest(PacketsOf(pl, c), 0) = PacketsOf(pl, c)
  BY PacketsType, RestZero
<1>3. Changes(build, pl, c, pl, q, c)
  BY ChangesNothing
<1> QED  BY <1>1, <1>2, <1>3 DEF Pops

(* What is known of the list that is left. *)
LEMMA PopsFacts ==
  ASSUME NEW pl, NEW q, NEW c, PoolOk(build, pl), IsChain(pl, q, c),
         NEW k, NEW pm, NEW qm, Pops(pl, c, k, pm, qm)
  PROVE  /\ k \in Nat /\ k <= Len(c) /\ Len(c) \in Nat /\ c \in Seq(Nat)
         /\ PoolOk(build, pm) /\ pm \in PoolSet /\ qm \in QueueType
         /\ IsChain(pm, qm, Rest(c, k)) /\ Len(Rest(c, k)) = Len(c) - k
         /\ \A i \in 1..(Len(c) - k) : Rest(c, k)[i] = c[i + k]
         /\ qm.head = None <=> k = Len(c)
         /\ k # Len(c) => qm.head = c[k + 1]
         /\ \A j \in (k + 1)..Len(c) : c[j] \in Live(pm) /\ Packet(pm, c[j]) = PacketsOf(pl, c)[j]
         /\ \A j \in (k + 1)..Len(c) : pm.slots[c[j]].next = IF j < Len(c) THEN c[j + 1] ELSE None
<1>1. k \in Nat /\ k <= Len(c) /\ Len(c) \in Nat /\ c \in Seq(Nat) /\ k \in 0..Len(c)
  BY DEF Pops, IsChain
<1>2. PoolOk(build, pm) /\ IsChain(pm, qm, Rest(c, k)) /\ PacketsOf(pm, Rest(c, k)) = Rest(PacketsOf(pl, c), k)
  BY DEF Pops, Changes
<1>3. pm \in PoolSet /\ qm \in QueueType
  BY <1>2, PoolType DEF IsChain
<1>4. Len(Rest(c, k)) = Len(c) - k /\ \A i \in 1..(Len(c) - k) : Rest(c, k)[i] = c[i + k]
  BY <1>1, RestIs
<1>5. qm.head = IF Len(c) - k = 0 THEN None ELSE Rest(c, k)[1]
  BY <1>2, <1>4 DEF IsChain
<1>6. ASSUME NEW j \in (k + 1)..Len(c)
      PROVE  /\ c[j] \in Live(pm) /\ Packet(pm, c[j]) = PacketsOf(pl, c)[j]
             /\ pm.slots[c[j]].next = IF j < Len(c) THEN c[j + 1] ELSE None
  <2>1. PICK i \in 1..(Len(c) - k) : i = j - k
    <3>1. j - k \in 1..(Len(c) - k)
      BY <1>1
    <3> QED  BY <3>1
  <2>2. i + k = j /\ i \in Nat /\ j \in Nat
    BY <1>1, <2>1
  <2>3. Rest(c, k)[i] = c[j]
    BY <1>4, <2>2
  <2>4. c[j] \in Live(pm)
    BY <1>2, <1>4, <2>3 DEF IsChain
  <2>5. pm.slots[c[j]].next = IF i < Len(c) - k THEN Rest(c, k)[i + 1] ELSE None
    BY <1>2, <1>4, <2>3 DEF IsChain
  <2>6. pm.slots[c[j]].next = IF j < Len(c) THEN c[j + 1] ELSE None
    <3>1. CASE j < Len(c)
      <4>1. i < Len(c) - k /\ i + 1 \in 1..(Len(c) - k) /\ (i + 1) + k = j + 1
        BY <1>1, <2>2, <3>1
      <4> QED  BY <1>4, <2>5, <3>1, <4>1
    <3>2. CASE ~(j < Len(c))
      <4>1. ~(i < Len(c) - k)
        BY <1>1, <2>2, <3>2
      <4> QED  BY <2>5, <3>2, <4>1
    <3> QED  BY <3>1, <3>2
  <2>7. PacketsOf(pm, Rest(c, k))[i] = Packet(pm, c[j])
    BY <1>4, <2>3 DEF PacketsOf
  <2>8. Rest(PacketsOf(pl, c), k)[i] = PacketsOf(pl, c)[j]
    <3>1. Len(PacketsOf(pl, c)) = Len(c)
      BY PacketsType
    <3> QED  BY <2>2, <3>1 DEF Rest
  <2> QED  BY <1>2, <2>4, <2>6, <2>7, <2>8
<1>7. qm.head = None <=> k = Len(c)
  <2>1. CASE k = Len(c)
    BY <1>1, <1>5, <2>1
  <2>2. CASE k # Len(c)
    <3>1. k + 1 \in (k + 1)..Len(c) /\ 1 \in 1..(Len(c) - k) /\ Len(c) - k # 0 /\ 1 + k = k + 1
      BY <1>1, <2>2
    <3>2. qm.head = c[k + 1] /\ c[k + 1] \in Live(pm)
      BY <1>4, <1>5, <1>6, <3>1
    <3>3. c[k + 1] # None
      BY <1>2, <3>2, LiveCell
    <3> QED  BY <2>2, <3>2, <3>3
  <2> QED  BY <2>1, <2>2
<1>8. k # Len(c) => qm.head = c[k + 1]
  <2>1. SUFFICES ASSUME k # Len(c) PROVE qm.head = c[k + 1]
    OBVIOUS
  <2>2. 1 \in 1..(Len(c) - k) /\ Len(c) - k # 0 /\ 1 + k = k + 1
    BY <1>1, <2>1
  <2> QED  BY <1>4, <1>5, <2>2
<1> QED  BY <1>1, <1>2, <1>3, <1>4, <1>6, <1>7, <1>8

(* One cell more. *)
LEMMA PopsMore ==
  ASSUME NEW pl, NEW q, NEW c, PoolOk(build, pl), IsChain(pl, q, c),
         NEW k, NEW pm, NEW qm, Pops(pl, c, k, pm, qm), k # Len(c),
         NEW h, h = qm.head
  PROVE  LET px == free(set_next(pm, h, None), h)
             nx == pm.slots[h].next
             qx == [head |-> nx, tail |-> IF nx = None THEN None ELSE qm.tail, len |-> qm.len - 1]
             qy == [head |-> nx, tail |-> IF qm.tail = h THEN None ELSE qm.tail, len |-> qm.len - 1]
         IN  h # None /\ Pops(pl, c, k + 1, px, qx) /\ qy = qx
<1>1. PICK d : d = Rest(c, k)
  OBVIOUS
<1>2. /\ k \in Nat /\ k <= Len(c) /\ Len(c) \in Nat /\ c \in Seq(Nat)
      /\ PoolOk(build, pm) /\ IsChain(pm, qm, d) /\ Len(d) = Len(c) - k
      /\ Changes(build, pl, c, pm, qm, d)
  BY <1>1, PopsFacts DEF Pops
<1>3. k \in 0..Len(c) /\ k < Len(c) /\ Len(d) # 0 /\ k + 1 \in 0..Len(c)
  BY <1>2
<1>4. /\ h = d[1] /\ h \in Live(pm)
      /\ pm.slots[h].next = None <=> Len(d) = 1
      /\ qm.tail = h <=> Len(d) = 1
  <2>1. /\ qm.head = d[1] /\ d[1] \in Live(pm)
        /\ pm.slots[d[1]].next = None <=> Len(d) = 1
        /\ qm.tail = d[1] <=> Len(d) = 1
    BY ONLY <1>2, <1>3, ChainHead
  <2> QED  BY <2>1
<1>5. h # None
  BY <1>2, <1>4, LiveCell
<1>6. PICK px : px = free(set_next(pm, h, None), h)
  OBVIOUS
<1>7. PICK qx : qx = [head |-> pm.slots[h].next, tail |-> IF Len(d) = 1 THEN None ELSE qm.tail,
                      len |-> qm.len - 1]
  OBVIOUS
<1>8. Changes(build, pm, d, px, qx, Rest(d, 1)) /\ PacketsOf(px, Rest(d, 1)) = Rest(PacketsOf(pm, d), 1)
  BY <1>2, <1>3, <1>4, <1>6, <1>7, PopFree
<1>9. Rest(d, 1) = Rest(c, k + 1)
  BY <1>1, <1>2, <1>3, RestRest
<1>10. Changes(build, pl, c, px, qx, Rest(c, k + 1))
  BY <1>2, <1>8, <1>9, ChangesTwice
<1>11. PacketsOf(px, Rest(c, k + 1)) = Rest(PacketsOf(pl, c), k + 1)
  <2>1. PICK s : s = PacketsOf(pl, c)
    OBVIOUS
  <2>2. PICK T : s \in Seq(T) /\ Len(s) = Len(c)
    BY <2>1, PacketsType
  <2>3. k \in 0..Len(s) /\ k < Len(s)
    BY <1>3, <2>2
  <2>4. Rest(Rest(s, k), 1) = Rest(s, k + 1)
    BY <2>2, <2>3, RestRest
  <2>5. PacketsOf(pm, d) = Rest(s, k)
    BY <1>1, <2>1 DEF Pops
  <2> QED  BY <1>8, <1>9, <2>1, <2>4, <2>5
<1>12. Pops(pl, c, k + 1, px, qx)
  BY <1>3, <1>10, <1>11 DEF Pops
<1> QED  BY <1>4, <1>5, <1>6, <1>7, <1>12

(* free_chain after i iterations. *)
ChainRun(pl, c, i) ==
  {a \in [pool : PoolSet, head : Nat] :
     \E k, qm : Pops(pl, c, k, a.pool, qm) /\ a.head = qm.head /\ (k = Len(c) \/ k >= i)}

(* An iteration of free_chain. *)
LEMMA FreeChainAdvances ==
  ASSUME NEW pl, NEW q, NEW c, PoolOk(build, pl), IsChain(pl, q, c),
         NEW i \in 1..N, NEW a \in ChainRun(pl, c, i - 1)
  PROVE  FreeChainStep(a) \in ChainRun(pl, c, i)
<1>1. PICK k, qm : Pops(pl, c, k, a.pool, qm) /\ a.head = qm.head /\ (k = Len(c) \/ k >= i - 1)
  BY DEF ChainRun
<1>2. k \in Nat /\ Len(c) \in Nat /\ i \in Nat /\ (qm.head = None <=> k = Len(c)) /\ a \in [pool : PoolSet, head : Nat]
  BY <1>1, PopsFacts DEF ChainRun
<1>3. CASE a.head = None
  <2>1. FreeChainStep(a) = a /\ k = Len(c)
    BY <1>1, <1>2, <1>3 DEF FreeChainStep
  <2> QED  BY <1>1, <1>2, <2>1 DEF ChainRun
<1>4. CASE a.head # None
  <2>1. PICK h : h = qm.head
    OBVIOUS
  <2>2. PICK px : px = free(set_next(a.pool, h, None), h)
    OBVIOUS
  <2>3. k # Len(c)
    BY <1>1, <1>2, <1>4
  <2>4. PICK qx : Pops(pl, c, k + 1, px, qx) /\ qx.head = a.pool.slots[h].next
    <3>1. PICK pm : pm = a.pool
      OBVIOUS
    <3>2. PICK qx : qx = [head |-> pm.slots[h].next,
                          tail |-> IF pm.slots[h].next = None THEN None ELSE qm.tail,
                          len |-> qm.len - 1]
      OBVIOUS
    <3>3. Pops(pl, c, k, pm, qm)
      BY <1>1, <3>1
    <3>4. Pops(pl, c, k + 1, free(set_next(pm, h, None), h), qx)
      BY <2>1, <2>3, <3>2, <3>3, PopsMore
    <3>5. qx.head = pm.slots[h].next
      BY <3>2
    <3> QED  BY <2>2, <3>1, <3>4, <3>5
  <2>5. FreeChainStep(a) = [pool |-> px, head |-> qx.head]
    BY <1>1, <1>4, <2>1, <2>2, <2>4 DEF FreeChainStep
  <2>6. px \in PoolSet /\ qx.head \in Nat
    BY <2>4, PopsFacts DEF QueueType
  <2>7. k + 1 = Len(c) \/ k + 1 >= i
    BY <1>1, <1>2, <2>3
  <2>8. PICK b : b = [pool |-> px, head |-> qx.head]
    OBVIOUS
  <2>9. b \in [pool : PoolSet, head : Nat] /\ b.pool = px /\ b.head = qx.head
    BY <2>6, <2>8
  <2>10. b \in ChainRun(pl, c, i)
    BY <2>4, <2>7, <2>9 DEF ChainRun
  <2> QED  BY <2>5, <2>8, <2>10
<1> QED  BY <1>3, <1>4

(* free_chain frees every cell of the list. *)
LEMMA FreeChainIs ==
  ASSUME NEW pl, NEW q, NEW c, PoolOk(build, pl), IsChain(pl, q, c)
  PROVE  Pops(pl, c, Len(c), free_chain(pl, q.head), EmptyQueue)
<1> DEFINE U == [pool : PoolSet, head : Nat]
           b == [pool |-> pl, head |-> q.head]
           F == [a \in U |-> FreeChainStep(a)]
           R == [i \in 0..N |-> ChainRun(pl, c, i)]
           Is(r) == r = [i \in 0..N |-> IF i = 0 THEN b ELSE FreeChainStep(r[i - 1])]
<1>0. N \in Nat /\ 0 \in 0..N
  BY Consts
<1>1. b \in R[0]
  <2>1. Pops(pl, c, 0, pl, q) /\ pl \in PoolSet /\ q.head \in Nat
    BY PopsZero, PoolType DEF IsChain, QueueType
  <2>2. b \in U /\ b.pool = pl /\ b.head = q.head /\ 0 >= 0
    BY <2>1
  <2> HIDE DEF b, U
  <2>3. b \in ChainRun(pl, c, 0)
    BY <2>1, <2>2 DEF ChainRun, U
  <2> QED  BY <1>0, <2>3
<1>2. ASSUME NEW i \in 1..N, NEW a \in R[i - 1]
      PROVE  FreeChainStep(a) \in R[i] /\ F[a] = FreeChainStep(a)
  <2>1. i - 1 \in 0..N /\ i \in 0..N
    BY <1>0
  <2>2. a \in ChainRun(pl, c, i - 1)
    BY <2>1
  <2>3. FreeChainStep(a) \in ChainRun(pl, c, i) /\ a \in U
    BY <2>2, FreeChainAdvances DEF ChainRun
  <2> QED  BY <2>1, <2>3
<1>3. \A i \in 1..N : \A a \in R[i - 1] : F[a] \in R[i]
  BY <1>2
<1>4. R[N] = ChainRun(pl, c, N)
  BY <1>0
<1> HIDE DEF F, R, b, U
<1>5. PICK g : Loops(g, N, b, F) /\ \A i \in 0..N : g[i] \in R[i]
  BY <1>0, <1>1, <1>3, LoopRuns
<1>6. Is(g)
  <2>1. ASSUME NEW i \in 0..N, i # 0 PROVE F[g[i - 1]] = FreeChainStep(g[i - 1])
    <3>1. i - 1 \in 0..N /\ i \in 1..N
      BY <1>0, <2>1
    <3> QED  BY <1>2, <1>5, <3>1
  <2> QED  BY <1>5, <2>1 DEF Loops
<1> DEFINE r == CHOOSE s : Is(s)
<1>7. Is(r)
  BY <1>6
<1>8. free_chain(pl, q.head) = r[N].pool
  BY DEF free_chain, b
<1> HIDE DEF r
<1>9. r[N] \in R[N]
  <2>1. r[0] = b /\ \A i \in 1..N : r[i] = FreeChainStep(r[i - 1])
    BY <1>0, <1>7
  <2>2. \A i \in 1..N : r[i - 1] \in R[i - 1] => r[i] \in R[i]
    BY <1>2, <2>1
  <2>3. \A i \in 0..N : r[i] \in R[i]
    BY <1>0, <1>1, <2>1, <2>2, LoopInv
  <2> QED  BY <1>0, <2>3
<1>10. PICK k, qm : Pops(pl, c, k, r[N].pool, qm) /\ (k = Len(c) \/ k >= N)
  BY <1>4, <1>9 DEF ChainRun
<1>11. k = Len(c)
  <2>1. k \in Nat /\ k <= Len(c) /\ Len(c) \in Nat /\ Len(c) <= N
    BY <1>10, PopsFacts, ChainShort
  <2> QED  BY <1>0, <1>10, <2>1
<1>12. qm = EmptyQueue
  <2>1. IsChain(r[N].pool, qm, Rest(c, k)) /\ Len(Rest(c, k)) = Len(c) - k /\ Len(c) \in Nat
    BY <1>10, PopsFacts
  <2>2. Len(Rest(c, k)) = 0
    BY <1>11, <2>1
  <2>3. qm \in QueueType /\ qm.head = None /\ qm.tail = None /\ qm.len = 0
    BY <2>1, <2>2 DEF IsChain
  <2> QED  BY <2>3 DEF QueueType, EmptyQueue
<1> QED  BY <1>8, <1>10, <1>11, <1>12

(* flush_queued_packet with a nonce. *)
FlushOne(st) ==
  IF st.queue.head = None THEN st
  ELSE [pool |-> free(set_next(st.pool, st.queue.head, None), st.queue.head),
        queue |-> [head |-> st.pool.slots[st.queue.head].next,
                   tail |-> IF st.pool.slots[st.queue.head].next = None THEN None ELSE st.queue.tail,
                   len |-> st.queue.len - 1]]

(* The definition without the truth value. *)
LEMMA FlushSends == ASSUME NEW st PROVE flush_queued_packet(st, TRUE) = FlushOne(st)
<1>1. CASE st.queue.head = None
  BY <1>1 DEF FlushOne, flush_queued_packet
<1>2. CASE st.queue.head # None
  <2>1. PICK h : h = st.queue.head
    OBVIOUS
  <2>2. PICK tk : tk = dequeue_packet(st)
    OBVIOUS
  <2>3. flush_queued_packet(st, TRUE) = [tk EXCEPT !.pool = free(@, h)]
    BY <1>2, <2>1, <2>2 DEF flush_queued_packet
  <2>4. tk = [pool |-> set_next(st.pool, h, None),
              queue |-> [head |-> st.pool.slots[h].next,
                         tail |-> IF st.pool.slots[h].next = None THEN None ELSE st.queue.tail,
                         len |-> st.queue.len - 1]]
    BY <2>1, <2>2 DEF dequeue_packet
  <2>5. [tk EXCEPT !.pool = free(@, h)] =
          [pool |-> free(set_next(st.pool, h, None), h), queue |-> tk.queue]
    BY <2>4
  <2> QED  BY <1>2, <2>1, <2>3, <2>4, <2>5 DEF FlushOne
<1> QED  BY <1>1, <1>2

(* The cells that are gone stay gone when the rest is only relinked. *)
LEMMA PopsKept ==
  ASSUME NEW pl, NEW c, NEW k, NEW pm, NEW qm, Pops(pl, c, k, pm, qm), NEW px, NEW qx,
         Changes(build, pm, Rest(c, k), px, qx, Rest(c, k)),
         PacketsOf(px, Rest(c, k)) = PacketsOf(pm, Rest(c, k))
  PROVE  Pops(pl, c, k, px, qx)
<1>1. Changes(build, pl, c, px, qx, Rest(c, k))
  BY ChangesTwice DEF Pops
<1> QED  BY <1>1 DEF Pops

(* flush_queued_packets after i packets. *)
FlushRun(pl, c, i) ==
  {a \in [pool : PoolSet, queue : QueueType] :
     \E k : Pops(pl, c, k, a.pool, a.queue) /\ (k = i \/ (k = Len(c) /\ k <= i))}

(* An iteration of the device's loop. *)
LEMMA FlushAdvances ==
  ASSUME NEW pl, NEW q, NEW c, PoolOk(build, pl), IsChain(pl, q, c),
         NEW i \in Nat \ {0}, NEW a \in FlushRun(pl, c, i - 1)
  PROVE  FlushOne(a) \in FlushRun(pl, c, i)
<1>1. PICK k : Pops(pl, c, k, a.pool, a.queue) /\ (k = i - 1 \/ (k = Len(c) /\ k <= i - 1))
  BY DEF FlushRun
<1>2. PICK pm, qm : pm = a.pool /\ qm = a.queue
  OBVIOUS
<1>3. /\ Pops(pl, c, k, pm, qm) /\ k \in Nat /\ Len(c) \in Nat /\ i \in Nat
      /\ (qm.head = None <=> k = Len(c)) /\ a \in [pool : PoolSet, queue : QueueType]
  BY <1>1, <1>2, PopsFacts DEF FlushRun
<1>4. CASE qm.head = None
  <2>1. FlushOne(a) = a
    BY <1>2, <1>4 DEF FlushOne
  <2>2. k = Len(c) /\ k <= i
    BY <1>1, <1>3, <1>4
  <2> QED  BY <1>1, <1>3, <2>1, <2>2 DEF FlushRun
<1>5. CASE qm.head # None
  <2>1. PICK h : h = qm.head
    OBVIOUS
  <2>2. PICK px : px = free(set_next(pm, h, None), h)
    OBVIOUS
  <2>3. PICK qx : qx = [head |-> pm.slots[h].next,
                        tail |-> IF pm.slots[h].next = None THEN None ELSE qm.tail,
                        len |-> qm.len - 1]
    OBVIOUS
  <2>4. k # Len(c)
    BY <1>3, <1>5
  <2>5. Pops(pl, c, k + 1, px, qx)
    BY <1>3, <2>1, <2>2, <2>3, <2>4, PopsMore
  <2>6. FlushOne(a) = [pool |-> px, queue |-> qx]
    BY <1>2, <1>5, <2>1, <2>2, <2>3 DEF FlushOne
  <2>7. px \in PoolSet /\ qx \in QueueType
    BY <2>5, PopsFacts
  <2>8. k + 1 = i
    BY <1>1, <1>3, <2>4
  <2>9. PICK b : b = [pool |-> px, queue |-> qx]
    OBVIOUS
  <2>10. b \in [pool : PoolSet, queue : QueueType] /\ b.pool = px /\ b.queue = qx
    BY <2>7, <2>9
  <2>11. b \in FlushRun(pl, c, i)
    BY <2>5, <2>8, <2>10 DEF FlushRun
  <2> QED  BY <2>6, <2>9, <2>11
<1> QED  BY <1>4, <1>5

(* The device's loop sends as many packets as there are nonces. *)
LEMMA FlushIs ==
  ASSUME NEW pl, NEW q, NEW c, PoolOk(build, pl), IsChain(pl, q, c),
         Len(c) <= MAX_PENDING_PACKETS, NEW n \in Nat,
         NEW st, st = flush_queued_packets([pool |-> pl, queue |-> q], n)
  PROVE  \E k : Pops(pl, c, k, st.pool, st.queue)
<1> DEFINE U == [pool : PoolSet, queue : QueueType]
           b == [pool |-> pl, queue |-> q]
           F == [a \in U |-> FlushOne(a)]
           R == [i \in 0..n |-> FlushRun(pl, c, i)]
           Is(r) == r = [i \in 0..n |-> IF i = 0 THEN b ELSE flush_queued_packet(r[i - 1], TRUE)]
           One(r) == r = [i \in 0..n |-> IF i = 0 THEN b ELSE FlushOne(r[i - 1])]
<1>1. b \in R[0]
  <2>1. Pops(pl, c, 0, pl, q) /\ pl \in PoolSet /\ q \in QueueType
    BY PopsZero, PoolType DEF IsChain
  <2>2. b \in U /\ b.pool = pl /\ b.queue = q
    BY <2>1
  <2> HIDE DEF b, U
  <2>3. b \in FlushRun(pl, c, 0)
    BY <2>1, <2>2 DEF FlushRun, U
  <2> QED  BY <2>3
<1>2. ASSUME NEW i \in 1..n, NEW a \in R[i - 1]
      PROVE  FlushOne(a) \in R[i] /\ F[a] = FlushOne(a)
  <2>1. i - 1 \in 0..n /\ i \in 0..n /\ i \in Nat \ {0}
    OBVIOUS
  <2>2. a \in FlushRun(pl, c, i - 1)
    BY <2>1
  <2>3. FlushOne(a) \in FlushRun(pl, c, i) /\ a \in U
    BY <2>1, <2>2, FlushAdvances DEF FlushRun
  <2> QED  BY <2>1, <2>3
<1>3. \A i \in 1..n : \A a \in R[i - 1] : F[a] \in R[i]
  BY <1>2
<1>4. R[n] = FlushRun(pl, c, n)
  OBVIOUS
<1> HIDE DEF F, R, b, U
<1>5. PICK g : Loops(g, n, b, F) /\ \A i \in 0..n : g[i] \in R[i]
  BY <1>1, <1>3, LoopRuns
<1>6. One(g)
  <2>1. ASSUME NEW i \in 0..n, i # 0 PROVE F[g[i - 1]] = FlushOne(g[i - 1])
    <3>1. i - 1 \in 0..n /\ i \in 1..n
      BY <2>1
    <3> QED  BY <1>2, <1>5, <3>1
  <2> QED  BY <1>5, <2>1 DEF Loops
<1> DEFINE r == CHOOSE s : Is(s)
<1>7. ASSUME NEW s PROVE Is(s) <=> One(s)
  <2>1. \A i \in 0..n : flush_queued_packet(s[i - 1], TRUE) = FlushOne(s[i - 1])
    BY FlushSends
  <2> QED  BY <2>1
<1>8. st = flush_queued_packet(r[n], FALSE)
  BY DEF flush_queued_packets, b
<1>9. Is(r)
  <2>1. Is(g)
    BY <1>6, <1>7
  <2> HIDE DEF Is
  <2> QED  BY <2>1
<1> HIDE DEF r
<1>10. One(r)
  <2> HIDE DEF Is, One
  <2> QED  BY <1>7, <1>9
<1> HIDE DEF Is
<1>11. r[n] \in R[n]
  <2>1. r[0] = b /\ \A i \in 1..n : r[i] = FlushOne(r[i - 1])
    BY ONLY <1>10, n \in Nat
  <2>2. \A i \in 1..n : r[i - 1] \in R[i - 1] => r[i] \in R[i]
    BY <1>2, <2>1
  <2>3. \A i \in 0..n : r[i] \in R[i]
    BY <1>1, <2>1, <2>2, LoopInv
  <2> QED  BY <2>3
<1>12. PICK k : Pops(pl, c, k, r[n].pool, r[n].queue)
  BY <1>4, <1>11 DEF FlushRun
<1>13. PICK pm, qm : pm = r[n].pool /\ qm = r[n].queue
  OBVIOUS
<1>14. r[n] = [pool |-> pm, queue |-> qm]
  <2>1. r[n] \in [pool : PoolSet, queue : QueueType]
    BY <1>4, <1>11 DEF FlushRun
  <2> QED  BY ONLY <1>13, <2>1
<1>15. Pops(pl, c, k, pm, qm)
  BY ONLY <1>12, <1>13
<1>16. PICK d : d = Rest(c, k)
  OBVIOUS
<1>17. PoolOk(build, pm) /\ IsChain(pm, qm, d) /\ Len(d) = Len(c) - k /\ k \in Nat /\ Len(c) \in Nat
  BY <1>15, <1>16, PopsFacts
<1>18. Len(d) <= MAX_PENDING_PACKETS
  BY <1>17, Consts
<1>19. st = FlushLast([pool |-> pm, queue |-> qm])
  BY <1>8, <1>14, FlushKeeps
<1>20. Changes(build, pm, d, st.pool, st.queue, d) /\ PacketsOf(st.pool, d) = PacketsOf(pm, d)
  BY ONLY <1>17, <1>18, <1>19, FlushRequeues
<1> QED  BY <1>15, <1>16, <1>20, PopsKept
-----------------------------------------------------------------------------
(* Expiry.  Packets wait in the order they came, so the expired ones are    *)
(* the first of a list.                                                     *)

Old(packet) == now - packet.queued_at >= PENDING_PACKET_TTL

Sorted(s) == \A i, j \in 1..Len(s) : i <= j => s[i].queued_at <= s[j].queued_at

(* When the packets on a list were queued. *)
LEMMA PacketTimes ==
  ASSUME NEW bd, NEW pl, NEW q, NEW c, PoolOk(bd, pl), IsChain(pl, q, c)
  PROVE  /\ Len(PacketsOf(pl, c)) = Len(c) /\ Len(c) \in Nat
         /\ \A i \in 1..Len(c) : PacketsOf(pl, c)[i].queued_at \in Nat
<1>1. Len(PacketsOf(pl, c)) = Len(c) /\ Len(c) \in Nat
  BY PacketsType
<1>2. ASSUME NEW i \in 1..Len(c) PROVE PacketsOf(pl, c)[i].queued_at \in Nat
  <2>1. PacketsOf(pl, c)[i] = Packet(pl, c[i])
    BY DEF PacketsOf
  <2>2. pl.slots[c[i]].queued_at \in Nat
    BY LiveCell DEF IsChain
  <2> QED  BY <2>1, <2>2 DEF Packet
<1> QED  BY <1>1, <1>2

(* drop_expired_queued_packets after i iterations: either everything it has *)
(* seen was expired, or it walks over packets that are not.                 *)
DropRun(pl, c, i) ==
  {a \in [pool : PoolSet, queue : QueueType, prev : Nat, current : Nat] :
     \E k :
       /\ Pops(pl, c, k, a.pool, a.queue)
       /\ \A j \in 1..k : Old(PacketsOf(pl, c)[j])
       /\ \/ /\ a.prev = None /\ a.current = a.queue.head
             /\ k = Len(c) \/ k >= i
          \/ /\ k < Len(c) /\ ~Old(PacketsOf(pl, c)[k + 1])
             /\ a.current = None \/ \E j \in (k + 2)..Len(c) : a.current = c[j]}

(* The cursor moves over a packet that is kept. *)
LEMMA DropMoves ==
  ASSUME NEW pl, NEW q, NEW c, PoolOk(build, pl), IsChain(pl, q, c), NEW i \in Nat,
         NEW a \in [pool : PoolSet, queue : QueueType, prev : Nat, current : Nat],
         NEW k, Pops(pl, c, k, a.pool, a.queue),
         \A j \in 1..k : Old(PacketsOf(pl, c)[j]),
         k < Len(c), ~Old(PacketsOf(pl, c)[k + 1]),
         NEW j \in (k + 1)..Len(c), a.current = c[j], ~Old(PacketsOf(pl, c)[j])
  PROVE  DropStep(a) \in DropRun(pl, c, i)
<1>1. PICK pm, qm : pm = a.pool /\ qm = a.queue
  OBVIOUS
<1>0. Pops(pl, c, k, pm, qm)
  BY <1>1
<1>2. /\ k \in Nat /\ Len(c) \in Nat /\ j \in Nat
      /\ c[j] \in Live(pm) /\ Packet(pm, c[j]) = PacketsOf(pl, c)[j]
      /\ pm.slots[c[j]].next = IF j < Len(c) THEN c[j + 1] ELSE None
      /\ PoolOk(build, pm)
  <2>1. k \in Nat /\ Len(c) \in Nat /\ PoolOk(build, pm)
    BY <1>0, PopsFacts
  <2>2. \A m \in (k + 1)..Len(c) : c[m] \in Live(pm) /\ Packet(pm, c[m]) = PacketsOf(pl, c)[m]
    BY <1>0, PopsFacts
  <2>3. \A m \in (k + 1)..Len(c) : pm.slots[c[m]].next = IF m < Len(c) THEN c[m + 1] ELSE None
    BY ONLY <1>0, PoolOk(build, pl), IsChain(pl, q, c), PopsFacts
  <2> QED  BY <2>1, <2>2, <2>3
<1>3. c[j] # None /\ c[j] \in Nat /\ pm.slots[c[j]].next \in Nat
  BY <1>2, LiveCell
<1>4. ~Expired(pm.slots[c[j]])
  BY <1>2 DEF Packet, Old, Expired
<1>5. PICK nx : nx = pm.slots[c[j]].next
  OBVIOUS
<1>6. PICK b : b = [a EXCEPT !.prev = a.current, !.current = nx]
  OBVIOUS
<1>7. DropStep(a) = b
  BY <1>1, <1>3, <1>4, <1>5, <1>6 DEF DropStep
<1>8. /\ b \in [pool : PoolSet, queue : QueueType, prev : Nat, current : Nat]
      /\ b.pool = pm /\ b.queue = qm /\ b.current = nx
  BY <1>1, <1>3, <1>5, <1>6
<1>9. nx = None \/ \E m \in (k + 2)..Len(c) : nx = c[m]
  <2>1. CASE j < Len(c)
    <3>1. j + 1 \in (k + 2)..Len(c)
      BY <1>2, <2>1
    <3> QED  BY <1>2, <1>5, <2>1, <3>1
  <2>2. CASE ~(j < Len(c))
    BY <1>2, <1>5, <2>2
  <2> QED  BY <2>1, <2>2
<1>10. b \in DropRun(pl, c, i)
  BY <1>0, <1>8, <1>9 DEF DropRun
<1> QED  BY <1>7, <1>10

(* An iteration of drop_expired_queued_packets. *)
LEMMA DropAdvances ==
  ASSUME NEW pl, NEW q, NEW c, PoolOk(build, pl), IsChain(pl, q, c), Sorted(PacketsOf(pl, c)),
         now \in Nat, NEW i \in 1..N, NEW a \in DropRun(pl, c, i - 1)
  PROVE  DropStep(a) \in DropRun(pl, c, i)
<1>1. a \in [pool : PoolSet, queue : QueueType, prev : Nat, current : Nat] /\ i \in Nat
  BY DEF DropRun
<1>2. PICK k :
       /\ Pops(pl, c, k, a.pool, a.queue)
       /\ \A j \in 1..k : Old(PacketsOf(pl, c)[j])
       /\ \/ /\ a.prev = None /\ a.current = a.queue.head
             /\ k = Len(c) \/ k >= i - 1
          \/ /\ k < Len(c) /\ ~Old(PacketsOf(pl, c)[k + 1])
             /\ a.current = None \/ \E j \in (k + 2)..Len(c) : a.current = c[j]
  BY DEF DropRun
<1>3. PICK pm, qm : pm = a.pool /\ qm = a.queue
  OBVIOUS
<1>4. /\ Pops(pl, c, k, pm, qm) /\ k \in Nat /\ k <= Len(c) /\ Len(c) \in Nat
      /\ qm.head = None <=> k = Len(c)
      /\ k # Len(c) => qm.head = c[k + 1]
  BY <1>2, <1>3, PopsFacts
<1>5. CASE a.current = None
  <2>1. DropStep(a) = a
    BY <1>5 DEF DropStep
  <2>2. \/ a.prev = None /\ a.current = a.queue.head /\ k = Len(c)
        \/ k < Len(c) /\ ~Old(PacketsOf(pl, c)[k + 1])
    BY <1>2, <1>3, <1>4, <1>5
  <2>3. a \in DropRun(pl, c, i)
    BY <1>1, <1>2, <1>5, <2>2 DEF DropRun
  <2> QED  BY <2>1, <2>3
<1>6. CASE a.current # None /\ a.prev = None /\ a.current = a.queue.head /\ (k = Len(c) \/ k >= i - 1)
  <2>1. k # Len(c) /\ k < Len(c) /\ k + 1 \in (k + 1)..Len(c) /\ a.current = c[k + 1] /\ k >= i - 1
    BY <1>3, <1>4, <1>6
  <2>2. CASE ~Old(PacketsOf(pl, c)[k + 1])
    BY <1>1, <1>2, <2>1, <2>2, DropMoves
  <2>3. CASE Old(PacketsOf(pl, c)[k + 1])
    <3>1. PICK h : h = qm.head
      OBVIOUS
    <3>2. PICK px : px = free(set_next(pm, h, None), h)
      OBVIOUS
    <3>3. PICK nx : nx = pm.slots[h].next
      OBVIOUS
    <3>4. PICK qx : qx = [head |-> nx, tail |-> IF qm.tail = h THEN None ELSE qm.tail, len |-> qm.len - 1]
      OBVIOUS
    <3>5. h # None /\ Pops(pl, c, k + 1, px, qx)
      BY <1>4, <2>1, <3>1, <3>2, <3>3, <3>4, PopsMore
    <3>6. h = c[k + 1] /\ a.current = h
      BY <1>4, <2>1, <3>1
    <3>7. Packet(pm, h) = PacketsOf(pl, c)[k + 1]
      BY <1>4, <2>1, <3>6, PopsFacts
    <3>8. Expired(pm.slots[h])
      BY <2>3, <3>7 DEF Packet, Old, Expired
    <3>9. DropStep(a) = Unlink(a, nx)
      BY <1>3, <1>6, <3>3, <3>6, <3>8 DEF DropStep
    <3>10. PICK b : b = [pool |-> px, queue |-> qx, prev |-> None, current |-> nx]
      OBVIOUS
    <3>11. Unlink(a, nx) = b
      BY <1>3, <1>6, <3>2, <3>4, <3>6, <3>10 DEF Unlink
    <3>12. px \in PoolSet /\ qx \in QueueType /\ qx.head = nx
      BY <3>4, <3>5, PopsFacts
    <3>13. nx \in Nat /\ None \in Nat
      BY <3>12 DEF QueueType, None
    <3>14. /\ b \in [pool : PoolSet, queue : QueueType, prev : Nat, current : Nat]
           /\ b.pool = px /\ b.queue = qx /\ b.prev = None /\ b.current = qx.head
      BY <3>10, <3>12, <3>13
    <3>15. k + 1 >= i
      BY <1>1, <1>4, <2>1
    <3>16. \A j \in 1..(k + 1) : Old(PacketsOf(pl, c)[j])
      <4>1. ASSUME NEW j \in 1..(k + 1) PROVE j \in 1..k \/ j = k + 1
        BY <1>4
      <4> QED  BY <1>2, <2>3, <4>1
    <3>17. b \in DropRun(pl, c, i)
      BY <3>5, <3>14, <3>15, <3>16 DEF DropRun
    <3> QED  BY <3>9, <3>11, <3>17
  <2> QED  BY <2>2, <2>3
<1>7. CASE /\ k < Len(c) /\ ~Old(PacketsOf(pl, c)[k + 1])
           /\ \E j \in (k + 2)..Len(c) : a.current = c[j]
  <2>1. PICK j \in (k + 2)..Len(c) : a.current = c[j]
    BY <1>7
  <2>2. j \in (k + 1)..Len(c) /\ j \in 1..Len(c) /\ k + 1 \in 1..Len(c) /\ k + 1 <= j
    BY <1>4, <2>1
  <2>3. ~Old(PacketsOf(pl, c)[j])
    <3>1. PICK s : s = PacketsOf(pl, c)
      OBVIOUS
    <3>2. Len(s) = Len(c)
      BY <3>1, PacketTimes
    <3>3. s[j].queued_at \in Nat /\ s[k + 1].queued_at \in Nat
      BY <2>2, <3>1, PacketTimes
    <3>4. s[k + 1].queued_at <= s[j].queued_at
      BY <2>2, <3>1, <3>2 DEF Sorted
    <3>5. ~(now - s[k + 1].queued_at >= PENDING_PACKET_TTL)
      BY <1>7, <3>1 DEF Old
    <3>6. ~(now - s[j].queued_at >= PENDING_PACKET_TTL)
      BY <3>3, <3>4, <3>5, Consts
    <3> QED  BY <3>1, <3>6 DEF Old
  <2> QED  BY <1>1, <1>2, <1>7, <2>1, <2>2, <2>3, DropMoves
<1> QED  BY <1>2, <1>5, <1>6, <1>7
(* The first k packets of c were expired and are gone, the others stay. *)
Drops(pl, c, pm, qm) ==
  \E k : /\ Pops(pl, c, k, pm, qm)
         /\ \A j \in 1..k : Old(PacketsOf(pl, c)[j])
         /\ \A j \in (k + 1)..Len(c) : ~Old(PacketsOf(pl, c)[j])

(* What drop_expired_queued_packets does to a list. *)
LEMMA DropIs ==
  ASSUME NEW pl, NEW q, NEW c, PoolOk(build, pl), IsChain(pl, q, c), Sorted(PacketsOf(pl, c)),
         now \in Nat, NEW st, st = drop_expired_queued_packets(pl, q)
  PROVE  Drops(pl, c, st.pool, st.queue)
<1> DEFINE U == [pool : PoolSet, queue : QueueType, prev : Nat, current : Nat]
           b == [pool |-> pl, queue |-> q, prev |-> None, current |-> q.head]
           F == [a \in U |-> DropStep(a)]
           R == [i \in 0..N |-> DropRun(pl, c, i)]
           Is(r) == r = [i \in 0..N |-> IF i = 0 THEN b ELSE DropStep(r[i - 1])]
<1>0. N \in Nat /\ N >= 1
  BY Consts
<1>1. b \in R[0]
  <2>1. Pops(pl, c, 0, pl, q) /\ pl \in PoolSet /\ q \in QueueType
    BY PopsZero, PoolType DEF IsChain
  <2>2. q.head \in Nat /\ None \in Nat
    BY <2>1 DEF QueueType, None
  <2>3. b \in U /\ b.pool = pl /\ b.queue = q /\ b.prev = None /\ b.current = b.queue.head
    BY <2>1, <2>2
  <2> HIDE DEF b, U
  <2>4. b \in DropRun(pl, c, 0)
    BY <2>1, <2>3 DEF DropRun, U
  <2> QED  BY <1>0, <2>4
<1>2. ASSUME NEW i \in 1..N, NEW a \in R[i - 1]
      PROVE  DropStep(a) \in R[i] /\ F[a] = DropStep(a)
  <2>1. i - 1 \in 0..N /\ i \in 0..N
    BY <1>0
  <2>2. a \in DropRun(pl, c, i - 1)
    BY <2>1
  <2>3. DropStep(a) \in DropRun(pl, c, i)
    BY <2>2, DropAdvances
  <2>4. a \in U
    BY <2>2 DEF DropRun
  <2> QED  BY <2>1, <2>3, <2>4
<1>3. \A i \in 1..N : \A a \in R[i - 1] : F[a] \in R[i]
  BY <1>2
<1>4. R[N] = DropRun(pl, c, N)
  BY <1>0
<1> HIDE DEF F, R, b, U
<1>5. PICK g : Loops(g, N, b, F) /\ \A i \in 0..N : g[i] \in R[i]
  BY <1>0, <1>1, <1>3, LoopRuns
<1>6. Is(g)
  <2>1. ASSUME NEW i \in 0..N, i # 0 PROVE F[g[i - 1]] = DropStep(g[i - 1])
    <3>1. i - 1 \in 0..N /\ i \in 1..N
      BY <1>0, <2>1
    <3> QED  BY <1>2, <1>5, <3>1
  <2> QED  BY <1>5, <2>1 DEF Loops
<1> DEFINE r == CHOOSE s : Is(s)
<1>7. Is(r)
  BY <1>6
<1>8. st = r[N]
  BY DEF drop_expired_queued_packets, b
<1> HIDE DEF r
<1>9. r[N] \in R[N]
  <2>1. r[0] = b /\ \A i \in 1..N : r[i] = DropStep(r[i - 1])
    BY <1>0, <1>7
  <2>2. \A i \in 1..N : r[i - 1] \in R[i - 1] => r[i] \in R[i]
    BY <1>2, <2>1
  <2>3. \A i \in 0..N : r[i] \in R[i]
    BY <1>0, <1>1, <2>1, <2>2, LoopInv
  <2> QED  BY <1>0, <2>3
<1>10. st \in DropRun(pl, c, N)
  BY <1>4, <1>8, <1>9
<1>11. PICK k :
       /\ Pops(pl, c, k, st.pool, st.queue)
       /\ \A j \in 1..k : Old(PacketsOf(pl, c)[j])
       /\ k = Len(c) \/ k >= N \/ (k < Len(c) /\ ~Old(PacketsOf(pl, c)[k + 1]))
  BY <1>10 DEF DropRun
<1>12. k \in Nat /\ k <= Len(c) /\ Len(c) \in Nat /\ Len(c) <= N
  BY <1>11, PopsFacts, ChainShort
<1>13. ASSUME NEW j \in (k + 1)..Len(c) PROVE ~Old(PacketsOf(pl, c)[j])
  <2>1. k < Len(c) /\ ~Old(PacketsOf(pl, c)[k + 1])
    BY <1>0, <1>11, <1>12
  <2>2. j \in 1..Len(c) /\ k + 1 \in 1..Len(c) /\ k + 1 <= j
    BY <1>12, <2>1
  <2>3. PICK s : s = PacketsOf(pl, c)
    OBVIOUS
  <2>4. Len(s) = Len(c)
    BY <2>3, PacketTimes
  <2>5. s[j].queued_at \in Nat /\ s[k + 1].queued_at \in Nat
    BY <2>2, <2>3, PacketTimes
  <2>6. s[k + 1].queued_at <= s[j].queued_at
    BY <2>2, <2>3, <2>4 DEF Sorted
  <2>7. ~(now - s[k + 1].queued_at >= PENDING_PACKET_TTL)
    BY <2>1, <2>3 DEF Old
  <2>8. ~(now - s[j].queued_at >= PENDING_PACKET_TTL)
    BY <2>5, <2>6, <2>7, Consts
  <2> QED  BY <2>3, <2>8 DEF Old
<1> QED  BY <1>11, <1>13 DEF Drops
-----------------------------------------------------------------------------
(* Queues as sequences of packets. *)

PacketType == [payload : [name : Names, size : Sizes], queued_at : Nat]

(* The packets of s that wait at time t, in the order they came. *)
Waits(s, t) ==
  /\ s \in Seq(PacketType) /\ Sorted(s) /\ Len(s) <= MAX_PENDING_PACKETS
  /\ \A i \in 1..Len(s) : s[i].queued_at <= t

(* The first k packets have expired and no other. *)
Cut(s, k) ==
  /\ k \in 0..Len(s)
  /\ \A j \in 1..k : Old(s[j])
  /\ \A j \in (k + 1)..Len(s) : ~Old(s[j])

Left(s) == Rest(s, CHOOSE k : Cut(s, k))

(* A queue without its oldest packets is one. *)
LEMMA WaitsRest ==
  ASSUME NEW s, NEW t, Waits(s, t), NEW k \in 0..Len(s)
  PROVE  Waits(Rest(s, k), t)
<1>1. PICK n \in Nat : n = Len(s)
  BY DEF Waits
<1>2. k \in Nat /\ k <= n /\ n - k \in Nat
  BY <1>1
<1>3. /\ Rest(s, k) \in Seq(PacketType) /\ Len(Rest(s, k)) = n - k
      /\ \A i \in 1..(n - k) : Rest(s, k)[i] = s[i + k]
  BY <1>1, RestIs DEF Waits
<1>4. \A i \in 1..(n - k) : i + k \in 1..n
  BY <1>2
<1>5. \A i \in 1..(n - k) : Rest(s, k)[i].queued_at <= t
  BY <1>1, <1>3, <1>4 DEF Waits
<1>6. Sorted(Rest(s, k))
  <2>1. ASSUME NEW i \in 1..(n - k), NEW j \in 1..(n - k), i <= j
        PROVE  Rest(s, k)[i].queued_at <= Rest(s, k)[j].queued_at
    <3>1. i + k <= j + k /\ i + k \in 1..n /\ j + k \in 1..n
      BY <1>2, <2>1
    <3>2. s[i + k].queued_at <= s[j + k].queued_at
      BY <1>1, <3>1 DEF Waits, Sorted
    <3> QED  BY <1>3, <3>2
  <2> QED  BY <1>3, <2>1 DEF Sorted
<1>7. n - k <= MAX_PENDING_PACKETS
  BY <1>1, <1>2, Consts DEF Waits
<1> QED  BY <1>3, <1>5, <1>6, <1>7 DEF Waits

(* So is the empty one. *)
LEMMA WaitsNone == ASSUME NEW t PROVE Waits(<<>>, t)
  BY Consts DEF Waits, Sorted

(* And a queue with a new packet at its end. *)
LEMMA WaitsMore ==
  ASSUME NEW s, NEW t \in Nat, Waits(s, t), Len(s) < MAX_PENDING_PACKETS,
         NEW x \in PacketType, x.queued_at = t
  PROVE  Waits(Append(s, x), t)
<1>1. PICK n \in Nat : n = Len(s)
  BY DEF Waits
<1>2. PICK u : u = Append(s, x)
  OBVIOUS
<1>3. u \in Seq(PacketType) /\ Len(u) = n + 1 /\ u[n + 1] = x /\ \A i \in 1..n : u[i] = s[i]
  BY <1>1, <1>2 DEF Waits
<1>4. \A i \in 1..(n + 1) : i \in 1..n \/ i = n + 1
  OBVIOUS
<1>5. \A i \in 1..(n + 1) : u[i].queued_at <= t
  BY <1>1, <1>3, <1>4 DEF Waits
<1>6. Sorted(u)
  <2>1. ASSUME NEW i \in 1..(n + 1), NEW j \in 1..(n + 1), i <= j
        PROVE  u[i].queued_at <= u[j].queued_at
    <3>1. CASE j = n + 1
      BY <1>3, <1>5, <3>1
    <3>2. CASE j \in 1..n
      <4>1. i \in 1..n
        BY <2>1, <3>2
      <4>2. s[i].queued_at <= s[j].queued_at
        BY <1>1, <2>1, <3>2, <4>1 DEF Waits, Sorted
      <4> QED  BY <1>3, <3>2, <4>1, <4>2
    <3> QED  BY <1>4, <3>1, <3>2
  <2> QED  BY <1>3, <2>1 DEF Sorted
<1>7. n + 1 <= MAX_PENDING_PACKETS
  BY <1>1, Consts
<1> QED  BY <1>2, <1>3, <1>5, <1>6, <1>7 DEF Waits

(* There is one place where a queue can be cut. *)
LEMMA LeftIs ==
  ASSUME NEW s, NEW T, s \in Seq(T), NEW k, Cut(s, k)
  PROVE  Left(s) = Rest(s, k)
<1> DEFINE m == CHOOSE j : Cut(s, j)
<1>1. Cut(s, m)
  OBVIOUS
<1>2. Left(s) = Rest(s, m)
  BY DEF Left
<1> HIDE DEF m
<1>3. Len(s) \in Nat /\ k \in Nat /\ m \in Nat /\ k <= Len(s) /\ m <= Len(s)
  BY <1>1 DEF Cut
<1>4. ~(k < m)
  <2>1. SUFFICES ASSUME k < m PROVE FALSE
    OBVIOUS
  <2>2. m \in 1..m /\ m \in (k + 1)..Len(s)
    BY <1>3, <2>1
  <2> QED  BY <1>1, <2>2 DEF Cut
<1>5. ~(m < k)
  <2>1. SUFFICES ASSUME m < k PROVE FALSE
    OBVIOUS
  <2>2. k \in 1..k /\ k \in (m + 1)..Len(s)
    BY <1>3, <2>1
  <2> QED  BY <1>1, <2>2 DEF Cut
<1> QED  BY <1>2, <1>3, <1>4, <1>5

(* The expired packets of a queue are its first ones. *)
LEMMA CutExists ==
  ASSUME NEW s, NEW t, Waits(s, t), now \in Nat
  PROVE  \E k : Cut(s, k)
<1>1. PICK n \in Nat : n = Len(s)
  BY DEF Waits
<1> DEFINE Good == {i \in 1..n : ~Old(s[i])}
<1>2. CASE Good = {}
  <2>1. \A i \in 1..n : Old(s[i])
    BY <1>2
  <2>2. n \in 0..Len(s) /\ (n + 1)..Len(s) = {}
    BY <1>1
  <2> QED  BY <1>1, <2>1, <2>2 DEF Cut
<1>3. CASE Good # {}
  <2>1. Good \in SUBSET Nat
    OBVIOUS
  <2>2. PICK m \in Good : \A i \in Good : m <= i
    BY <1>3, <2>1, HasLeast
  <2>3. m \in 1..n /\ ~Old(s[m])
    OBVIOUS
  <2>4. PICK k \in Nat : m = k + 1 /\ k \in 0..Len(s)
    <3>1. m - 1 \in Nat /\ m = (m - 1) + 1 /\ m - 1 \in 0..Len(s)
      BY <1>1, <2>3
    <3> QED  BY <3>1
  <2>5. ASSUME NEW j \in 1..k PROVE Old(s[j])
    <3>1. j \in 1..n /\ ~(m <= j)
      BY <1>1, <2>4
    <3> QED  BY <2>2, <3>1
  <2>6. ASSUME NEW j \in (k + 1)..Len(s) PROVE ~Old(s[j])
    <3>1. j \in 1..n /\ m <= j /\ s \in Seq(PacketType)
      BY <1>1, <2>4 DEF Waits
    <3>2. s[m].queued_at <= s[j].queued_at
      BY <1>1, <2>3, <3>1 DEF Waits, Sorted
    <3>3. s[m] \in PacketType /\ s[j] \in PacketType
      BY <1>1, <2>3, <3>1
    <3>4. s[m].queued_at \in Nat /\ s[j].queued_at \in Nat
      BY <3>3 DEF PacketType
    <3>5. ~(now - s[m].queued_at >= PENDING_PACKET_TTL)
      BY <2>3 DEF Old
    <3>6. ~(now - s[j].queued_at >= PENDING_PACKET_TTL)
      BY <3>2, <3>4, <3>5, Consts
    <3> QED  BY <3>6 DEF Old
  <2> QED  BY <2>4, <2>5, <2>6 DEF Cut
<1> QED  BY <1>2, <1>3

(* Sweeping a queue twice is the same as sweeping it once. *)
LEMMA LeftFacts ==
  ASSUME NEW s, NEW t, Waits(s, t), now \in Nat
  PROVE  /\ Waits(Left(s), t) /\ Left(Left(s)) = Left(s)
         /\ \A i \in 1..Len(Left(s)) : ~Old(Left(s)[i])
<1>1. PICK k : Cut(s, k)
  BY CutExists
<1>2. s \in Seq(PacketType) /\ Len(s) \in Nat /\ k \in 0..Len(s) /\ k \in Nat
  BY <1>1 DEF Waits, Cut
<1>3. Left(s) = Rest(s, k)
  BY <1>1, <1>2, LeftIs
<1>4. PICK u : u = Rest(s, k)
  OBVIOUS
<1>5. /\ u \in Seq(PacketType) /\ Len(u) = Len(s) - k
      /\ \A i \in 1..(Len(s) - k) : u[i] = s[i + k]
  BY <1>2, <1>4, RestIs
<1>6. ASSUME NEW i \in 1..Len(u) PROVE ~Old(u[i])
  <2>1. i \in 1..(Len(s) - k) /\ i + k \in (k + 1)..Len(s)
    BY <1>2, <1>5
  <2> QED  BY <1>1, <1>5, <2>1 DEF Cut
<1>7. Left(u) = u
  <2>1. Cut(u, 0)
    BY <1>5, <1>6 DEF Cut
  <2>2. Left(u) = Rest(u, 0)
    BY <1>5, <2>1, LeftIs
  <2> QED  BY <1>5, <2>2, RestZero
<1>8. Waits(u, t)
  BY <1>2, <1>4, WaitsRest
<1> QED  BY <1>3, <1>4, <1>6, <1>7, <1>8

(* An empty queue stays empty. *)
LEMMA LeftNone == Left(<<>>) = <<>>
<1>1. Cut(<<>>, 0)
  BY DEF Cut
<1>2. <<>> \in Seq(PacketType)
  OBVIOUS
<1>3. Left(<<>>) = Rest(<<>>, 0)
  BY <1>1, <1>2, LeftIs
<1> QED  BY <1>2, <1>3, RestZero
-----------------------------------------------------------------------------
(* All the lists of the table: the live descriptors are those of the lists  *)
(* cs and those in lk, each on one list.                                    *)

Holds(bd, pl, qs, cs, lk) ==
  /\ PoolOk(bd, pl) /\ qs \in [Peer -> QueueType] /\ cs \in [Peer -> Seq(Nat)]
  /\ \A p \in Peer : IsChain(pl, qs[p], cs[p])
  /\ \A p, r \in Peer : p # r => Cells(cs[p]) \cap Cells(cs[r]) = {}
  /\ \A p \in Peer : Cells(cs[p]) \cap lk = {}
  /\ Live(pl) = lk \cup UNION {Cells(cs[p]) : p \in Peer}

(* The packets on the lists are A. *)
Contents(pl, cs) == [p \in Peer |-> PacketsOf(pl, cs[p])]

Shows(bd, pl, qs, lk, A) == \E cs : Holds(bd, pl, qs, cs, lk) /\ A = Contents(pl, cs)

(* An operation on one list leaves the others alone. *)
LEMMA Lift ==
  ASSUME NEW bd, NEW pl, NEW qs, NEW cs, NEW lk, Holds(bd, pl, qs, cs, lk), NEW p \in Peer,
         NEW pm, NEW qm, NEW cm, Changes(bd, pl, cs[p], pm, qm, cm),
         NEW A, A = Contents(pl, cs),
         NEW s, s = PacketsOf(pm, cm),
         NEW qn, qn = [qs EXCEPT ![p] = qm], NEW B, B = [A EXCEPT ![p] = s]
  PROVE  Shows(bd, pm, qn, lk, B)
<1>2. PICK cn : cn = [cs EXCEPT ![p] = cm]
  OBVIOUS
<1>3. /\ PoolOk(bd, pm) /\ IsChain(pm, qm, cm)
      /\ Live(pm) = (Live(pl) \ Cells(cs[p])) \cup Cells(cm)
      /\ Cells(cm) \cap (Live(pl) \ Cells(cs[p])) = {}
      /\ \A g \in Live(pl) \ Cells(cs[p]) : pm.slots[g] = pl.slots[g]
  BY DEF Changes
<1>4. /\ qs \in [Peer -> QueueType] /\ cs \in [Peer -> Seq(Nat)]
      /\ \A r \in Peer : IsChain(pl, qs[r], cs[r])
      /\ \A r, u \in Peer : r # u => Cells(cs[r]) \cap Cells(cs[u]) = {}
      /\ \A r \in Peer : Cells(cs[r]) \cap lk = {}
      /\ Live(pl) = lk \cup UNION {Cells(cs[r]) : r \in Peer}
  BY DEF Holds
<1>5. qm \in QueueType /\ cm \in Seq(Nat)
  BY <1>3 DEF IsChain
<1>6. /\ qn \in [Peer -> QueueType] /\ cn \in [Peer -> Seq(Nat)]
      /\ qn[p] = qm /\ cn[p] = cm
      /\ \A r \in Peer : r # p => qn[r] = qs[r] /\ cn[r] = cs[r]
  BY <1>2, <1>4, <1>5
<1>7. ASSUME NEW r \in Peer, r # p
      PROVE  /\ IsChain(pm, qs[r], cs[r]) /\ PacketsOf(pm, cs[r]) = PacketsOf(pl, cs[r])
             /\ Cells(cs[r]) \subseteq Live(pl) \ Cells(cs[p])
  <2>1. Cells(cs[r]) \subseteq Live(pl) \ Cells(cs[p])
    BY <1>4, <1>7
  <2>2. PICK c : c = cs[r]
    OBVIOUS
  <2>3. IsChain(pl, qs[r], c)
    BY <1>4, <2>2
  <2>4. \A i \in 1..Len(c) : c[i] \in Cells(c)
    BY DEF Cells
  <2>5. \A i \in 1..Len(c) : c[i] \in Live(pm) /\ pm.slots[c[i]] = pl.slots[c[i]]
    BY <1>3, <2>1, <2>2, <2>4
  <2>6. IsChain(pm, qs[r], c)
    BY <2>3, <2>5 DEF IsChain
  <2>7. \A i \in 1..Len(c) : Packet(pm, c[i]) = Packet(pl, c[i])
    BY <2>5 DEF Packet
  <2>8. PacketsOf(pm, c) = PacketsOf(pl, c)
    BY <2>7 DEF PacketsOf
  <2> QED  BY <2>1, <2>2, <2>6, <2>8
<1>8. \A r \in Peer : IsChain(pm, qn[r], cn[r])
  BY <1>3, <1>6, <1>7
<1>9. ASSUME NEW r \in Peer, NEW u \in Peer, r # u PROVE Cells(cn[r]) \cap Cells(cn[u]) = {}
  <2>1. CASE r = p
    <3>1. Cells(cs[u]) \subseteq Live(pl) \ Cells(cs[p]) /\ cn[r] = cm /\ cn[u] = cs[u]
      BY <1>6, <1>7, <1>9, <2>1
    <3> QED  BY <1>3, <3>1
  <2>2. CASE u = p
    <3>1. Cells(cs[r]) \subseteq Live(pl) \ Cells(cs[p]) /\ cn[u] = cm /\ cn[r] = cs[r]
      BY <1>6, <1>7, <1>9, <2>2
    <3> QED  BY <1>3, <3>1
  <2>3. CASE r # p /\ u # p
    BY <1>4, <1>6, <1>9, <2>3
  <2> QED  BY <2>1, <2>2, <2>3
<1>10. ASSUME NEW r \in Peer PROVE Cells(cn[r]) \cap lk = {}
  <2>1. CASE r = p
    <3>1. lk \subseteq Live(pl) \ Cells(cs[p])
      BY <1>4
    <3> QED  BY <1>3, <1>6, <2>1, <3>1
  <2>2. CASE r # p
    BY <1>4, <1>6, <2>2
  <2> QED  BY <2>1, <2>2
<1>11. Live(pm) = lk \cup UNION {Cells(cn[r]) : r \in Peer}
  <2>1. ASSUME NEW h \in Live(pm) PROVE h \in lk \/ \E r \in Peer : h \in Cells(cn[r])
    <3>1. CASE h \in Cells(cm)
      BY <1>6, <3>1
    <3>2. CASE h \notin Cells(cm)
      <4>1. h \in Live(pl) /\ h \notin Cells(cs[p])
        BY <1>3, <3>2
      <4>2. h \in lk \/ \E r \in Peer : h \in Cells(cs[r])
        BY <1>4, <4>1
      <4> QED  BY <1>6, <4>1, <4>2
    <3> QED  BY <3>1, <3>2
  <2>2. lk \subseteq Live(pm)
    BY <1>3, <1>4
  <2>3. ASSUME NEW r \in Peer PROVE Cells(cn[r]) \subseteq Live(pm)
    <3>1. CASE r = p
      BY <1>3, <1>6, <3>1
    <3>2. CASE r # p
      BY <1>3, <1>6, <1>7, <3>2
    <3> QED  BY <3>1, <3>2
  <2> QED  BY <2>1, <2>2, <2>3
<1>12. Holds(bd, pm, qn, cn, lk)
  BY <1>3, <1>6, <1>8, <1>9, <1>10, <1>11 DEF Holds
<1>13. B = Contents(pm, cn)
  <2>1. ASSUME NEW r \in Peer PROVE (IF r = p THEN s ELSE A[r]) = PacketsOf(pm, cn[r])
    <3>1. CASE r = p
      BY <1>6, <3>1
    <3>2. CASE r # p
      BY <1>6, <1>7, <3>2 DEF Contents
    <3> QED  BY <3>1, <3>2
  <2>2. B = [r \in Peer |-> IF r = p THEN s ELSE A[r]]
    BY DEF Contents
  <2> QED  BY <2>1, <2>2 DEF Contents
<1> QED  BY <1>12, <1>13 DEF Shows

(* The operations of a peer's queue, as what they do to its packets. *)
LEMMA ShowsPops ==
  ASSUME NEW pl, NEW qs, NEW cs, NEW lk, Holds(build, pl, qs, cs, lk), NEW p \in Peer,
         NEW A, A = Contents(pl, cs),
         NEW k, NEW pm, NEW qm, Pops(pl, cs[p], k, pm, qm)
  PROVE  /\ k \in 0..Len(A[p])
         /\ Shows(build, pm, [qs EXCEPT ![p] = qm], lk, [A EXCEPT ![p] = Rest(A[p], k)])
<1>1. PICK c : c = cs[p]
  OBVIOUS
<1>2. A[p] = PacketsOf(pl, c)
  BY <1>1 DEF Contents
<1>3. PoolOk(build, pl) /\ IsChain(pl, qs[p], c)
  BY <1>1 DEF Holds
<1>4. Len(A[p]) = Len(c)
  BY <1>2, <1>3, PacketTimes
<1>5. /\ k \in 0..Len(c) /\ Changes(build, pl, c, pm, qm, Rest(c, k))
      /\ Rest(A[p], k) = PacketsOf(pm, Rest(c, k))
  BY <1>1, <1>2 DEF Pops
<1>6. PICK s, d : s = Rest(A[p], k) /\ d = Rest(c, k)
  OBVIOUS
<1>7. Changes(build, pl, cs[p], pm, qm, d) /\ s = PacketsOf(pm, d)
  BY <1>1, <1>5, <1>6
<1>8. PICK qn, B : qn = [qs EXCEPT ![p] = qm] /\ B = [A EXCEPT ![p] = s]
  OBVIOUS
<1>9. Shows(build, pm, qn, lk, B)
  BY <1>7, <1>8, Lift
<1> QED  BY <1>4, <1>5, <1>6, <1>8, <1>9
(* The list and the packets of one peer. *)
LEMMA ShowsType ==
  ASSUME NEW pl, NEW qs, NEW cs, NEW lk, Holds(build, pl, qs, cs, lk), NEW p \in Peer,
         NEW A, A = Contents(pl, cs), NEW c, c = cs[p]
  PROVE  /\ A[p] = PacketsOf(pl, c) /\ PoolOk(build, pl) /\ IsChain(pl, qs[p], c)
         /\ Len(A[p]) = Len(c) /\ Len(c) \in Nat
<1>1. A[p] = PacketsOf(pl, c) /\ PoolOk(build, pl) /\ IsChain(pl, qs[p], c)
  BY DEF Holds, Contents
<1> QED  BY <1>1, PacketTimes

(* drop_expired_queued_packets: what has expired goes. *)
LEMMA ShowsDrop ==
  ASSUME NEW pl, NEW qs, NEW lk, NEW A, Shows(build, pl, qs, lk, A), NEW p \in Peer,
         now \in Nat, NEW t, Waits(A[p], t),
         NEW st, st = drop_expired_queued_packets(pl, qs[p])
  PROVE  Shows(build, st.pool, [qs EXCEPT ![p] = st.queue], lk, [A EXCEPT ![p] = Left(A[p])])
<1>1. PICK cs : Holds(build, pl, qs, cs, lk) /\ A = Contents(pl, cs)
  BY DEF Shows
<1>2. PICK c : c = cs[p]
  OBVIOUS
<1>3. /\ A[p] = PacketsOf(pl, c) /\ PoolOk(build, pl) /\ IsChain(pl, qs[p], c)
      /\ Len(A[p]) = Len(c) /\ Len(c) \in Nat
  BY <1>1, <1>2, ShowsType
<1>4. Sorted(PacketsOf(pl, c))
  BY <1>3 DEF Waits
<1>5. PICK pm, qm : pm = st.pool /\ qm = st.queue
  OBVIOUS
<1>6. Drops(pl, c, pm, qm)
  BY <1>3, <1>4, <1>5, DropIs
<1>7. PICK k : /\ Pops(pl, c, k, pm, qm)
               /\ \A j \in 1..k : Old(A[p][j])
               /\ \A j \in (k + 1)..Len(c) : ~Old(A[p][j])
  BY <1>3, <1>6 DEF Drops
<1>8. Pops(pl, cs[p], k, pm, qm)
  BY <1>2, <1>7
<1>9. /\ k \in 0..Len(A[p])
      /\ Shows(build, pm, [qs EXCEPT ![p] = qm], lk, [A EXCEPT ![p] = Rest(A[p], k)])
  BY <1>1, <1>8, ShowsPops
<1>10. Cut(A[p], k)
  BY <1>3, <1>7, <1>9 DEF Cut
<1>11. A[p] \in Seq(PacketType)
  BY DEF Waits
<1>12. Left(A[p]) = Rest(A[p], k)
  BY <1>10, <1>11, LeftIs
<1> QED  BY <1>5, <1>9, <1>12

(* free_chain and a new head: every packet goes. *)
LEMMA ShowsClear ==
  ASSUME NEW pl, NEW qs, NEW lk, NEW A, Shows(build, pl, qs, lk, A), NEW p \in Peer,
         NEW pm, pm = free_chain(pl, qs[p].head)
  PROVE  Shows(build, pm, [qs EXCEPT ![p] = EmptyQueue], lk, [A EXCEPT ![p] = <<>>])
<1>1. PICK cs : Holds(build, pl, qs, cs, lk) /\ A = Contents(pl, cs)
  BY DEF Shows
<1>2. PICK c : c = cs[p]
  OBVIOUS
<1>3. /\ A[p] = PacketsOf(pl, c) /\ PoolOk(build, pl) /\ IsChain(pl, qs[p], c)
      /\ Len(A[p]) = Len(c) /\ Len(c) \in Nat
  BY <1>1, <1>2, ShowsType
<1>4. PICK q : q = qs[p]
  OBVIOUS
<1>5. PoolOk(build, pl) /\ IsChain(pl, q, c)
  BY <1>3, <1>4
<1>6. Pops(pl, c, Len(c), free_chain(pl, q.head), EmptyQueue)
  BY <1>5, FreeChainIs
<1>7. PICK k, e : k = Len(c) /\ e = EmptyQueue
  OBVIOUS
<1>8. Pops(pl, cs[p], k, pm, e)
  BY <1>2, <1>4, <1>6, <1>7
<1>9. Shows(build, pm, [qs EXCEPT ![p] = e], lk, [A EXCEPT ![p] = Rest(A[p], k)])
  BY <1>1, <1>8, ShowsPops
<1>10. Rest(A[p], k) = <<>>
  <2>1. 1..(Len(A[p]) - k) = {}
    BY <1>3, <1>7
  <2> QED  BY <2>1 DEF Rest
<1> QED  BY <1>7, <1>9, <1>10

(* flush_queued_packets: the oldest packets go. *)
LEMMA ShowsFlush ==
  ASSUME NEW pl, NEW qs, NEW lk, NEW A, Shows(build, pl, qs, lk, A), NEW p \in Peer,
         NEW t, Waits(A[p], t), NEW n \in Nat,
         NEW st, st = flush_queued_packets([pool |-> pl, queue |-> qs[p]], n)
  PROVE  \E k \in 0..Len(A[p]) :
            Shows(build, st.pool, [qs EXCEPT ![p] = st.queue], lk, [A EXCEPT ![p] = Rest(A[p], k)])
<1>1. PICK cs : Holds(build, pl, qs, cs, lk) /\ A = Contents(pl, cs)
  BY DEF Shows
<1>2. PICK c : c = cs[p]
  OBVIOUS
<1>3. /\ A[p] = PacketsOf(pl, c) /\ PoolOk(build, pl) /\ IsChain(pl, qs[p], c)
      /\ Len(A[p]) = Len(c) /\ Len(c) \in Nat
  BY <1>1, <1>2, ShowsType
<1>4. PICK q : q = qs[p]
  OBVIOUS
<1>5. PoolOk(build, pl) /\ IsChain(pl, q, c) /\ Len(c) <= MAX_PENDING_PACKETS
  BY <1>3, <1>4 DEF Waits
<1>6. st = flush_queued_packets([pool |-> pl, queue |-> q], n)
  BY <1>4
<1>7. PICK k : Pops(pl, c, k, st.pool, st.queue)
  BY <1>5, <1>6, FlushIs
<1>8. PICK pm, qm : pm = st.pool /\ qm = st.queue
  OBVIOUS
<1>9. Pops(pl, cs[p], k, pm, qm)
  BY <1>2, <1>7, <1>8
<1>10. /\ k \in 0..Len(A[p])
       /\ Shows(build, pm, [qs EXCEPT ![p] = qm], lk, [A EXCEPT ![p] = Rest(A[p], k)])
  BY <1>1, <1>9, ShowsPops
<1> QED  BY <1>8, <1>10

(* queue_packet: what has expired goes, then the packet is refused or is    *)
(* the last one of the queue.                                               *)
LEMMA ShowsQueue ==
  ASSUME NEW pl, NEW qs, NEW lk, NEW A, Shows(build, pl, qs, lk, A), NEW p \in Peer,
         now \in Nat, NEW t, Waits(A[p], t), NEW name \in Names, NEW size \in Sizes,
         NEW st, st = queue_packet([pool |-> pl, queue |-> qs[p]], name, size),
         NEW x, x = [payload |-> [name |-> name, size |-> size], queued_at |-> now]
  PROVE  \/ Shows(build, st.pool, [qs EXCEPT ![p] = st.queue], lk, [A EXCEPT ![p] = Left(A[p])])
         \/ /\ Len(Left(A[p])) < MAX_PENDING_PACKETS
            /\ Shows(build, st.pool, [qs EXCEPT ![p] = st.queue], lk,
                     [A EXCEPT ![p] = Append(Left(A[p]), x)])
<1>1. PICK cs : Holds(build, pl, qs, cs, lk) /\ A = Contents(pl, cs)
  BY DEF Shows
<1>2. PICK c : c = cs[p]
  OBVIOUS
<1>3. /\ A[p] = PacketsOf(pl, c) /\ PoolOk(build, pl) /\ IsChain(pl, qs[p], c)
      /\ Len(A[p]) = Len(c) /\ Len(c) \in Nat
  BY <1>1, <1>2, ShowsType
<1>4. PICK kept : kept = drop_expired_queued_packets(pl, qs[p])
  OBVIOUS
<1>5. CASE kept.queue.len >= MAX_PENDING_PACKETS \/ ~CanAlloc(kept.pool, size)
  <2>1. st = kept
    BY <1>4, <1>5 DEF queue_packet
  <2> QED  BY <1>4, <2>1, ShowsDrop
<1>6. CASE ~(kept.queue.len >= MAX_PENDING_PACKETS \/ ~CanAlloc(kept.pool, size))
  <2>1. PICK pm, qm : pm = kept.pool /\ qm = kept.queue
    OBVIOUS
  <2>2. Drops(pl, c, pm, qm)
    <3>1. Sorted(PacketsOf(pl, c))
      BY <1>3 DEF Waits
    <3> QED  BY <1>3, <1>4, <2>1, <3>1, DropIs
  <2>3. PICK k : /\ Pops(pl, c, k, pm, qm)
                 /\ \A j \in 1..k : Old(A[p][j])
                 /\ \A j \in (k + 1)..Len(c) : ~Old(A[p][j])
    BY <1>3, <2>2 DEF Drops
  <2>4. PICK d : d = Rest(c, k)
    OBVIOUS
  <2>5. /\ PoolOk(build, pm) /\ IsChain(pm, qm, d) /\ Changes(build, pl, c, pm, qm, d)
        /\ PacketsOf(pm, d) = Rest(A[p], k) /\ k \in 0..Len(A[p])
    BY <1>3, <2>3, <2>4 DEF Pops, Changes
  <2>6. Left(A[p]) = Rest(A[p], k)
    <3>1. Cut(A[p], k)
      BY <1>3, <2>3, <2>5 DEF Cut
    <3>2. A[p] \in Seq(PacketType)
      BY DEF Waits
    <3> QED  BY <3>1, <3>2, LeftIs
  <2>7. PICK pa, h : pa = alloc(pm, name, size) /\ h = free_slot(pm)
    OBVIOUS
  <2>8. PoolOk(build, pa) /\ Allocs(pm, pa, h, name, size, now)
    <3>1. CanAlloc(pm, size)
      BY <1>6, <2>1
    <3> QED  BY <2>5, <2>7, <3>1, AllocOk
  <2>9. st = push_back([pool |-> pa, queue |-> qm], h)
    BY <1>4, <1>6, <2>1, <2>7 DEF queue_packet
  <2>10. PICK e : e = Append(d, h)
    OBVIOUS
  <2>11. PICK pz, qz : pz = st.pool /\ qz = st.queue
    OBVIOUS
  <2>12. /\ Changes(build, pm, d, st.pool, st.queue, Append(d, h))
         /\ PacketsOf(st.pool, Append(d, h)) = Append(PacketsOf(pm, d), x)
    <3>1. LET w == push_back([pool |-> pa, queue |-> qm], h)
          IN  /\ Changes(build, pm, d, w.pool, w.queue, Append(d, h))
              /\ PacketsOf(w.pool, Append(d, h)) =
                   Append(PacketsOf(pm, d), [payload |-> [name |-> name, size |-> size],
                                             queued_at |-> now])
      BY ONLY <2>5, <2>8, PushBack
    <3> QED  BY <2>9, <3>1
  <2>13. Changes(build, pm, d, pz, qz, e) /\ PacketsOf(pz, e) = Append(Left(A[p]), x)
    BY <2>5, <2>6, <2>10, <2>11, <2>12
  <2>14. Changes(build, pl, cs[p], pz, qz, e)
    BY <1>2, <2>5, <2>13, ChangesTwice
  <2>15. PICK qn, B, s : qn = [qs EXCEPT ![p] = qz] /\ s = Append(Left(A[p]), x) /\ B = [A EXCEPT ![p] = s]
    OBVIOUS
  <2>16. s = PacketsOf(pz, e)
    BY <2>13, <2>15
  <2>17. Shows(build, pz, qn, lk, B)
    BY <1>1, <2>14, <2>15, <2>16, Lift
  <2>18. Len(Left(A[p])) < MAX_PENDING_PACKETS
    <3>1. Len(PacketsOf(pm, d)) = Len(d) /\ qm.len = Len(d) /\ Len(d) \in Nat
      BY <2>5, PacketTimes DEF IsChain
    <3>2. ~(qm.len >= MAX_PENDING_PACKETS)
      BY <1>6, <2>1
    <3> QED  BY <2>5, <2>6, <3>1, <3>2, Consts
  <2> QED  BY <2>11, <2>15, <2>17, <2>18
<1> QED  BY <1>5, <1>6
-----------------------------------------------------------------------------
(* The loops over the peers. *)

PoolState == [pool : PoolSet, queue : [Peer -> QueueType]]

(* The pool and the heads of the lists have their types. *)
LEMMA ShowsPool ==
  ASSUME NEW pl, NEW qs, NEW lk, NEW A, Shows(build, pl, qs, lk, A)
  PROVE  pl \in PoolSet /\ qs \in [Peer -> QueueType] /\ A = [p \in Peer |-> A[p]]
<1>1. PICK cs : Holds(build, pl, qs, cs, lk) /\ A = Contents(pl, cs)
  BY DEF Shows
<1>2. PoolOk(build, pl) /\ qs \in [Peer -> QueueType]
  BY <1>1 DEF Holds
<1>3. A = [p \in Peer |-> A[p]]
  BY <1>1 DEF Contents
<1> QED  BY <1>2, <1>3, PoolType

(* The queues of s have been swept. *)
Partly(A, s) == [p \in Peer |-> IF p \in s THEN Left(A[p]) ELSE A[p]]

SweepRun(lk, A, s) ==
  {a \in PoolState : Shows(build, a.pool, a.queue, lk, Partly(A, s))}

(* One queue more is swept. *)
LEMMA SweepAdvances ==
  ASSUME NEW lk, NEW A, now \in Nat, NEW t, \A p \in Peer : Waits(A[p], t),
         NEW s \in SUBSET Peer, NEW x \in Peer, x \notin s, NEW a \in SweepRun(lk, A, s)
  PROVE  DropInto(x, a) \in SweepRun(lk, A, s \cup {x})
<1>1. PICK pl, qs : pl = a.pool /\ qs = a.queue
  OBVIOUS
<1>2. PICK B : B = Partly(A, s)
  OBVIOUS
<1>3. Shows(build, pl, qs, lk, B)
  BY <1>1, <1>2 DEF SweepRun
<1>4. B[x] = A[x] /\ Waits(B[x], t)
  BY <1>2 DEF Partly
<1>5. PICK kept : kept = drop_expired_queued_packets(pl, qs[x])
  OBVIOUS
<1>6. PICK pm, qn, C : pm = kept.pool /\ qn = [qs EXCEPT ![x] = kept.queue] /\ C = [B EXCEPT ![x] = Left(B[x])]
  OBVIOUS
<1>7. Shows(build, pm, qn, lk, C)
  <2>1. Shows(build, kept.pool, [qs EXCEPT ![x] = kept.queue], lk, [B EXCEPT ![x] = Left(B[x])])
    BY <1>3, <1>4, <1>5, ShowsDrop
  <2> QED  BY <1>6, <2>1
<1>8. C = Partly(A, s \cup {x})
  BY <1>2, <1>4, <1>6 DEF Partly
<1>9. PICK b : b = [pool |-> pm, queue |-> qn]
  OBVIOUS
<1>10. DropInto(x, a) = b
  BY <1>1, <1>5, <1>6, <1>9 DEF DropInto
<1>11. b \in PoolState /\ b.pool = pm /\ b.queue = qn
  BY <1>7, <1>9, ShowsPool DEF PoolState
<1>12. b \in SweepRun(lk, A, s \cup {x})
  BY <1>7, <1>8, <1>11 DEF SweepRun
<1> QED  BY <1>10, <1>12

(* drop_expired_packet_queues sweeps every queue of the device. *)
LEMMA SweepIs ==
  ASSUME installed \in SUBSET Peer, now \in Nat, NEW acc \in PoolState, NEW lk, NEW A,
         Shows(build, acc.pool, acc.queue, lk, A), NEW t, \A p \in Peer : Waits(A[p], t)
  PROVE  drop_expired_packet_queues(acc) \in SweepRun(lk, A, installed)
<1> DEFINE F == [xa \in Peer \X PoolState |-> DropInto(xa[1], xa[2])]
           R == [s \in SUBSET installed |-> SweepRun(lk, A, s)]
           Is(g) == g = [s \in SUBSET installed |->
                           IF s = {} THEN acc ELSE DropInto(First(s), g[s \ {First(s)}])]
<1>0. IsFiniteSet(installed)
  BY PoolAssumption, FS_Subset
<1>1. acc \in R[{}]
  <2>1. Partly(A, {}) = A
    <3>1. Partly(A, {}) = [p \in Peer |-> A[p]]
      BY DEF Partly
    <3>2. PICK pl, qs : pl = acc.pool /\ qs = acc.queue
      OBVIOUS
    <3>3. Shows(build, pl, qs, lk, A)
      BY <3>2
    <3>4. A = [p \in Peer |-> A[p]]
      BY <3>3, ShowsPool
    <3> QED  BY <3>1, <3>4
  <2>2. acc \in SweepRun(lk, A, {})
    BY <2>1 DEF SweepRun
  <2> QED  BY <2>2
<1>2. ASSUME NEW x \in Peer, NEW a \in PoolState PROVE F[<<x, a>>] = DropInto(x, a)
  <2>1. <<x, a>> \in Peer \X PoolState /\ <<x, a>>[1] = x /\ <<x, a>>[2] = a
    OBVIOUS
  <2> QED  BY <2>1
<1>3. ASSUME NEW s \in SUBSET installed, NEW x \in installed, NEW a \in R[s], x \notin s
      PROVE  DropInto(x, a) \in R[s \cup {x}] /\ x \in Peer /\ a \in PoolState
  <2>1. s \in SUBSET Peer /\ x \in Peer /\ a \in SweepRun(lk, A, s)
    OBVIOUS
  <2>2. DropInto(x, a) \in SweepRun(lk, A, s \cup {x})
    BY <1>3, <2>1, SweepAdvances
  <2>3. a \in PoolState
    BY <2>1 DEF SweepRun
  <2> QED  BY <2>1, <2>2, <2>3
<1>4. \A s \in SUBSET installed : \A x \in installed : \A a \in R[s] :
        x \notin s => F[<<x, a>>] \in R[s \cup {x}]
  <2>1. SUFFICES ASSUME NEW s \in SUBSET installed, NEW x \in installed, NEW a \in R[s], x \notin s
                 PROVE  F[<<x, a>>] \in R[s \cup {x}]
    OBVIOUS
  <2> HIDE DEF F, R
  <2> QED  BY <1>2, <1>3, <2>1
<1>5. R[installed] = SweepRun(lk, A, installed)
  OBVIOUS
<1> HIDE DEF F, R
<1>6. PICK g : Folding(g, installed, acc, F) /\ \A s \in SUBSET installed : g[s] \in R[s]
  BY <1>0, <1>1, <1>4, FoldRuns
<1>7. Is(g)
  <2>1. ASSUME NEW s \in SUBSET installed, s # {}
        PROVE  F[<<First(s), g[s \ {First(s)}]>>] = DropInto(First(s), g[s \ {First(s)}])
    <3>1. PICK x, u : x = First(s) /\ u = s \ {First(s)}
      OBVIOUS
    <3>2. x \in installed /\ u \in SUBSET installed /\ x \notin u
      BY <2>1, <3>1 DEF First
    <3>3. g[u] \in R[u]
      BY <1>6, <3>2
    <3>4. x \in Peer /\ g[u] \in PoolState
      BY <1>3, <3>2, <3>3
    <3> QED  BY <1>2, <3>1, <3>4
  <2>2. g = [s \in SUBSET installed |-> IF s = {} THEN acc ELSE F[<<First(s), g[s \ {First(s)}]>>]]
    BY <1>6 DEF Folding
  <2> DEFINE G == [s \in SUBSET installed |-> IF s = {} THEN acc ELSE DropInto(First(s), g[s \ {First(s)}])]
  <2>3. ASSUME NEW s \in SUBSET installed PROVE g[s] = G[s]
    BY <2>1, <2>2
  <2>4. DOMAIN g = SUBSET installed /\ g = [s \in DOMAIN g |-> g[s]]
    BY <2>2
  <2>5. DOMAIN G = SUBSET installed /\ G = [s \in DOMAIN G |-> G[s]]
    OBVIOUS
  <2>6. g = G
    BY <2>3, <2>4, <2>5
  <2> QED  BY <2>6
<1> DEFINE h == CHOOSE r : Is(r)
<1>8. drop_expired_packet_queues(acc) = h[installed]
  BY DEF drop_expired_packet_queues, First, FoldSet, MapThenFoldSet
<1>9. Is(h)
  BY <1>7
<1> HIDE DEF h
<1>10. /\ h[{}] = acc
       /\ \A s \in SUBSET installed : s # {} => h[s] = DropInto(First(s), h[s \ {First(s)}])
  BY <1>9
<1>11. ASSUME NEW s \in SUBSET installed, s # {}, h[s \ {First(s)}] \in R[s \ {First(s)}]
       PROVE  h[s] \in R[s]
  <2>1. PICK x, u : x = First(s) /\ u = s \ {First(s)}
    OBVIOUS
  <2>2. x \in installed /\ u \in SUBSET installed /\ x \notin u /\ u \cup {x} = s
    BY <1>11, <2>1 DEF First
  <2>3. DropInto(x, h[u]) \in R[u \cup {x}]
    BY <1>3, <1>11, <2>1, <2>2
  <2> QED  BY <1>10, <1>11, <2>1, <2>2, <2>3
<1>12. \A s \in SUBSET installed : h[s] \in R[s]
  <2>1. h[{}] \in R[{}]
    BY <1>1, <1>10
  <2> QED  BY <1>0, <1>11, <2>1, FoldInv
<1> QED  BY <1>5, <1>8, <1>12
AllLeft(A) == [p \in Peer |-> Left(A[p])]

(* The packets of a peer the device does not have are none. *)
Fine(A, t) ==
  /\ \A p \in Peer : Waits(A[p], t)
  /\ \A p \in Peer \ installed : A[p] = <<>>

(* Queues of peers that the device does not have are empty, so all are      *)
(* swept.                                                                   *)
LEMMA SweepAll ==
  ASSUME installed \in SUBSET Peer, now \in Nat, NEW acc \in PoolState, NEW lk, NEW A,
         Shows(build, acc.pool, acc.queue, lk, A), NEW t, Fine(A, t),
         NEW st, st = drop_expired_packet_queues(acc)
  PROVE  /\ st \in PoolState /\ Shows(build, st.pool, st.queue, lk, AllLeft(A))
         /\ Fine(AllLeft(A), t)
<1>1. \A p \in Peer : Waits(A[p], t)
  BY DEF Fine
<1>2. st \in SweepRun(lk, A, installed)
  BY <1>1, SweepIs
<1>3. Partly(A, installed) = AllLeft(A)
  BY LeftNone DEF Partly, AllLeft, Fine
<1>4. Fine(AllLeft(A), t)
  <2>1. ASSUME NEW p \in Peer PROVE Waits(AllLeft(A)[p], t)
    <3>1. Waits(Left(A[p]), t)
      BY <1>1, LeftFacts
    <3> QED  BY <3>1 DEF AllLeft
  <2>2. ASSUME NEW p \in Peer \ installed PROVE AllLeft(A)[p] = <<>>
    BY LeftNone DEF AllLeft, Fine
  <2> QED  BY <2>1, <2>2 DEF Fine
<1> QED  BY <1>2, <1>3, <1>4 DEF SweepRun

(* A timer tick after the peers of s. *)
TickPart(A, gone, s) ==
  [p \in Peer |-> IF s = {} THEN A[p] ELSE IF p \in s \cap gone THEN <<>> ELSE Left(A[p])]

TickRun(lk, A, gone, s) ==
  {a \in PoolState : Shows(build, a.pool, a.queue, lk, TickPart(A, gone, s))}

(* A timer tick for one peer more: another sweep changes nothing. *)
LEMMA TickAdvances ==
  ASSUME installed \in SUBSET Peer, now \in Nat, NEW lk, NEW A, NEW t, Fine(A, t),
         NEW gone \in SUBSET installed,
         NEW s \in SUBSET installed, NEW x \in installed, x \notin s,
         NEW a \in TickRun(lk, A, gone, s)
  PROVE  TickPeer(x, a, gone) \in TickRun(lk, A, gone, s \cup {x})
<1>1. PICK B : B = TickPart(A, gone, s)
  OBVIOUS
<1>2. a \in PoolState /\ Shows(build, a.pool, a.queue, lk, B)
  BY <1>1 DEF TickRun
<1>3. ASSUME NEW p \in Peer
      PROVE  /\ Waits(B[p], t)
             /\ p \notin installed => B[p] = <<>>
             /\ Left(B[p]) = IF p \in s \cap gone THEN <<>> ELSE Left(A[p])
  <2>1. /\ Waits(A[p], t) /\ Waits(Left(A[p]), t) /\ Waits(<<>>, t)
        /\ Left(Left(A[p])) = Left(A[p]) /\ Left(<<>>) = <<>>
        /\ p \notin installed => A[p] = <<>>
    BY LeftFacts, LeftNone, WaitsNone DEF Fine
  <2>2. B[p] = IF s = {} THEN A[p] ELSE IF p \in s \cap gone THEN <<>> ELSE Left(A[p])
    BY <1>1 DEF TickPart
  <2>3. CASE s = {}
    BY <2>1, <2>2, <2>3
  <2>4. CASE s # {} /\ p \in s \cap gone
    BY <2>1, <2>2, <2>4
  <2>5. CASE s # {} /\ p \notin s \cap gone
    BY <2>1, <2>2, <2>5
  <2> QED  BY <2>3, <2>4, <2>5
<1>4. Fine(B, t)
  BY <1>3 DEF Fine
<1>5. PICK kept : kept = drop_expired_packet_queues(a)
  OBVIOUS
<1>6. PICK pl, qs, C : pl = kept.pool /\ qs = kept.queue /\ C = AllLeft(B)
  OBVIOUS
<1>7. kept \in PoolState /\ Shows(build, pl, qs, lk, C)
  BY <1>2, <1>4, <1>5, <1>6, SweepAll
<1>8. C = [p \in Peer |-> IF p \in s \cap gone THEN <<>> ELSE Left(A[p])]
  BY <1>3, <1>6 DEF AllLeft
<1>9. x \in Peer /\ s \cup {x} # {}
  OBVIOUS
<1>10. CASE x \notin gone
  <2>1. TickPeer(x, a, gone) = kept
    BY <1>5, <1>10 DEF TickPeer
  <2>2. C = TickPart(A, gone, s \cup {x})
    <3>1. ASSUME NEW p \in Peer PROVE p \in s \cap gone <=> p \in (s \cup {x}) \cap gone
      BY <1>10
    <3> QED  BY <1>8, <1>9, <3>1 DEF TickPart
  <2> QED  BY <1>6, <1>7, <2>1, <2>2 DEF TickRun
<1>11. CASE x \in gone
  <2>1. PICK pm, qn, D : /\ pm = free_chain(pl, qs[x].head)
                         /\ qn = [qs EXCEPT ![x] = EmptyQueue]
                         /\ D = [C EXCEPT ![x] = <<>>]
    OBVIOUS
  <2>2. Shows(build, pm, qn, lk, D)
    BY <1>7, <1>9, <2>1, ShowsClear
  <2>3. PICK b : b = [pool |-> pm, queue |-> qn]
    OBVIOUS
  <2>4. TickPeer(x, a, gone) = b
    BY <1>5, <1>6, <1>11, <2>1, <2>3 DEF TickPeer
  <2>5. b \in PoolState /\ b.pool = pm /\ b.queue = qn
    BY <2>2, <2>3, ShowsPool DEF PoolState
  <2>6. D = TickPart(A, gone, s \cup {x})
    <3>1. ASSUME NEW p \in Peer
          PROVE p \in (s \cup {x}) \cap gone <=> p = x \/ p \in s \cap gone
      BY <1>11
    <3>2. D = [p \in Peer |-> IF p = x \/ p \in s \cap gone THEN <<>> ELSE Left(A[p])]
      BY <1>8, <2>1
    <3> QED  BY <1>9, <3>1, <3>2 DEF TickPart
  <2>7. b \in TickRun(lk, A, gone, s \cup {x})
    BY <2>2, <2>5, <2>6 DEF TickRun
  <2> QED  BY <2>4, <2>7
<1> QED  BY <1>10, <1>11

Ticked(acc, gone) == FoldSet(LAMBDA p, st : TickPeer(p, st, gone), acc, installed)

(* The loop of a timer tick over the peers. *)
LEMMA TickRuns ==
  ASSUME installed \in SUBSET Peer, now \in Nat, NEW acc \in PoolState, NEW lk, NEW A,
         Shows(build, acc.pool, acc.queue, lk, A), NEW t, Fine(A, t),
         NEW gone \in SUBSET installed
  PROVE  Ticked(acc, gone) \in TickRun(lk, A, gone, installed)
<1> DEFINE F == [xa \in Peer \X PoolState |-> TickPeer(xa[1], xa[2], gone)]
           R == [s \in SUBSET installed |-> TickRun(lk, A, gone, s)]
           Is(g) == g = [s \in SUBSET installed |->
                           IF s = {} THEN acc ELSE TickPeer(First(s), g[s \ {First(s)}], gone)]
<1>0. IsFiniteSet(installed)
  BY PoolAssumption, FS_Subset
<1>1. acc \in R[{}]
  <2>1. TickPart(A, gone, {}) = A
    <3>1. TickPart(A, gone, {}) = [p \in Peer |-> A[p]]
      BY DEF TickPart
    <3>2. PICK pl, qs : pl = acc.pool /\ qs = acc.queue
      OBVIOUS
    <3>3. Shows(build, pl, qs, lk, A)
      BY <3>2
    <3>4. A = [p \in Peer |-> A[p]]
      BY <3>3, ShowsPool
    <3> QED  BY <3>1, <3>4
  <2>2. acc \in TickRun(lk, A, gone, {})
    BY <2>1 DEF TickRun
  <2> QED  BY <2>2
<1>2. ASSUME NEW x \in Peer, NEW a \in PoolState PROVE F[<<x, a>>] = TickPeer(x, a, gone)
  <2>1. <<x, a>> \in Peer \X PoolState /\ <<x, a>>[1] = x /\ <<x, a>>[2] = a
    OBVIOUS
  <2> QED  BY <2>1
<1>3. ASSUME NEW s \in SUBSET installed, NEW x \in installed, NEW a \in R[s], x \notin s
      PROVE  TickPeer(x, a, gone) \in R[s \cup {x}] /\ x \in Peer /\ a \in PoolState
  <2>1. x \in Peer /\ a \in TickRun(lk, A, gone, s)
    OBVIOUS
  <2>2. TickPeer(x, a, gone) \in TickRun(lk, A, gone, s \cup {x})
    BY <1>3, <2>1, TickAdvances
  <2>3. a \in PoolState
    BY <2>1 DEF TickRun
  <2> QED  BY <2>1, <2>2, <2>3
<1>4. \A s \in SUBSET installed : \A x \in installed : \A a \in R[s] :
        x \notin s => F[<<x, a>>] \in R[s \cup {x}]
  <2>1. SUFFICES ASSUME NEW s \in SUBSET installed, NEW x \in installed, NEW a \in R[s], x \notin s
                 PROVE  F[<<x, a>>] \in R[s \cup {x}]
    OBVIOUS
  <2> HIDE DEF F, R
  <2> QED  BY <1>2, <1>3, <2>1
<1>5. R[installed] = TickRun(lk, A, gone, installed)
  OBVIOUS
<1> HIDE DEF F, R
<1>6. PICK g : Folding(g, installed, acc, F) /\ \A s \in SUBSET installed : g[s] \in R[s]
  BY <1>0, <1>1, <1>4, FoldRuns
<1>7. Is(g)
  <2>1. ASSUME NEW s \in SUBSET installed, s # {}
        PROVE  F[<<First(s), g[s \ {First(s)}]>>] = TickPeer(First(s), g[s \ {First(s)}], gone)
    <3>1. PICK x, u : x = First(s) /\ u = s \ {First(s)}
      OBVIOUS
    <3>2. x \in installed /\ u \in SUBSET installed /\ x \notin u
      BY <2>1, <3>1 DEF First
    <3>3. g[u] \in R[u]
      BY <1>6, <3>2
    <3>4. x \in Peer /\ g[u] \in PoolState
      BY <1>3, <3>2, <3>3
    <3> QED  BY <1>2, <3>1, <3>4
  <2>2. g = [s \in SUBSET installed |-> IF s = {} THEN acc ELSE F[<<First(s), g[s \ {First(s)}]>>]]
    BY <1>6 DEF Folding
  <2> DEFINE G == [s \in SUBSET installed |-> IF s = {} THEN acc ELSE TickPeer(First(s), g[s \ {First(s)}], gone)]
  <2>3. ASSUME NEW s \in SUBSET installed PROVE g[s] = G[s]
    BY <2>1, <2>2
  <2>4. DOMAIN g = SUBSET installed /\ g = [s \in DOMAIN g |-> g[s]]
    BY <2>2
  <2>5. DOMAIN G = SUBSET installed /\ G = [s \in DOMAIN G |-> G[s]]
    OBVIOUS
  <2>6. g = G
    BY <2>3, <2>4, <2>5
  <2> QED  BY <2>6
<1> DEFINE h == CHOOSE r : Is(r)
<1>8. Ticked(acc, gone) = h[installed]
  BY DEF Ticked, First, FoldSet, MapThenFoldSet
<1>9. Is(h)
  BY <1>7
<1> HIDE DEF h
<1>10. /\ h[{}] = acc
       /\ \A s \in SUBSET installed : s # {} => h[s] = TickPeer(First(s), h[s \ {First(s)}], gone)
  BY <1>9
<1>11. ASSUME NEW s \in SUBSET installed, s # {}, h[s \ {First(s)}] \in R[s \ {First(s)}]
       PROVE  h[s] \in R[s]
  <2>1. PICK x, u : x = First(s) /\ u = s \ {First(s)}
    OBVIOUS
  <2>2. x \in installed /\ u \in SUBSET installed /\ x \notin u /\ u \cup {x} = s
    BY <1>11, <2>1 DEF First
  <2>3. TickPeer(x, h[u], gone) \in R[u \cup {x}]
    BY <1>3, <1>11, <2>1, <2>2
  <2> QED  BY <1>10, <1>11, <2>1, <2>2, <2>3
<1>12. \A s \in SUBSET installed : h[s] \in R[s]
  <2>1. h[{}] \in R[{}]
    BY <1>1, <1>10
  <2> QED  BY <1>0, <1>11, <2>1, FoldInv
<1> QED  BY <1>5, <1>8, <1>12

(* A timer tick: what has expired goes, and the queues of the peers that    *)
(* give up.                                                                 *)
LEMMA TickIs ==
  ASSUME installed \in SUBSET Peer, now \in Nat, NEW acc \in PoolState, NEW lk, NEW A,
         Shows(build, acc.pool, acc.queue, lk, A), NEW t, Fine(A, t),
         NEW gone \in SUBSET installed, NEW st, st = Ticked(acc, gone)
  PROVE  LET B == [p \in Peer |-> IF p \in gone THEN <<>> ELSE Left(A[p])]
         IN  Shows(build, st.pool, st.queue, lk, B)
<1>1. st \in TickRun(lk, A, gone, installed)
  BY TickRuns
<1>2. TickPart(A, gone, installed) = [p \in Peer |-> IF p \in gone THEN <<>> ELSE Left(A[p])]
  <2>1. CASE installed = {}
    BY <2>1, LeftNone DEF TickPart, Fine
  <2>2. CASE installed # {}
    <3>1. \A p \in Peer : p \in installed \cap gone <=> p \in gone
      OBVIOUS
    <3> QED  BY <2>2, <3>1 DEF TickPart
  <2> QED  BY <2>1, <2>2
<1> QED  BY <1>1, <1>2 DEF TickRun
-----------------------------------------------------------------------------
(* The walk along a list, in any table. *)

WalkStep(pl, acc) ==
  IF acc.at = None THEN acc
  ELSE [seq |-> Append(acc.seq, acc.at), at |-> pl.slots[acc.at].next]

WalkFrom(pl, head) ==
  LET run[i \in 0..N] == IF i = 0 THEN [seq |-> <<>>, at |-> head]
                         ELSE WalkStep(pl, run[i - 1])
  IN  run[N].seq

Pre(c, k) == [i \in 1..k |-> c[i]]

WalkRun(c, i) ==
  {a \in [seq : Seq(Nat), at : Nat] :
     \E k \in 0..Len(c) : /\ a.seq = Pre(c, k)
                          /\ a.at = IF k < Len(c) THEN c[k + 1] ELSE None
                          /\ k = Len(c) \/ k >= i}

(* A prefix that is one longer. *)
LEMMA PreMore ==
  ASSUME NEW c \in Seq(Nat), NEW k \in Nat, k < Len(c)
  PROVE  Append(Pre(c, k), c[k + 1]) = Pre(c, k + 1) /\ Pre(c, k + 1) \in Seq(Nat)
<1>1. PICK n \in Nat : n = Len(c)
  OBVIOUS
<1>2. \A i \in 1..(k + 1) : c[i] \in Nat
  BY <1>1
<1>3. Pre(c, k) \in [1..k -> Nat] /\ Pre(c, k + 1) \in [1..(k + 1) -> Nat]
  BY <1>2 DEF Pre
<1>4. /\ Pre(c, k) \in Seq(Nat) /\ Len(Pre(c, k)) = k
      /\ Pre(c, k + 1) \in Seq(Nat) /\ Len(Pre(c, k + 1)) = k + 1
  BY <1>3
<1>5. PICK u : u = Append(Pre(c, k), c[k + 1])
  OBVIOUS
<1>6. c[k + 1] \in Nat
  BY <1>2
<1>7. /\ u \in Seq(Nat) /\ Len(u) = k + 1 /\ u[k + 1] = c[k + 1]
      /\ \A i \in 1..k : u[i] = Pre(c, k)[i]
  BY <1>4, <1>5, <1>6
<1>8. ASSUME NEW i \in 1..(k + 1) PROVE u[i] = Pre(c, k + 1)[i]
  <2>1. CASE i = k + 1
    BY <1>7, <2>1 DEF Pre
  <2>2. CASE i \in 1..k
    BY <1>7, <2>2 DEF Pre
  <2>3. i \in 1..k \/ i = k + 1
    OBVIOUS
  <2> QED  BY <2>1, <2>2, <2>3
<1>9. u = Pre(c, k + 1)
  BY <1>4, <1>7, <1>8
<1> QED  BY <1>4, <1>5, <1>9

(* One cell more is seen. *)
LEMMA WalkAdvances ==
  ASSUME NEW bd, NEW pl, NEW q, NEW c, PoolOk(bd, pl), IsChain(pl, q, c),
         NEW i \in 1..N, NEW a \in WalkRun(c, i - 1)
  PROVE  WalkStep(pl, a) \in WalkRun(c, i)
<1>1. PICK k \in 0..Len(c) : /\ a.seq = Pre(c, k)
                             /\ a.at = IF k < Len(c) THEN c[k + 1] ELSE None
                             /\ k = Len(c) \/ k >= i - 1
  BY DEF WalkRun
<1>2. /\ a \in [seq : Seq(Nat), at : Nat] /\ c \in Seq(Nat) /\ Len(c) \in Nat
      /\ k \in Nat /\ k <= Len(c) /\ i \in Nat
  BY DEF WalkRun, IsChain
<1>3. CASE ~(k < Len(c))
  <2>1. k = Len(c) /\ a.at = None
    BY <1>1, <1>2, <1>3
  <2>2. WalkStep(pl, a) = a
    BY <2>1 DEF WalkStep
  <2> QED  BY <1>1, <1>2, <2>1, <2>2 DEF WalkRun
<1>4. CASE k < Len(c)
  <2>1. PICK j \in 1..Len(c) : j = k + 1
    BY <1>2, <1>4
  <2>2. /\ c[j] \in Live(pl) /\ a.at = c[j]
        /\ pl.slots[c[j]].next = IF j < Len(c) THEN c[j + 1] ELSE None
    BY <1>1, <1>4, <2>1 DEF IsChain
  <2>3. c[j] # None /\ pl.slots[c[j]].next \in Nat
    BY <2>2, LiveCell
  <2>4. PICK b : b = [seq |-> Append(a.seq, c[j]), at |-> pl.slots[c[j]].next]
    OBVIOUS
  <2>5. WalkStep(pl, a) = b
    BY <2>2, <2>3, <2>4 DEF WalkStep
  <2>6. Append(Pre(c, k), c[k + 1]) = Pre(c, k + 1) /\ Pre(c, k + 1) \in Seq(Nat)
    BY <1>2, <1>4, PreMore
  <2>7. b \in [seq : Seq(Nat), at : Nat] /\ b.seq = Pre(c, j) /\ b.at = pl.slots[c[j]].next
    BY <1>1, <2>1, <2>3, <2>4, <2>6
  <2>8. j \in 0..Len(c) /\ (j = Len(c) \/ j >= i)
    BY <1>1, <1>2, <1>4, <2>1
  <2>9. b \in WalkRun(c, i)
    BY <2>2, <2>7, <2>8 DEF WalkRun
  <2> QED  BY <2>5, <2>9
<1> QED  BY <1>3, <1>4

(* The walk sees the whole list: it is no longer than the table. *)
LEMMA WalkIs ==
  ASSUME NEW bd, NEW pl, NEW q, NEW c, PoolOk(bd, pl), IsChain(pl, q, c)
  PROVE  WalkFrom(pl, q.head) = c
<1> DEFINE U == [seq : Seq(Nat), at : Nat]
           b == [seq |-> <<>>, at |-> q.head]
           F == [a \in U |-> WalkStep(pl, a)]
           R == [i \in 0..N |-> WalkRun(c, i)]
           Is(r) == r = [i \in 0..N |-> IF i = 0 THEN b ELSE WalkStep(pl, r[i - 1])]
<1>0. N \in Nat /\ N >= 1
  BY Consts
<1>1. b \in R[0]
  <2>1. PICK n \in Nat : n = Len(c)
    BY DEF IsChain
  <2>2. q.head \in Nat /\ q.head = IF 0 < n THEN c[0 + 1] ELSE None
    BY <2>1 DEF IsChain, QueueType
  <2>3. Pre(c, 0) = <<>>
    <3>1. 1..0 = {}
      OBVIOUS
    <3> QED  BY <3>1 DEF Pre
  <2>4. b \in U /\ b.seq = Pre(c, 0) /\ b.at = q.head
    BY <2>2, <2>3
  <2> HIDE DEF b, U
  <2>5. 0 \in 0..Len(c) /\ (0 = Len(c) \/ 0 >= 0)
    BY <2>1
  <2>6. b \in WalkRun(c, 0)
    BY <2>1, <2>2, <2>4, <2>5 DEF WalkRun, U
  <2> QED  BY <1>0, <2>6
<1>2. ASSUME NEW i \in 1..N, NEW a \in R[i - 1]
      PROVE  WalkStep(pl, a) \in R[i] /\ F[a] = WalkStep(pl, a)
  <2>1. i - 1 \in 0..N /\ i \in 0..N
    BY <1>0
  <2>2. a \in WalkRun(c, i - 1)
    BY <2>1
  <2>3. WalkStep(pl, a) \in WalkRun(c, i)
    BY <2>2, WalkAdvances
  <2>4. a \in U
    BY <2>2 DEF WalkRun
  <2> QED  BY <2>1, <2>3, <2>4
<1>3. \A i \in 1..N : \A a \in R[i - 1] : F[a] \in R[i]
  BY <1>2
<1>4. R[N] = WalkRun(c, N)
  BY <1>0
<1> HIDE DEF F, R, b, U
<1>5. PICK g : Loops(g, N, b, F) /\ \A i \in 0..N : g[i] \in R[i]
  BY <1>0, <1>1, <1>3, LoopRuns
<1>6. Is(g)
  <2>1. ASSUME NEW i \in 0..N, i # 0 PROVE F[g[i - 1]] = WalkStep(pl, g[i - 1])
    <3>1. i - 1 \in 0..N /\ i \in 1..N
      BY <1>0, <2>1
    <3> QED  BY <1>2, <1>5, <3>1
  <2> QED  BY <1>5, <2>1 DEF Loops
<1> DEFINE r == CHOOSE s : Is(s)
<1>7. Is(r)
  BY <1>6
<1>8. WalkFrom(pl, q.head) = r[N].seq
  BY DEF WalkFrom, b
<1> HIDE DEF r
<1>9. r[N] \in R[N]
  <2>1. r[0] = b /\ \A i \in 1..N : r[i] = WalkStep(pl, r[i - 1])
    BY <1>0, <1>7
  <2>2. \A i \in 1..N : r[i - 1] \in R[i - 1] => r[i] \in R[i]
    BY <1>2, <2>1
  <2>3. \A i \in 0..N : r[i] \in R[i]
    BY <1>0, <1>1, <2>1, <2>2, LoopInv
  <2> QED  BY <1>0, <2>3
<1>10. PICK k \in 0..Len(c) : r[N].seq = Pre(c, k) /\ (k = Len(c) \/ k >= N)
  BY <1>4, <1>9 DEF WalkRun
<1>11. c \in Seq(Nat) /\ Len(c) \in Nat /\ Len(c) <= N
  BY ChainShort DEF IsChain
<1>12. k = Len(c)
  BY <1>0, <1>10, <1>11
<1>13. Pre(c, k) = c
  BY <1>11, <1>12 DEF Pre
<1> QED  BY <1>8, <1>10, <1>13

(* Chain is the walk in the pool of this state. *)
LEMMA ChainWalks ==
  ASSUME NEW p
  PROVE  Chain(p) = WalkFrom(pool, queue[p].head)
  BY DEF Chain, ChainStep, WalkFrom, WalkStep

(* And of the next. *)
LEMMA ChainWalksNext ==
  ASSUME NEW p
  PROVE  Chain(p)' = WalkFrom(pool', queue'[p].head)
  BY DEF Chain, ChainStep, WalkFrom, WalkStep

(* The range of a sequence of cells. *)
LEMMA RangeIs == ASSUME NEW c \in Seq(Nat) PROVE Range(c) = Cells(c) /\ DOMAIN c = 1..Len(c)
  BY DEF Range, Cells
(* What the lists and the packets of the specification are. *)
LEMMA ChainIs ==
  ASSUME NEW cs, Holds(build, pool, queue, cs, leaked), NEW p \in Peer
  PROVE  Chain(p) = cs[p]
<1>1. PICK q, c : q = queue[p] /\ c = cs[p]
  OBVIOUS
<1>2. PoolOk(build, pool) /\ IsChain(pool, q, c)
  BY <1>1 DEF Holds
<1>3. WalkFrom(pool, q.head) = c
  BY <1>2, WalkIs
<1> QED  BY <1>1, <1>3, ChainWalks

(* The same of the next state. *)
LEMMA ChainIsNext ==
  ASSUME NEW cs, Holds(build', pool', queue', cs, leaked'), NEW p \in Peer
  PROVE  Chain(p)' = cs[p]
<1>1. PICK q, c : q = queue'[p] /\ c = cs[p]
  OBVIOUS
<1>2. PICK pl, bd : pl = pool' /\ bd = build'
  OBVIOUS
<1>3. PoolOk(bd, pl) /\ IsChain(pl, q, c)
  BY <1>1, <1>2 DEF Holds
<1>4. WalkFrom(pl, q.head) = c
  BY <1>3, WalkIs
<1> QED  BY <1>1, <1>2, <1>4, ChainWalksNext

(* remove_peer_from_state: the cells of the peer's list are lost. *)
LEMMA ShowsRemove ==
  ASSUME NEW pl, NEW qs, NEW cs, NEW lk, Holds(build, pl, qs, cs, lk), NEW p \in Peer,
         NEW A, A = Contents(pl, cs)
  PROVE  Shows(build, pl, [qs EXCEPT ![p] = EmptyQueue], lk \cup Cells(cs[p]), [A EXCEPT ![p] = <<>>])
<1>1. PICK qn, cn : qn = [qs EXCEPT ![p] = EmptyQueue] /\ cn = [cs EXCEPT ![p] = <<>>]
  OBVIOUS
<1>2. EmptyQueue \in QueueType /\ <<>> \in Seq(Nat) /\ IsChain(pl, EmptyQueue, <<>>) /\ Cells(<<>>) = {}
  <2>1. EmptyQueue \in QueueType /\ <<>> \in Seq(Nat) /\ Len(<<>>) = 0
    BY DEF EmptyQueue, QueueType, None
  <2>2. 1..0 = {}
    OBVIOUS
  <2> QED  BY <2>1, <2>2 DEF IsChain, Cells, EmptyQueue
<1>3. /\ PoolOk(build, pl) /\ qs \in [Peer -> QueueType] /\ cs \in [Peer -> Seq(Nat)]
      /\ \A r \in Peer : IsChain(pl, qs[r], cs[r])
      /\ \A r, u \in Peer : r # u => Cells(cs[r]) \cap Cells(cs[u]) = {}
      /\ \A r \in Peer : Cells(cs[r]) \cap lk = {}
      /\ Live(pl) = lk \cup UNION {Cells(cs[r]) : r \in Peer}
  BY DEF Holds
<1>4. /\ qn \in [Peer -> QueueType] /\ cn \in [Peer -> Seq(Nat)]
      /\ qn[p] = EmptyQueue /\ cn[p] = <<>>
      /\ \A r \in Peer : r # p => qn[r] = qs[r] /\ cn[r] = cs[r]
  BY <1>1, <1>2, <1>3
<1>5. \A r \in Peer : IsChain(pl, qn[r], cn[r])
  BY <1>2, <1>3, <1>4
<1>6. ASSUME NEW r \in Peer, NEW u \in Peer, r # u PROVE Cells(cn[r]) \cap Cells(cn[u]) = {}
  BY <1>2, <1>3, <1>4, <1>6
<1>7. ASSUME NEW r \in Peer PROVE Cells(cn[r]) \cap (lk \cup Cells(cs[p])) = {}
  <2>1. CASE r = p
    BY <1>2, <1>4, <2>1
  <2>2. CASE r # p
    BY <1>3, <1>4, <2>2
  <2> QED  BY <2>1, <2>2
<1>8. Live(pl) = (lk \cup Cells(cs[p])) \cup UNION {Cells(cn[r]) : r \in Peer}
  <2>1. ASSUME NEW h \in Live(pl)
        PROVE  h \in lk \cup Cells(cs[p]) \/ \E r \in Peer : h \in Cells(cn[r])
    <3>1. h \in lk \/ \E r \in Peer : h \in Cells(cs[r])
      BY <1>3
    <3> QED  BY <1>4, <3>1
  <2>2. lk \cup Cells(cs[p]) \subseteq Live(pl)
    BY <1>3
  <2>3. ASSUME NEW r \in Peer PROVE Cells(cn[r]) \subseteq Live(pl)
    <3>1. CASE r = p
      BY <1>2, <1>4, <3>1
    <3>2. CASE r # p
      BY <1>3, <1>4, <3>2
    <3> QED  BY <3>1, <3>2
  <2> QED  BY <2>1, <2>2, <2>3
<1>9. Holds(build, pl, qn, cn, lk \cup Cells(cs[p]))
  BY <1>3, <1>4, <1>5, <1>6, <1>7, <1>8 DEF Holds
<1>10. [A EXCEPT ![p] = <<>>] = Contents(pl, cn)
  <2>1. PacketsOf(pl, <<>>) = <<>>
    <3>1. 1..Len(<<>>) = {}
      OBVIOUS
    <3> QED  BY <3>1 DEF PacketsOf
  <2>2. ASSUME NEW r \in Peer PROVE (IF r = p THEN <<>> ELSE A[r]) = PacketsOf(pl, cn[r])
    <3>1. CASE r = p
      BY <1>4, <2>1, <3>1
    <3>2. CASE r # p
      BY <1>4, <3>2 DEF Contents
    <3> QED  BY <3>1, <3>2
  <2>3. [A EXCEPT ![p] = <<>>] = [r \in Peer |-> IF r = p THEN <<>> ELSE A[r]]
    BY DEF Contents
  <2> QED  BY <2>2, <2>3 DEF Contents
<1> QED  BY <1>1, <1>9, <1>10 DEF Shows
-----------------------------------------------------------------------------
(* The inductive invariant: the lists are proper and hold packets in the    *)
(* order they came.                                                         *)

QInv ==
  /\ installed \in SUBSET Peer /\ now \in Nat
  /\ \E A : Shows(build, pool, queue, leaked, A) /\ Fine(A, now)

(* What a step does to the queues A, seen as sequences of packets. *)
Keeps(A, B) == B = A /\ now' >= now
Removes(A, B) == now' = now /\ \E p \in Peer : B = [A EXCEPT ![p] = <<>>]
Sends(A, B) ==
  /\ now' = now
  /\ \E p \in Peer : \E k \in 0..Len(AllLeft(A)[p]) :
        B = [AllLeft(A) EXCEPT ![p] = Rest(AllLeft(A)[p], k)]
Queues(A, B) ==
  /\ now' = now
  /\ \E p \in Peer, name \in Names, size \in Sizes :
       /\ Len(AllLeft(A)[p]) < MAX_PENDING_PACKETS
       /\ B = [AllLeft(A) EXCEPT ![p] =
                 Append(AllLeft(A)[p], [payload |-> [name |-> name, size |-> size], queued_at |-> now])]
Expires(A, B) ==
  /\ now' = now
  /\ \E gone \in SUBSET Peer : B = [p \in Peer |-> IF p \in gone THEN <<>> ELSE Left(A[p])]

StepsTo(A, B) ==
  Keeps(A, B) \/ Removes(A, B) \/ Sends(A, B) \/ Queues(A, B) \/ Expires(A, B)

NextShows(B) ==
  /\ Shows(build', pool', queue', leaked', B)
  /\ \A p \in Peer : Waits(B[p], now')
  /\ \A p \in Peer \ installed' : B[p] = <<>>

(* The sweep before a packet is handled. *)
LEMMA SweptIs ==
  ASSUME installed \in SUBSET Peer, now \in Nat, NEW A,
         Shows(build, pool, queue, leaked, A), Fine(A, now)
  PROVE  Shows(build, Swept.pool, Swept.queue, leaked, AllLeft(A)) /\ Fine(AllLeft(A), now)
<1>1. PICK acc : acc = [pool |-> pool, queue |-> queue]
  OBVIOUS
<1>2. acc \in PoolState /\ acc.pool = pool /\ acc.queue = queue
  BY <1>1, ShowsPool DEF PoolState
<1>3. Shows(build, acc.pool, acc.queue, leaked, A)
  BY <1>2
<1>4. PICK st : st = drop_expired_packet_queues(acc)
  OBVIOUS
<1>5. Shows(build, st.pool, st.queue, leaked, AllLeft(A)) /\ Fine(AllLeft(A), now)
  BY <1>2, <1>3, <1>4, SweepAll
<1>6. Swept = st
  BY <1>1, <1>4 DEF Swept
<1> QED  BY <1>5, <1>6

(* Encapsulate keeps the lists and queues or refuses a packet. *)
LEMMA EncapsulateShows ==
  ASSUME installed \in SUBSET Peer, now \in Nat, NEW A,
         Shows(build, pool, queue, leaked, A), Fine(A, now), UNCHANGED build,
         NEW p \in Peer, NEW name \in Names, NEW size \in Sizes, Encapsulate(p, name, size)
  PROVE  \E B : NextShows(B) /\ StepsTo(A, B)
<1>1. PICK pl, qs, L : pl = Swept.pool /\ qs = Swept.queue /\ L = AllLeft(A)
  OBVIOUS
<1>2. Shows(build, pl, qs, leaked, L) /\ Fine(L, now)
  BY <1>1, SweptIs
<1>3. PICK st : st = queue_packet([pool |-> pl, queue |-> qs[p]], name, size)
  OBVIOUS
<1>4. PICK x : x = [payload |-> [name |-> name, size |-> size], queued_at |-> now]
  OBVIOUS
<1>5. /\ pool' = st.pool /\ queue' = [qs EXCEPT ![p] = st.queue]
      /\ installed' = installed /\ now' = now /\ leaked' = leaked /\ build' = build
  BY <1>1, <1>3 DEF Encapsulate, SetState, SweptState
<1>6. Waits(L[p], now) /\ Left(L[p]) = L[p]
  <2>1. Waits(A[p], now) /\ L[p] = Left(A[p])
    BY <1>1 DEF Fine, AllLeft
  <2> QED  BY <1>2, <2>1, LeftFacts DEF Fine
<1>7. \/ Shows(build, st.pool, [qs EXCEPT ![p] = st.queue], leaked, [L EXCEPT ![p] = Left(L[p])])
      \/ /\ Len(Left(L[p])) < MAX_PENDING_PACKETS
         /\ Shows(build, st.pool, [qs EXCEPT ![p] = st.queue], leaked,
                  [L EXCEPT ![p] = Append(Left(L[p]), x)])
  BY <1>2, <1>3, <1>4, <1>6, ShowsQueue
<1>8. CASE Shows(build, st.pool, [qs EXCEPT ![p] = st.queue], leaked, [L EXCEPT ![p] = Left(L[p])])
  <2>1. [L EXCEPT ![p] = Left(L[p])] = L
    BY <1>1, <1>6 DEF AllLeft
  <2>2. Shows(build', pool', queue', leaked', L)
    BY <1>5, <1>8, <2>1
  <2>3. NextShows(L)
    BY <1>2, <1>5, <2>2 DEF NextShows, Fine
  <2>4. Expires(A, L)
    <3>1. PICK g \in SUBSET Peer : g = {}
      OBVIOUS
    <3>2. L = [r \in Peer |-> IF r \in g THEN <<>> ELSE Left(A[r])]
      BY <1>1, <3>1 DEF AllLeft
    <3> QED  BY <1>5, <3>2 DEF Expires
  <2> QED  BY <2>3, <2>4 DEF StepsTo
<1>9. CASE /\ Len(Left(L[p])) < MAX_PENDING_PACKETS
           /\ Shows(build, st.pool, [qs EXCEPT ![p] = st.queue], leaked,
                    [L EXCEPT ![p] = Append(Left(L[p]), x)])
  <2>1. PICK B : B = [L EXCEPT ![p] = Append(L[p], x)]
    OBVIOUS
  <2>2. Shows(build', pool', queue', leaked', B)
    BY <1>5, <1>6, <1>9, <2>1
  <2>3. B[p] = Append(L[p], x) /\ \A r \in Peer : r # p => B[r] = L[r]
    BY <1>1, <2>1 DEF AllLeft
  <2>4. Waits(B[p], now)
    <3>1. x \in PacketType /\ x.queued_at = now
      BY <1>4 DEF PacketType
    <3>2. Len(L[p]) < MAX_PENDING_PACKETS
      BY <1>6, <1>9
    <3>3. Waits(Append(L[p], x), now)
      BY <1>6, <3>1, <3>2, WaitsMore
    <3> QED  BY <2>3, <3>3
  <2>5. \A r \in Peer : Waits(B[r], now')
    BY <1>2, <1>5, <2>3, <2>4 DEF Fine
  <2>6. \A r \in Peer \ installed' : B[r] = <<>>
    BY <1>2, <1>5, <2>3 DEF Fine, Encapsulate
  <2>7. NextShows(B)
    BY <2>2, <2>5, <2>6 DEF NextShows
  <2>8. Queues(A, B)
    BY <1>1, <1>4, <1>5, <1>6, <1>9, <2>1 DEF Queues
  <2> QED  BY <2>7, <2>8 DEF StepsTo
<1> QED  BY <1>7, <1>8, <1>9
(* HandleHandshake keeps the lists and sends the oldest packets. *)
LEMMA HandshakeShows ==
  ASSUME installed \in SUBSET Peer, now \in Nat, NEW A,
         Shows(build, pool, queue, leaked, A), Fine(A, now), UNCHANGED build,
         NEW p \in Peer, HandleHandshake(p)
  PROVE  \E B : NextShows(B) /\ StepsTo(A, B)
<1>1. PICK pl, qs, L : pl = Swept.pool /\ qs = Swept.queue /\ L = AllLeft(A)
  OBVIOUS
<1>2. Shows(build, pl, qs, leaked, L) /\ Fine(L, now)
  BY <1>1, SweptIs
<1>3. PICK n \in 0..MAX_PENDING_PACKETS : SetState(p, flush_queued_packets(SweptState(p), n))
  BY DEF HandleHandshake
<1>4. n \in Nat
  BY Consts
<1>5. PICK st : st = flush_queued_packets([pool |-> pl, queue |-> qs[p]], n)
  OBVIOUS
<1>6. /\ pool' = st.pool /\ queue' = [qs EXCEPT ![p] = st.queue]
      /\ installed' = installed /\ now' = now /\ leaked' = leaked /\ build' = build
  BY <1>1, <1>3, <1>5 DEF HandleHandshake, SetState, SweptState
<1>7. Waits(L[p], now)
  BY <1>2 DEF Fine
<1>8. PICK k \in 0..Len(L[p]) :
        Shows(build, st.pool, [qs EXCEPT ![p] = st.queue], leaked, [L EXCEPT ![p] = Rest(L[p], k)])
  BY <1>2, <1>4, <1>5, <1>7, ShowsFlush
<1>9. PICK B : B = [L EXCEPT ![p] = Rest(L[p], k)]
  OBVIOUS
<1>10. Shows(build', pool', queue', leaked', B)
  BY <1>6, <1>8, <1>9
<1>11. B[p] = Rest(L[p], k) /\ \A r \in Peer : r # p => B[r] = L[r]
  BY <1>1, <1>9 DEF AllLeft
<1>12. Waits(B[p], now)
  BY <1>7, <1>11, WaitsRest
<1>13. \A r \in Peer : Waits(B[r], now')
  BY <1>2, <1>6, <1>11, <1>12 DEF Fine
<1>14. \A r \in Peer \ installed' : B[r] = <<>>
  BY <1>2, <1>6, <1>11 DEF Fine, HandleHandshake
<1>15. NextShows(B)
  BY <1>10, <1>13, <1>14 DEF NextShows
<1>16. Sends(A, B)
  BY <1>1, <1>6, <1>9 DEF Sends
<1> QED  BY <1>15, <1>16 DEF StepsTo

(* RemovePeer keeps the lists: the cells of the lost one are leaked. *)
LEMMA RemoveShows ==
  ASSUME installed \in SUBSET Peer, now \in Nat, NEW A,
         Shows(build, pool, queue, leaked, A), Fine(A, now), UNCHANGED build,
         NEW p \in Peer, RemovePeer(p)
  PROVE  \E B : NextShows(B) /\ StepsTo(A, B)
<1>1. PICK cs : Holds(build, pool, queue, cs, leaked) /\ A = Contents(pool, cs)
  BY DEF Shows
<1>2. Chain(p) = cs[p] /\ cs[p] \in Seq(Nat)
  BY <1>1, ChainIs DEF Holds
<1>3. Range(Chain(p)) = Cells(cs[p])
  BY <1>2, RangeIs
<1>4. /\ pool' = pool /\ queue' = [queue EXCEPT ![p] = EmptyQueue] /\ leaked' = leaked \cup Cells(cs[p])
      /\ installed' = installed \ {p} /\ now' = now /\ build' = build
  BY <1>3 DEF RemovePeer
<1>5. PICK B : B = [A EXCEPT ![p] = <<>>]
  OBVIOUS
<1>6. Shows(build, pool, [queue EXCEPT ![p] = EmptyQueue], leaked \cup Cells(cs[p]), B)
  BY <1>1, <1>5, ShowsRemove
<1>7. Shows(build', pool', queue', leaked', B)
  BY <1>4, <1>6
<1>8. B[p] = <<>> /\ \A r \in Peer : r # p => B[r] = A[r]
  BY <1>1, <1>5 DEF Contents
<1>9. \A r \in Peer : Waits(B[r], now')
  BY <1>4, <1>8, WaitsNone DEF Fine
<1>10. \A r \in Peer \ installed' : B[r] = <<>>
  BY <1>4, <1>8 DEF Fine
<1>11. NextShows(B) /\ Removes(A, B)
  BY <1>4, <1>5, <1>7, <1>9, <1>10 DEF NextShows, Removes
<1> QED  BY <1>11 DEF StepsTo

(* TimerTick keeps the lists and leaves nothing expired. *)
LEMMA TimerShows ==
  ASSUME installed \in SUBSET Peer, now \in Nat, NEW A,
         Shows(build, pool, queue, leaked, A), Fine(A, now), UNCHANGED build, TimerTick
  PROVE  \E B : /\ NextShows(B) /\ Expires(A, B)
                /\ \A p \in Peer : \A i \in 1..Len(B[p]) : ~Old(B[p][i])
<1>1. PICK acc : acc = [pool |-> pool, queue |-> queue]
  OBVIOUS
<1>2. PICK gone \in SUBSET installed : pool' = Ticked(acc, gone).pool /\ queue' = Ticked(acc, gone).queue
  BY <1>1 DEF TimerTick, Ticked
<1>3. acc \in PoolState /\ acc.pool = pool /\ acc.queue = queue
  BY <1>1, ShowsPool DEF PoolState
<1>4. Shows(build, acc.pool, acc.queue, leaked, A)
  BY <1>3
<1>5. PICK st : st = Ticked(acc, gone)
  OBVIOUS
<1>6. PICK B : B = [p \in Peer |-> IF p \in gone THEN <<>> ELSE Left(A[p])]
  OBVIOUS
<1>7. Shows(build, st.pool, st.queue, leaked, B)
  BY <1>3, <1>4, <1>5, <1>6, TickIs
<1>8. /\ pool' = st.pool /\ queue' = st.queue /\ installed' = installed /\ now' = now
      /\ leaked' = leaked /\ build' = build
  BY <1>2, <1>5 DEF TimerTick
<1>9. Shows(build', pool', queue', leaked', B)
  BY <1>7, <1>8
<1>10. ASSUME NEW p \in Peer
       PROVE  /\ Waits(B[p], now)
              /\ p \notin installed => B[p] = <<>>
              /\ \A i \in 1..Len(B[p]) : ~Old(B[p][i])
  <2>1. CASE p \in gone
    <3>1. B[p] = <<>> /\ 1..Len(<<>>) = {}
      BY <1>6, <2>1
    <3> QED  BY <3>1, WaitsNone
  <2>2. CASE p \notin gone
    <3>1. Waits(A[p], now) /\ B[p] = Left(A[p])
      BY <1>6, <2>2 DEF Fine
    <3>2. p \notin installed => A[p] = <<>>
      BY DEF Fine
    <3> QED  BY <3>1, <3>2, LeftFacts, LeftNone
  <2> QED  BY <2>1, <2>2
<1>11. NextShows(B)
  BY <1>8, <1>9, <1>10 DEF NextShows
<1>12. Expires(A, B)
  BY <1>6, <1>8 DEF Expires
<1> QED  BY <1>10, <1>11, <1>12

(* Packets go on waiting. *)
LEMMA WaitsOn ==
  ASSUME NEW s, NEW t \in Nat, NEW u \in Nat, t <= u, Waits(s, t)
  PROVE  Waits(s, u)
<1>1. ASSUME NEW i \in 1..Len(s) PROVE s[i].queued_at <= u
  <2>1. s[i] \in PacketType /\ s[i].queued_at <= t
    BY DEF Waits
  <2>2. s[i].queued_at \in Nat
    BY <2>1 DEF PacketType
  <2> QED  BY <2>1, <2>2
<1> QED  BY <1>1 DEF Waits

(* A step that touches no queue. *)
LEMMA OtherShows ==
  ASSUME installed \in SUBSET Peer, now \in Nat, NEW A,
         Shows(build, pool, queue, leaked, A), Fine(A, now),
         UNCHANGED <<build, pool, queue, leaked>>, installed \subseteq installed',
         now' \in Nat, now <= now'
  PROVE  \E B : NextShows(B) /\ StepsTo(A, B)
<1>1. Shows(build', pool', queue', leaked', A)
  OBVIOUS
<1>2. \A p \in Peer : Waits(A[p], now')
  BY WaitsOn DEF Fine
<1>3. \A p \in Peer \ installed' : A[p] = <<>>
  BY DEF Fine
<1>4. Keeps(A, A)
  BY DEF Keeps
<1> QED  BY <1>1, <1>2, <1>3, <1>4 DEF NextShows, StepsTo

(* Every step keeps the lists and is one of the five kinds. *)
LEMMA StepShows ==
  ASSUME installed \in SUBSET Peer, now \in Nat, NEW A,
         Shows(build, pool, queue, leaked, A), Fine(A, now), [Next]_vars
  PROVE  \E B : NextShows(B) /\ StepsTo(A, B)
<1>1. CASE UNCHANGED vars
  BY <1>1, OtherShows DEF vars
<1>2. CASE Next
  <2>1. UNCHANGED build
    BY <1>2 DEF Next
  <2>2. ASSUME NEW p \in Peer, NEW name \in Names, NEW size \in Sizes, Encapsulate(p, name, size)
        PROVE  \E B : NextShows(B) /\ StepsTo(A, B)
    BY <2>1, <2>2, EncapsulateShows
  <2>3. ASSUME NEW p \in Peer, HandleHandshake(p)
        PROVE  \E B : NextShows(B) /\ StepsTo(A, B)
    BY <2>1, <2>3, HandshakeShows
  <2>4. ASSUME NEW p \in Peer, RemovePeer(p)
        PROVE  \E B : NextShows(B) /\ StepsTo(A, B)
    BY <2>1, <2>4, RemoveShows
  <2>5. ASSUME NEW p \in Peer, AddPeer(p) \/ SessionDown(p)
        PROVE  \E B : NextShows(B) /\ StepsTo(A, B)
    <3>1. UNCHANGED <<build, pool, queue, leaked>> /\ installed \subseteq installed' /\ now' = now
      BY <2>1, <2>5 DEF AddPeer, SessionDown
    <3> QED  BY <3>1, OtherShows
  <2>6. CASE TimerTick
    BY <2>1, <2>6, TimerShows DEF StepsTo
  <2>7. CASE Tick
    <3>1. UNCHANGED <<build, pool, queue, leaked>> /\ installed \subseteq installed' /\ now' = now + 1
      BY <2>1, <2>7 DEF Tick
    <3> QED  BY <3>1, OtherShows
  <2> QED  BY <1>2, <2>2, <2>3, <2>4, <2>5, <2>6, <2>7 DEF Next
<1> QED  BY <1>1, <1>2
(* The invariant holds at first. *)
LEMMA InitShows == Init => QInv
<1> SUFFICES ASSUME Init PROVE QInv
  OBVIOUS
<1>1. installed \in SUBSET Peer /\ now \in Nat /\ leaked = {} /\ now = 0 /\ installed = Peer
  BY DEF Init
<1>2. PoolOk(build, pool) /\ Live(pool) = {}
  <2>1. CASE build = "alloc" /\ pool = [slots |-> <<>>, free |-> <<>>, used_bytes |-> 0]
    <3>1. pool \in VecPool /\ pool.slots = <<>> /\ pool.free = <<>> /\ pool.used_bytes = 0
      BY <2>1 DEF VecPool
    <3>2. DOMAIN pool.slots = {} /\ DOMAIN pool.free = {} /\ Len(pool.slots) = 0
      BY <3>1
    <3>3. Live(pool) = {} /\ Range(pool.free) = {} /\ Injective(pool.free)
      BY <3>2 DEF Live, Range, Injective
    <3>4. Bytes(pool.slots, Live(pool)) = 0
      BY <3>3, BytesNone
    <3>5. VecOk(pool)
      BY <3>1, <3>2, <3>3, <3>4, Consts DEF VecOk
    <3> QED  BY <2>1, <3>3, <3>5 DEF PoolOk
  <2>2. CASE build = "no_alloc" /\ pool = [slots |-> [h \in Handle |-> Free]]
    <3>1. pool \in ArenaPool /\ DOMAIN pool.slots = Handle /\ \A h \in Handle : pool.slots[h] = Free
      BY <2>2 DEF ArenaPool
    <3>2. Live(pool) = {}
      BY <3>1 DEF Live, IsLive
    <3>3. ArenaOk(pool)
      BY <3>1, <3>2 DEF ArenaOk
    <3> QED  BY <2>2, <3>2, <3>3 DEF PoolOk
  <2> QED  BY <2>1, <2>2 DEF Init
<1>3. PICK cs : cs = [p \in Peer |-> <<>>]
  OBVIOUS
<1>4. /\ EmptyQueue \in QueueType /\ <<>> \in Seq(Nat) /\ IsChain(pool, EmptyQueue, <<>>)
      /\ Cells(<<>>) = {} /\ PacketsOf(pool, <<>>) = <<>>
  <2>1. EmptyQueue \in QueueType /\ <<>> \in Seq(Nat) /\ Len(<<>>) = 0
    BY DEF EmptyQueue, QueueType, None
  <2>2. 1..0 = {}
    OBVIOUS
  <2>3. PacketsOf(pool, <<>>) = <<>>
    <3>1. 1..Len(<<>>) = {}
      BY <2>1, <2>2
    <3> QED  BY <3>1 DEF PacketsOf
  <2>4. IsChain(pool, EmptyQueue, <<>>)
    BY <2>1, <2>2 DEF IsChain, EmptyQueue
  <2> QED  BY <2>1, <2>2, <2>3, <2>4 DEF Cells
<1>5. queue = [p \in Peer |-> EmptyQueue]
  BY DEF Init
<1>6. Holds(build, pool, queue, cs, leaked)
  <2>1. queue \in [Peer -> QueueType] /\ cs \in [Peer -> Seq(Nat)]
    BY <1>3, <1>4, <1>5
  <2>2. \A p \in Peer : IsChain(pool, queue[p], cs[p]) /\ Cells(cs[p]) = {}
    BY <1>3, <1>4, <1>5
  <2> QED  BY <1>1, <1>2, <2>1, <2>2 DEF Holds
<1>7. \A p \in Peer : Contents(pool, cs)[p] = <<>>
  BY <1>3, <1>4 DEF Contents
<1>8. Fine(Contents(pool, cs), now)
  BY <1>7, WaitsNone DEF Fine
<1> QED  BY <1>1, <1>6, <1>8 DEF QInv, Shows

(* Every step keeps it. *)
LEMMA NextKeeps == QInv /\ [Next]_vars => QInv'
<1> SUFFICES ASSUME QInv, [Next]_vars PROVE QInv'
  OBVIOUS
<1>1. PICK A : Shows(build, pool, queue, leaked, A) /\ Fine(A, now)
  BY DEF QInv
<1>2. installed \in SUBSET Peer /\ now \in Nat
  BY DEF QInv
<1>3. PICK B : NextShows(B) /\ StepsTo(A, B)
  BY <1>1, <1>2, StepShows
<1>4. installed' \in SUBSET Peer /\ now' \in Nat
  <2>1. CASE UNCHANGED vars
    BY <1>2, <2>1 DEF vars
  <2>2. ASSUME NEW p \in Peer, NEW name, NEW size, Encapsulate(p, name, size)
        PROVE  installed' \in SUBSET Peer /\ now' \in Nat
    BY <1>2, <2>2 DEF Encapsulate
  <2>3. ASSUME NEW p \in Peer, HandleHandshake(p)
        PROVE  installed' \in SUBSET Peer /\ now' \in Nat
    BY <1>2, <2>3 DEF HandleHandshake
  <2>4. ASSUME NEW p \in Peer, RemovePeer(p) \/ AddPeer(p) \/ SessionDown(p)
        PROVE  installed' \in SUBSET Peer /\ now' \in Nat
    BY <1>2, <2>4 DEF RemovePeer, AddPeer, SessionDown
  <2>5. CASE TimerTick
    BY <1>2, <2>5 DEF TimerTick
  <2>6. CASE Tick
    BY <1>2, <2>6 DEF Tick
  <2> QED  BY <2>1, <2>2, <2>3, <2>4, <2>5, <2>6 DEF Next
<1> QED  BY <1>3, <1>4 DEF QInv, NextShows, Fine

(* So it always holds. *)
LEMMA QInvAlways == Spec => []QInv
  BY InitShows, NextKeeps, PTL DEF Spec

(* As many members as a sequence without repetition is long. *)
LEMMA CountCells ==
  ASSUME NEW c \in Seq(Nat), \A i, j \in 1..Len(c) : c[i] = c[j] => i = j
  PROVE  Cardinality(Range(c)) = Len(c)
<1>1. PICK n \in Nat : n = Len(c)
  OBVIOUS
<1>2. DOMAIN c = 1..n
  BY <1>1
<1>3. c \in [1..n -> Range(c)]
  BY <1>2 DEF Range
<1>4. c \in Injection(1..n, Range(c)) /\ c \in Surjection(1..n, Range(c))
  BY <1>1, <1>2, <1>3 DEF Injection, IsInjective, Surjection, Range
<1>5. IsFiniteSet(1..n) /\ Cardinality(1..n) = n
  <2>1. IsFiniteSet(1..n) /\ Cardinality(1..n) = IF 1 > n THEN 0 ELSE n - 1 + 1
    BY FS_Interval
  <2> QED  BY <2>1
<1>6. Cardinality(Range(c)) = Cardinality(1..n)
  BY <1>4, <1>5, FS_Surjection
<1> QED  BY <1>1, <1>5, <1>6

(* It implies that the lists are proper. *)
LEMMA ListsFollow == QInv => ListsAreProper
<1> SUFFICES ASSUME QInv PROVE ListsAreProper
  OBVIOUS
<1>1. PICK cs : Holds(build, pool, queue, cs, leaked)
  BY DEF QInv, Shows
<1>2. ASSUME NEW p \in Peer
      PROVE  LET c == Chain(p)
             IN  /\ Len(c) = queue[p].len
                 /\ Cardinality(Range(c)) = Len(c)
                 /\ queue[p].tail = IF c = <<>> THEN None ELSE Last(c)
                 /\ c # <<>> => pool.slots[Last(c)].next = None
                 /\ \A i \in DOMAIN c : IsLive(pool, c[i])
  <2>1. PICK c, q : c = Chain(p) /\ q = queue[p]
    OBVIOUS
  <2>2. IsChain(pool, q, c)
    BY <1>1, <2>1, ChainIs DEF Holds
  <2>3. c \in Seq(Nat) /\ Len(c) \in Nat /\ (c = <<>> <=> Len(c) = 0) /\ DOMAIN c = 1..Len(c)
    BY <2>2 DEF IsChain
  <2>4. Cardinality(Range(c)) = Len(c)
    BY <2>2, <2>3, CountCells DEF IsChain
  <2>5. q.len = Len(c) /\ q.tail = IF c = <<>> THEN None ELSE Last(c)
    BY <2>2, <2>3 DEF IsChain, Last
  <2>6. ASSUME c # <<>> PROVE pool.slots[Last(c)].next = None
    <3>1. Len(c) \in 1..Len(c) /\ ~(Len(c) < Len(c))
      BY <2>3, <2>6
    <3> QED  BY <2>2, <3>1 DEF IsChain, Last
  <2>7. \A i \in DOMAIN c : IsLive(pool, c[i])
    BY <2>2, <2>3 DEF IsChain, Live
  <2> QED  BY <2>1, <2>4, <2>5, <2>6, <2>7
<1>3. ASSUME NEW p \in Peer, NEW r \in Peer, p # r
      PROVE  Range(Chain(p)) \cap Range(Chain(r)) = {}
  <2>1. Chain(p) = cs[p] /\ Chain(r) = cs[r] /\ cs[p] \in Seq(Nat) /\ cs[r] \in Seq(Nat)
    BY <1>1, ChainIs DEF Holds
  <2>2. Cells(cs[p]) \cap Cells(cs[r]) = {}
    BY <1>1, <1>3 DEF Holds
  <2> QED  BY <2>1, <2>2, RangeIs
<1> QED  BY <1>2, <1>3 DEF ListsAreProper

(* And that the books are right. *)
LEMMA AccountsFollow == QInv => PoolAccounts
<1> SUFFICES ASSUME QInv PROVE PoolAccounts
  OBVIOUS
<1>1. PICK A, cs : Holds(build, pool, queue, cs, leaked) /\ A = Contents(pool, cs) /\ Fine(A, now)
  BY DEF QInv, Shows
<1>2. Live(pool) = leaked \cup UNION {Range(Chain(p)) : p \in Peer}
  <2>1. ASSUME NEW p \in Peer PROVE Range(Chain(p)) = Cells(cs[p])
    <3>1. Chain(p) = cs[p] /\ cs[p] \in Seq(Nat)
      BY <1>1, ChainIs DEF Holds
    <3> QED  BY <3>1, RangeIs
  <2>2. Live(pool) = leaked \cup UNION {Cells(cs[p]) : p \in Peer}
    BY <1>1 DEF Holds
  <2> QED  BY <2>1, <2>2
<1>3. ASSUME NEW p \in Peer PROVE queue[p].len <= MAX_PENDING_PACKETS
  <2>1. PICK c : c = cs[p]
    OBVIOUS
  <2>2. Len(A[p]) = Len(c) /\ IsChain(pool, queue[p], c)
    BY <1>1, <2>1, ShowsType
  <2>3. Len(A[p]) <= MAX_PENDING_PACKETS
    BY <1>1 DEF Fine, Waits
  <2> QED  BY <2>2, <2>3 DEF IsChain
<1>4. PoolOk(build, pool)
  BY <1>1 DEF Holds
<1>5. ASSUME build = "alloc" PROVE VecAccounts
  <2>1. VecOk(pool)
    BY <1>4, <1>5 DEF PoolOk
  <2>2. pool.free \in Seq(Nat) /\ DOMAIN pool.free = 1..Len(pool.free)
    BY <2>1 DEF VecOk, VecPool
  <2>3. Cardinality(Range(pool.free)) = Len(pool.free)
    <3>1. PICK c \in Seq(Nat) : c = pool.free
      BY <2>2
    <3>2. \A i, j \in 1..Len(c) : c[i] = c[j] => i = j
      BY <2>1, <2>2, <3>1 DEF VecOk, Injective
    <3>3. Cardinality(Range(c)) = Len(c)
      BY <3>2, CountCells
    <3> QED  BY <3>1, <3>3
  <2>4. pool.used_bytes = MapThenSumSet(LAMBDA h : pool.slots[h].size, Live(pool))
    BY <2>1 DEF VecOk, Bytes
  <2> QED  BY <2>1, <2>3, <2>4 DEF VecOk, VecAccounts
<1>6. ASSUME build # "alloc" PROVE ArenaAccounts
  <2>1. ArenaOk(pool)
    BY <1>4, <1>6 DEF PoolOk
  <2>2. ASSUME NEW size \in Sizes, NEW start \in 0..BYTES - size,
               \A h \in Live(pool) : ~Meets(pool, h, start, size)
        PROVE  find_gap(pool, size) + size <= BYTES
    <3>1. size \in Nat /\ start \in Nat /\ start + size <= BYTES /\ BYTES \in Nat
      BY Consts
    <3>2. IsGap(pool, start, size)
      BY <2>2, <3>1 DEF IsGap
    <3>3. find_gap(pool, size) \in Nat /\ find_gap(pool, size) <= start
      BY <2>1, <3>1, <3>2, FindGap
    <3> QED  BY <3>1, <3>3
  <2> QED  BY <2>1, <2>2 DEF ArenaOk, ArenaAccounts, End
<1> QED  BY <1>2, <1>3, <1>5, <1>6 DEF PoolAccounts

(* Every queue is a proper list at all times: whatever the interleaving of  *)
(* queue_packet, flush_queued_packet, drop_expired_queued_packets and       *)
(* free_chain on lists that share one pool, no two of them share a packet,  *)
(* and head, tail and length agree.                                         *)
THEOREM ListsAlwaysProper == Spec => []ListsAreProper
  BY QInvAlways, ListsFollow, PTL

(* The books of the pool are right at all times: alloc and free keep the    *)
(* free list and the byte count of the growing table, the stretches that    *)
(* find_gap hands out in the arena never overlap, and it finds a gap        *)
(* whenever there is one.                                                   *)
THEOREM PoolAlwaysAccounts == Spec => []PoolAccounts
  BY QInvAlways, AccountsFollow, PTL
-----------------------------------------------------------------------------
(* The abstract queues. *)

KeptTo(s, k, i) == [j \in 1..(i - k) |-> s[j + k]]

(* One packet more is looked at. *)
LEMMA KeptMore ==
  ASSUME NEW T, NEW s \in Seq(T), NEW k \in 0..Len(s), NEW i \in 1..Len(s)
  PROVE  /\ i <= k => KeptTo(s, k, i) = KeptTo(s, k, i - 1)
         /\ i > k => KeptTo(s, k, i) = Append(KeptTo(s, k, i - 1), s[i])
<1>1. PICK n \in Nat : n = Len(s)
  OBVIOUS
<1>2. k \in Nat /\ k <= n /\ i \in Nat /\ 1 <= i /\ i <= n
  BY <1>1
<1>3. ASSUME i <= k PROVE KeptTo(s, k, i) = KeptTo(s, k, i - 1)
  <2>1. 1..(i - k) = {} /\ 1..((i - 1) - k) = {}
    BY <1>2, <1>3
  <2> QED  BY <2>1 DEF KeptTo
<1>4. ASSUME i > k PROVE KeptTo(s, k, i) = Append(KeptTo(s, k, i - 1), s[i])
  <2>1. PICK m \in Nat : m = (i - 1) - k
    BY <1>2, <1>4
  <2>2. i - k = m + 1 /\ m + 1 + k = i
    BY <1>2, <2>1
  <2>3. \A j \in 1..(m + 1) : j + k \in 1..n
    BY <1>2, <2>2
  <2>4. \A j \in 1..(m + 1) : s[j + k] \in T
    BY <1>1, <2>3
  <2>5. PICK u, v : u = KeptTo(s, k, i - 1) /\ v = KeptTo(s, k, i)
    OBVIOUS
  <2>6. u = [j \in 1..m |-> s[j + k]] /\ v = [j \in 1..(m + 1) |-> s[j + k]]
    BY <2>1, <2>2, <2>5 DEF KeptTo
  <2>7. u \in [1..m -> T] /\ v \in [1..(m + 1) -> T]
    <3>1. \A j \in 1..m : s[j + k] \in T
      <4>1. \A j \in 1..m : j \in 1..(m + 1)
        OBVIOUS
      <4> QED  BY <2>4, <4>1
    <3>2. u \in [1..m -> T]
      BY <2>6, <3>1
    <3>3. v \in [1..(m + 1) -> T]
      BY <2>4, <2>6
    <3> QED  BY <3>2, <3>3
  <2>8. u \in Seq(T) /\ Len(u) = m /\ v \in Seq(T) /\ Len(v) = m + 1
    BY <2>7
  <2>9. PICK w : w = Append(u, s[i])
    OBVIOUS
  <2>10. s[i] \in T
    BY <1>1, <1>2
  <2>11. w \in Seq(T) /\ Len(w) = m + 1 /\ w[m + 1] = s[i] /\ \A j \in 1..m : w[j] = u[j]
    BY <2>8, <2>9, <2>10
  <2>12. ASSUME NEW j \in 1..(m + 1) PROVE w[j] = v[j]
    <3>1. CASE j = m + 1
      BY <2>2, <2>6, <2>11, <3>1
    <3>2. CASE j \in 1..m
      BY <2>6, <2>11, <3>2
    <3>3. j \in 1..m \/ j = m + 1
      OBVIOUS
    <3> QED  BY <3>1, <3>2, <3>3
  <2>13. w = v
    BY <2>8, <2>11, <2>12
  <2> QED  BY <2>5, <2>9, <2>13
<1> QED  BY <1>3, <1>4

(* Fresh of the abstract specification is what the sweep leaves. *)
LEMMA FreshIs ==
  ASSUME NEW s, NEW t, Waits(s, t), now \in Nat
  PROVE  Abstract!Fresh(s, now) = Left(s)
<1>1. PICK k : Cut(s, k)
  BY CutExists
<1>2. PICK n \in Nat : n = Len(s) /\ k \in 0..n /\ k \in Nat /\ s \in Seq(PacketType)
  BY <1>1 DEF Waits, Cut
<1>3. Left(s) = Rest(s, k)
  BY <1>1, <1>2, LeftIs
<1> DEFINE Young(i) == now - s[i].queued_at < PENDING_PACKET_TTL
           Is(r) == r = [i \in 0..n |-> IF i = 0 THEN <<>>
                                        ELSE IF Young(i) THEN Append(r[i - 1], s[i]) ELSE r[i - 1]]
           g == [i \in 0..n |-> KeptTo(s, k, i)]
<1>4. ASSUME NEW i \in 1..n
      PROVE  /\ Young(i) <=> i > k
             /\ KeptTo(s, k, i) = IF Young(i) THEN Append(KeptTo(s, k, i - 1), s[i])
                                  ELSE KeptTo(s, k, i - 1)
  <2>1. s[i] \in PacketType
    BY <1>2
  <2>2. s[i].queued_at \in Nat
    BY <2>1 DEF PacketType
  <2>3. Young(i) <=> ~Old(s[i])
    BY <2>2, Consts DEF Old
  <2>4. Young(i) <=> i > k
    <3>1. CASE i > k
      <4>1. i \in (k + 1)..Len(s)
        BY <1>2, <3>1
      <4> QED  BY <1>1, <2>3, <3>1, <4>1 DEF Cut
    <3>2. CASE ~(i > k)
      <4>1. i \in 1..k
        BY <1>2, <3>2
      <4> QED  BY <1>1, <2>3, <3>2, <4>1 DEF Cut
    <3> QED  BY <3>1, <3>2
  <2> HIDE DEF Young
  <2>5. /\ i <= k => KeptTo(s, k, i) = KeptTo(s, k, i - 1)
        /\ i > k => KeptTo(s, k, i) = Append(KeptTo(s, k, i - 1), s[i])
    BY <1>2, KeptMore
  <2>6. i <= k \/ i > k
    BY <1>2
  <2> QED  BY <2>4, <2>5, <2>6
<1>5. KeptTo(s, k, 0) = <<>>
  <2>1. 1..(0 - k) = {}
    BY <1>2
  <2> QED  BY <2>1 DEF KeptTo
<1> HIDE DEF Young
<1>6. Is(g)
  <2>1. g[0] = <<>>
    BY <1>2, <1>5
  <2>2. ASSUME NEW i \in 0..n, i # 0
        PROVE  g[i] = IF Young(i) THEN Append(g[i - 1], s[i]) ELSE g[i - 1]
    <3>1. i \in 1..n /\ i - 1 \in 0..n
      BY <1>2, <2>2
    <3> QED  BY <1>4, <3>1
  <2>3. g = [i \in 0..n |-> g[i]]
    OBVIOUS
  <2> HIDE DEF g
  <2> QED  BY <2>1, <2>2, <2>3
<1> DEFINE r == CHOOSE f : Is(f)
<1>7. Abstract!Fresh(s, now) = r[n]
  BY <1>2 DEF Abstract!Fresh, Young
<1>8. Is(r)
  BY <1>6
<1> HIDE DEF r, g
<1> DEFINE R == [i \in 0..n |-> {KeptTo(s, k, i)}]
<1>9. r[n] = KeptTo(s, k, n)
  <2>1. r[0] = <<>> /\ \A i \in 1..n : r[i] = IF Young(i) THEN Append(r[i - 1], s[i]) ELSE r[i - 1]
    <3>1. \A i \in 0..n : r[i] = IF i = 0 THEN <<>>
                                 ELSE IF Young(i) THEN Append(r[i - 1], s[i]) ELSE r[i - 1]
      BY ONLY <1>8
    <3>2. 0 \in 0..n /\ \A i \in 1..n : i \in 0..n /\ i # 0
      BY <1>2
    <3> QED  BY <3>1, <3>2
  <2>2. r[0] \in R[0]
    BY <1>2, <1>5, <2>1
  <2>3. ASSUME NEW i \in 1..n, r[i - 1] \in R[i - 1] PROVE r[i] \in R[i]
    <3>1. i \in 0..n /\ i - 1 \in 0..n
      BY <1>2
    <3>2. r[i - 1] = KeptTo(s, k, i - 1)
      BY <2>3, <3>1
    <3>3. r[i] = KeptTo(s, k, i)
      BY <1>4, <2>1, <3>2
    <3> QED  BY <3>1, <3>3
  <2>4. n \in 0..n
    BY <1>2
  <2>5. R[n] = {KeptTo(s, k, n)}
    BY <2>4
  <2> HIDE DEF R, Is
  <2>6. \A i \in 0..n : r[i] \in R[i]
    BY <1>2, <2>2, <2>3, LoopInv
  <2> QED  BY <2>4, <2>5, <2>6
<1>10. KeptTo(s, k, n) = Rest(s, k)
  BY <1>2 DEF KeptTo, Rest
<1> QED  BY <1>3, <1>7, <1>9, <1>10

(* The packets of the specification are those of the lists. *)
LEMMA PacketsAre ==
  ASSUME NEW A, Shows(build, pool, queue, leaked, A)
  PROVE  [p \in Peer |-> Packets(p)] = A
<1>1. PICK cs : Holds(build, pool, queue, cs, leaked) /\ A = Contents(pool, cs)
  BY DEF Shows
<1>2. ASSUME NEW p \in Peer PROVE Packets(p) = PacketsOf(pool, cs[p])
  <2>1. Chain(p) = cs[p] /\ cs[p] \in Seq(Nat)
    BY <1>1, ChainIs DEF Holds
  <2>2. PICK c : c = cs[p]
    OBVIOUS
  <2>3. DOMAIN c = 1..Len(c)
    BY <2>1, <2>2
  <2>4. Packets(p) = [i \in DOMAIN c |-> PacketIn(c[i])]
    BY <2>1, <2>2 DEF Packets
  <2> QED  BY <2>2, <2>3, <2>4 DEF PacketIn, PacketsOf, Packet
<1> QED  BY <1>1, <1>2 DEF Contents

(* The same of the next state. *)
LEMMA PacketsAreNext ==
  ASSUME NEW A, Shows(build', pool', queue', leaked', A)
  PROVE  [p \in Peer |-> Packets(p)]' = A
<1>1. PICK cs : Holds(build', pool', queue', cs, leaked') /\ A = Contents(pool', cs)
  BY DEF Shows
<1>2. ASSUME NEW p \in Peer PROVE Packets(p)' = PacketsOf(pool', cs[p])
  <2>1. Chain(p)' = cs[p] /\ cs[p] \in Seq(Nat)
    BY <1>1, ChainIsNext DEF Holds
  <2>2. PICK c : c = cs[p]
    OBVIOUS
  <2>3. DOMAIN c = 1..Len(c)
    BY <2>1, <2>2
  <2>4. Packets(p)' = [i \in DOMAIN c |->
                         [payload |-> [name |-> pool'.slots[c[i]].name, size |-> pool'.slots[c[i]].size],
                          queued_at |-> pool'.slots[c[i]].queued_at]]
    BY <2>1, <2>2 DEF Packets, PacketIn
  <2> QED  BY <2>2, <2>3, <2>4 DEF PacketsOf, Packet
<1> QED  BY <1>1, <1>2 DEF Contents
(* Every step of the lists is a step of the abstract queues, or none. *)
LEMMA StepRefines ==
  ASSUME QInv, [Next]_vars
  PROVE  [Abstract!Next]_<<[p \in Peer |-> Packets(p)], now>>
<1>1. PICK A : Shows(build, pool, queue, leaked, A) /\ Fine(A, now)
  BY DEF QInv
<1>2. installed \in SUBSET Peer /\ now \in Nat
  BY DEF QInv
<1>3. PICK B : NextShows(B) /\ StepsTo(A, B)
  BY <1>1, <1>2, StepShows
<1>4. [p \in Peer |-> Packets(p)] = A
  BY <1>1, PacketsAre
<1>5. [p \in Peer |-> Packets(p)]' = B
  BY <1>3, PacketsAreNext DEF NextShows
<1>6. A = [p \in Peer |-> A[p]] /\ \A p \in Peer : Waits(A[p], now)
  BY <1>1, ShowsPool DEF Fine
<1>7. Abstract!AllFresh = AllLeft(A)
  <2>1. \A p \in Peer : Abstract!Fresh(A[p], now) = Left(A[p])
    BY <1>2, <1>6, FreshIs
  <2>2. Abstract!AllFresh = [p \in Peer |-> Abstract!Fresh(A[p], now)]
    BY <1>4 DEF Abstract!AllFresh
  <2> QED  BY <2>1, <2>2 DEF AllLeft
<1>8. PICK L : L = AllLeft(A)
  OBVIOUS
<1>9. \A p \in Peer : L[p] \in Seq(PacketType) /\ Waits(L[p], now)
  BY <1>2, <1>6, <1>8, LeftFacts DEF AllLeft, Waits
<1>10. ASSUME NEW gone \in SUBSET Peer, now' = now,
              B = [p \in Peer |-> IF p \in gone THEN <<>> ELSE Left(A[p])]
       PROVE  Abstract!Next
  <2>1. B = [p \in Peer |-> IF p \in gone THEN <<>> ELSE Abstract!AllFresh[p]]
    BY <1>7, <1>10 DEF AllLeft
  <2>2. Abstract!Expire
    BY <1>5, <1>10, <2>1 DEF Abstract!Expire
  <2> QED  BY <2>2 DEF Abstract!Next
<1>11. CASE Keeps(A, B)
  <2>1. CASE now' = now
    BY <1>4, <1>5, <1>11, <2>1 DEF Keeps
  <2>2. CASE now' # now
    <3>1. now' \in Nat
      BY NextKeeps DEF QInv
    <3>2. now' > now
      BY <1>2, <1>11, <2>2, <3>1 DEF Keeps
    <3>3. Abstract!Wait
      BY <1>4, <1>5, <1>11, <3>2 DEF Keeps, Abstract!Wait
    <3> QED  BY <3>3 DEF Abstract!Next
  <2> QED  BY <2>1, <2>2
<1>12. CASE Removes(A, B)
  <2>1. PICK p \in Peer : B = [A EXCEPT ![p] = <<>>]
    BY <1>12 DEF Removes
  <2>2. Abstract!Drop(p)
    BY <1>4, <1>5, <1>12, <2>1 DEF Removes, Abstract!Drop
  <2> QED  BY <2>2 DEF Abstract!Next
<1>13. CASE Sends(A, B)
  <2>0. PICK p \in Peer : \E k \in 0..Len(L[p]) : B = [L EXCEPT ![p] = Rest(L[p], k)]
    BY <1>8, <1>13 DEF Sends
  <2>1. PICK k \in 0..Len(L[p]) : B = [L EXCEPT ![p] = Rest(L[p], k)]
    BY <2>0
  <2>2. now' = now
    BY <1>13 DEF Sends
  <2>3. CASE k = 0
    <3>1. Rest(L[p], k) = L[p]
      BY <1>9, <2>3, RestZero
    <3>2. PICK gone \in SUBSET Peer : gone = {}
      OBVIOUS
    <3>3. B = [r \in Peer |-> IF r \in gone THEN <<>> ELSE Left(A[r])]
      BY <1>8, <2>1, <3>1, <3>2 DEF AllLeft
    <3> QED  BY <1>10, <2>2, <3>3
  <2>4. CASE k # 0
    <3>1. k \in 1..Len(L[p])
      BY <1>9, <2>4
    <3>2. Rest(L[p], k) = SubSeq(L[p], k + 1, Len(L[p]))
      BY <1>9, RestIs
    <3>3. B = [L EXCEPT ![p] = SubSeq(@, k + 1, Len(@))]
      BY <2>1, <3>2
    <3>4. Abstract!Send(p)
      BY <1>5, <1>7, <1>8, <2>2, <3>1, <3>3 DEF Abstract!Send
    <3> QED  BY <3>4 DEF Abstract!Next
  <2> QED  BY <2>3, <2>4
<1>14. CASE Queues(A, B)
  <2>1. PICK p \in Peer, name \in Names, size \in Sizes :
          /\ Len(L[p]) < MAX_PENDING_PACKETS
          /\ B = [L EXCEPT ![p] =
                    Append(L[p], [payload |-> [name |-> name, size |-> size], queued_at |-> now])]
    BY <1>8, <1>14 DEF Queues
  <2>2. PICK payload \in [name : Names, size : Sizes] : payload = [name |-> name, size |-> size]
    OBVIOUS
  <2>3. B = [L EXCEPT ![p] = Append(@, [payload |-> payload, queued_at |-> now])]
    BY <2>1, <2>2
  <2>4. Abstract!Queue(p)
    BY <1>5, <1>7, <1>8, <1>14, <2>1, <2>3 DEF Queues, Abstract!Queue
  <2> QED  BY <2>4 DEF Abstract!Next
<1>15. CASE Expires(A, B)
  BY <1>10, <1>15 DEF Expires
<1> QED  BY <1>3, <1>11, <1>12, <1>13, <1>14, <1>15 DEF StepsTo

(* At first the abstract queues are empty. *)
LEMMA InitRefines == Init => Abstract!Init
<1> SUFFICES ASSUME Init PROVE Abstract!Init
  OBVIOUS
<1>1. PICK A : Shows(build, pool, queue, leaked, A)
  BY InitShows DEF QInv
<1>2. PICK cs : Holds(build, pool, queue, cs, leaked) /\ A = Contents(pool, cs)
  BY <1>1 DEF Shows
<1>3. ASSUME NEW p \in Peer PROVE A[p] = <<>>
  <2>1. PICK c : c = cs[p]
    OBVIOUS
  <2>2. A[p] = PacketsOf(pool, c) /\ IsChain(pool, queue[p], c)
    BY <1>2, <2>1, ShowsType
  <2>3. Len(c) = 0
    BY <2>2 DEF Init, EmptyQueue, IsChain
  <2>4. 1..Len(c) = {}
    BY <2>3
  <2> QED  BY <2>2, <2>4 DEF PacketsOf
<1>4. [p \in Peer |-> Packets(p)] = A /\ A = [p \in Peer |-> A[p]]
  BY <1>1, PacketsAre, ShowsPool
<1>5. [p \in Peer |-> Packets(p)] = [p \in Peer |-> <<>>]
  BY <1>3, <1>4
<1> QED  BY <1>5 DEF Abstract!Init, Init

(* A timer tick leaves nothing expired on the queues of the device. *)
LEMMA TickSweeps ==
  ASSUME QInv, [Next]_vars
  PROVE  [TimerTick => \A p \in installed : \A i \in DOMAIN Chain(p)' :
            now - pool'.slots[Chain(p)'[i]].queued_at < PENDING_PACKET_TTL]_vars
<1>1. SUFFICES ASSUME Next, TimerTick, NEW p \in installed, NEW i \in DOMAIN Chain(p)'
               PROVE  now - pool'.slots[Chain(p)'[i]].queued_at < PENDING_PACKET_TTL
  OBVIOUS
<1>2. PICK A : Shows(build, pool, queue, leaked, A) /\ Fine(A, now)
  BY DEF QInv
<1>3. installed \in SUBSET Peer /\ now \in Nat /\ UNCHANGED build /\ p \in Peer
  BY <1>1 DEF QInv, Next
<1>4. PICK B : NextShows(B) /\ \A r \in Peer : \A j \in 1..Len(B[r]) : ~Old(B[r][j])
  BY <1>1, <1>2, <1>3, TimerShows
<1>5. PICK cs : Holds(build', pool', queue', cs, leaked') /\ B = Contents(pool', cs)
  BY <1>4 DEF NextShows, Shows
<1>6. Chain(p)' = cs[p] /\ cs[p] \in Seq(Nat)
  BY <1>3, <1>5, ChainIsNext DEF Holds
<1>7. PICK c \in Seq(Nat) : c = cs[p]
  BY <1>6
<1>8. i \in 1..Len(c) /\ Chain(p)' = c
  BY <1>6, <1>7
<1>9. B[p] = PacketsOf(pool', c)
  BY <1>3, <1>5, <1>7 DEF Contents
<1>10. Waits(B[p], now')
  BY <1>3, <1>4 DEF NextShows
<1>11. Len(B[p]) = Len(c) /\ B[p][i] = Packet(pool', c[i])
  BY <1>7, <1>8, <1>9 DEF PacketsOf
<1>12. B[p][i] \in PacketType
  BY <1>8, <1>10, <1>11 DEF Waits
<1>13. B[p][i].queued_at = pool'.slots[c[i]].queued_at /\ B[p][i].queued_at \in Nat
  BY <1>11, <1>12 DEF Packet, PacketType
<1>14. ~(now - B[p][i].queued_at >= PENDING_PACKET_TTL)
  BY <1>3, <1>4, <1>8, <1>11 DEF Old
<1> QED  BY <1>3, <1>8, <1>13, <1>14, Consts

(* drop_expired_queued_packets stops at the first packet that has not       *)
(* expired, and still misses none: after a timer tick no queue of a peer    *)
(* the device has holds an expired packet.                                  *)
THEOREM TicksAlwaysSweep == Spec => TickSweepsQueues
<1>1. QInv /\ [Next]_vars =>
        [TimerTick => \A p \in installed : \A i \in DOMAIN Chain(p)' :
           now - pool'.slots[Chain(p)'[i]].queued_at < PENDING_PACKET_TTL]_vars
  BY TickSweeps
<1> QED  BY <1>1, QInvAlways, PTL DEF Spec, TickSweepsQueues

(* The shared intrusive lists implement one FIFO per peer: a packet leaves  *)
(* its queue from the front or when it has expired, and none is lost,       *)
(* duplicated or passed to another peer by the relinking of the pool.       *)
THEOREM ListsImplementFifo == Spec => ImplementsFifo
<1>1. QInv /\ [Next]_vars => [Abstract!Next]_<<[p \in Peer |-> Packets(p)], now>>
  BY StepRefines
<1> QED  BY <1>1, InitRefines, QInvAlways, PTL DEF Spec, ImplementsFifo, Abstract!Spec

=============================================================================
