----------------------------- MODULE AllowedIPs -----------------------------
(***************************************************************************)
(* allowed_ips.rs: the path-compressed binary trie of one address family,  *)
(* kept in an arena of nodes that only grows until it is cleared.  It      *)
(* routes inner packets to peers, tells whether a source address is a      *)
(* peer's, and finds overlapping routes.                                   *)
(*                                                                         *)
(* A prefix masked to its length is the sequence of its bits.  Arena       *)
(* indexes start at 1 and None is 0.                                       *)
(***************************************************************************)
EXTENDS Integers, Sequences, FiniteSets, SequencesExt, FiniteSetsExt

CONSTANTS
  ADDR_BITS,   \* width of an address (32 or 128 in the code)
  N,           \* nodes of the arena, the root included
  Data,        \* payloads
  Routes       \* prefixes that are inserted

None == 0
NoData == "none"
Address == [1..ADDR_BITS -> {0, 1}]
Prefix == UNION {[1..k -> {0, 1}] : k \in 0..ADDR_BITS}

ASSUME TrieAssumption ==
  ADDR_BITS \in Nat \ {0} /\ N \in Nat \ {0} /\ Routes \subseteq Prefix

VARIABLES
  nodes,   \* the arena: [prefix, child, data]
  table    \* history: what the successful calls ask of it, prefix -> payload

vars == <<nodes, table>>

Node(prefix, child, data) == [prefix |-> prefix, child |-> child, data |-> data]
Leaf(prefix, data) == Node(prefix, [b \in {0, 1} |-> None], data)

EmptyTable == [p \in Prefix |-> NoData]

Init == nodes = <<Leaf(<<>>, NoData)>> /\ table = EmptyTable
-----------------------------------------------------------------------------
common_prefix_len(a, b) ==
  Max({k \in 0..Min({Len(a), Len(b)}) : SubSeq(a, 1, k) = SubSeq(b, 1, k)})

prefixes_overlap(a, b) == common_prefix_len(a, b) = Min({Len(a), Len(b)})

(* The child of node i on the way to the bits of p; p is longer than i's prefix. *)
ChildOn(i, p) == nodes[i].child[p[Len(nodes[i].prefix) + 1]]

(* One turn of insert's loop: descend while the child's prefix is one of p. *)
Descend(i, p) ==
  IF Len(nodes[i].prefix) = Len(p) THEN i
  ELSE LET c == ChildOn(i, p)
       IN  IF c # None /\ common_prefix_len(p, nodes[c].prefix) = Len(nodes[c].prefix)
           THEN c ELSE i

(* The node insert stops at: every turn lengthens the prefix. *)
Cursor(p) ==
  LET at[k \in 0..ADDR_BITS] == IF k = 0 THEN 1 ELSE Descend(at[k - 1], p)
  IN  at[ADDR_BITS]

Link(arena, i, p, new) == [arena EXCEPT ![i].child[p[Len(arena[i].prefix) + 1]] = new]

(* The arena with p's leaf below node i. *)
WithLeaf(i, p, data) == Link(Append(nodes, Leaf(p, data)), i, p, Len(nodes) + 1)

(* Nodes a split takes: the intermediate one is the entry when p ends there. *)
Needed(p, common) == IF common = Len(p) THEN 1 ELSE 2

SplitLosingSide(i, p, data) ==   \* mutant: the old child hangs on the branch of p
  LET c == ChildOn(i, p)
      common == common_prefix_len(p, nodes[c].prefix)
      mid == Len(nodes) + 1
      old == [b \in {0, 1} |-> IF common < Len(p) /\ b = p[common + 1] THEN c ELSE None]
      split == IF common = Len(p) THEN <<Node(p, old, data)>>
               ELSE <<Node(SubSeq(p, 1, common), old, NoData), Leaf(p, data)>>
  IN  Link(nodes \o split, i, p, mid)

(* The arena with the child of i split where p leaves it. *)
WithSplit(i, p, data) ==
  LET c == ChildOn(i, p)
      common == common_prefix_len(p, nodes[c].prefix)
      mid == Len(nodes) + 1
      below(b) == CASE b = nodes[c].prefix[common + 1] -> c
                    [] common < Len(p) /\ b = p[common + 1] -> mid + 1
                    [] OTHER -> None
      split == IF common = Len(p) THEN <<Node(p, [b \in {0, 1} |-> below(b)], data)>>
               ELSE <<Node(SubSeq(p, 1, common), [b \in {0, 1} |-> below(b)], NoData),
                      Leaf(p, data)>>
  IN  Link(nodes \o split, i, p, mid)
-----------------------------------------------------------------------------
(* insert: an existing node takes the payload, a leaf is added, or a child  *)
(* is split; an arena without room refuses and stays as it was.             *)

insert(p, data) ==
  LET i == Cursor(p)
      here == Len(nodes[i].prefix) = Len(p)
      c == IF here THEN None ELSE ChildOn(i, p)
      room == IF c = None THEN 1 ELSE Needed(p, common_prefix_len(p, nodes[c].prefix))
      stored == table' = [table EXCEPT ![p] = data]
  IN  \/ here /\ stored /\ nodes' = [nodes EXCEPT ![i].prefix = p, ![i].data = data]
      \/ ~here /\ c = None /\ Len(nodes) + room <= N
         /\ stored /\ nodes' = WithLeaf(i, p, data)
      \/ ~here /\ c # None /\ Len(nodes) + room <= N
         /\ stored /\ nodes' = WithSplit(i, p, data)
      \/ ~here /\ Len(nodes) + room > N /\ UNCHANGED vars

ClearFirstHit(data) ==   \* mutant: only the first node that matches is cleared
  LET hits == {i \in DOMAIN nodes : nodes[i].data = data}
  IN  /\ nodes' = IF hits = {} THEN nodes ELSE [nodes EXCEPT ![Min(hits)].data = NoData]
      /\ table' = [p \in Prefix |-> IF table[p] = data THEN NoData ELSE table[p]]

(* remove clears the payloads that match and prunes nothing. *)
remove(data) ==
  /\ nodes' = [i \in DOMAIN nodes |->
                 IF nodes[i].data = data THEN [nodes[i] EXCEPT !.data = NoData] ELSE nodes[i]]
  /\ table' = [p \in Prefix |-> IF table[p] = data THEN NoData ELSE table[p]]

clear == nodes' = <<Leaf(<<>>, NoData)>> /\ table' = EmptyTable

Next ==
  \/ \E p \in Routes, data \in Data : insert(p, data)
  \/ \E data \in Data : remove(data)
  \/ clear

Spec == Init /\ [][Next]_vars
-----------------------------------------------------------------------------
(* Lookups, which change nothing. *)

Matches(key, i) == SubSeq(key, 1, Len(nodes[i].prefix)) = nodes[i].prefix

(* One turn of find's loop; at the end of the walk it stands still. *)
FindUnchecked(at, key) ==   \* mutant: the bits a compressed child skips are not compared
  LET c == IF Len(nodes[at.node].prefix) = ADDR_BITS THEN None ELSE ChildOn(at.node, key)
  IN  IF c = None THEN at
      ELSE [node |-> c, best |-> IF nodes[c].data = NoData THEN at.best ELSE nodes[c].data]

FindStep(at, key) ==
  LET c == IF Len(nodes[at.node].prefix) = ADDR_BITS THEN None ELSE ChildOn(at.node, key)
  IN  IF c = None \/ ~Matches(key, c) THEN at
      ELSE [node |-> c, best |-> IF nodes[c].data = NoData THEN at.best ELSE nodes[c].data]

find(key) ==
  LET at[k \in 0..ADDR_BITS] ==
        IF k = 0 THEN [node |-> 1, best |-> nodes[1].data] ELSE FindStep(at[k - 1], key)
  IN  at[ADDR_BITS].best

iter == {<<nodes[i].prefix, nodes[i].data>> : i \in {j \in DOMAIN nodes : nodes[j].data # NoData}}

overlaps(p) == \E entry \in iter : prefixes_overlap(p, entry[1])
-----------------------------------------------------------------------------
Children(i) == {nodes[i].child[b] : b \in {0, 1}} \ {None}

(* However inserts split it, the arena is one tree within its capacity: a   *)
(* child's prefix extends its parent's by the bit of its branch, every node *)
(* but the root has one parent, and no prefix has two nodes (insert).  A    *)
(* link out of the arena would panic.                                       *)
TrieIsProper ==
  /\ Len(nodes) <= N /\ \A i \in DOMAIN nodes : Children(i) \subseteq DOMAIN nodes
  /\ \A i \in DOMAIN nodes, b \in {0, 1} :
       nodes[i].child[b] # None => IsPrefix(Append(nodes[i].prefix, b), nodes[nodes[i].child[b]].prefix)
  /\ \A i \in 2..Len(nodes) : Cardinality({j \in DOMAIN nodes : i \in Children(j)}) = 1
  /\ Cardinality({nodes[i].prefix : i \in DOMAIN nodes}) = Len(nodes)

(* The trie holds what was inserted and not removed since, a refused insert *)
(* and the lazy removals included (insert, remove, clear, iter).            *)
TableAgrees == iter = {<<p, table[p]>> : p \in {q \in Prefix : table[q] # NoData}}

(* A packet goes to the peer of the longest inserted prefix of its address, *)
(* whatever the trie's shape (find).                                        *)
FindIsLongestMatch ==
  \A key \in Address :
    LET held == {k \in 0..ADDR_BITS : table[SubSeq(key, 1, k)] # NoData}
    IN  find(key) = IF held = {} THEN NoData ELSE table[SubSeq(key, 1, Max(held))]

(* Two prefixes overlap when an address is in both: the check that keeps    *)
(* peers' routes apart neither misses one nor refuses a disjoint one.       *)
OverlapsIsExact ==
  \A p \in Prefix :
    overlaps(p) <=> \E q \in Prefix, key \in Address :
                      /\ table[q] # NoData
                      /\ IsPrefix(p, key) /\ IsPrefix(q, key)

(* Whatever was inserted, split, removed and refused before, every lookup   *)
(* answers as the table would (find, overlaps).                             *)
LookupsAgree == FindIsLongestMatch /\ OverlapsIsExact
=============================================================================
