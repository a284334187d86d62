--------------------------- MODULE BPlusTreeProofs ---------------------------
(***************************************************************************)
(* The index of BPlusTree for every order and every height: what an insert,  *)
(* a delete and a search do to the entries of the leaves, whatever           *)
(* allocations fail, and that a search finds the entry of a key where keys   *)
(* are unique and none failed.                                             *)
(***************************************************************************)
EXTENDS BPlusTree, WellFoundedInduction, SequenceTheorems, FiniteSetTheorems, TLAPS

\* The least element of a set of naturals: every induction below starts from it.
LEMMA LeastOf ==
  ASSUME NEW T, T \subseteq Nat, T # {}
  PROVE  \E m \in T : \A k \in T : m <= k
<1> DEFINE R == OpToRel(<, Nat)
<1>1. IsWellFoundedOn(R, Nat)
  BY NatLessThanWellFounded, Zenon
<1>2. \A k, m \in Nat : k < m => <<k, m>> \in R
  BY Zenon DEF OpToRel
<1> HIDE DEF R
<1>3. \E m \in T : \A k \in T : ~(<<k, m>> \in R)
  BY <1>1, WFMin, Zenon
<1>4. PICK m \in T : \A k \in T : ~(k < m)
  BY <1>2, <1>3, Zenon
<1> QED
  BY <1>4

\* A set of positions that has all positions before each of its own.
LEMMA Segment ==
  ASSUME NEW n \in Nat, NEW S, S \subseteq 1..n, \A i \in S : \A j \in 1..i : j \in S
  PROVE  S = 1..Cardinality(S) /\ Cardinality(S) \in 0..n
<1> DEFINE T == {m \in Nat : m + 1 \notin S}
<1>1. n \in T
  OBVIOUS
<1>2. PICK m \in T : \A k \in T : m <= k
  <2> HIDE DEF T
  <2>1. T # {}
    BY <1>1
  <2>2. T \subseteq Nat
    BY DEF T
  <2> QED
    BY <2>1, <2>2, LeastOf
<1>3. m \in Nat /\ m + 1 \notin S /\ m <= n
  BY <1>1, <1>2
<1>4. ASSUME NEW i \in S PROVE i \in 1..m
  <2>1. i \in Nat /\ i >= 1 /\ (i > m => m + 1 \in 1..i)
    BY <1>3
  <2> QED
    BY <1>3, <2>1
<1>5. ASSUME NEW i \in 1..m PROVE i \in S
  <2>1. i - 1 \in Nat /\ ~(m <= i - 1) /\ (i - 1) + 1 = i
    BY <1>3
  <2> QED
    BY <1>2, <2>1
<1>6. S = 1..m
  BY <1>4, <1>5
<1>7. Cardinality(1..m) = m
  BY <1>3, FS_Interval
<1> QED
  BY <1>3, <1>6, <1>7

-----------------------------------------------------------------------------
(* Positions in a node.                                                     *)

\* ChildIndex is behind the keys that are not above key, and before the others.
LEMMA ChildIndexIs ==
  ASSUME NEW n, n.keys \in Seq(Int), NEW key \in Int
  PROVE  /\ ChildIndex(n, key) \in 1..Len(n.keys) + 1
         /\ \A i \in 1..ChildIndex(n, key) - 1 : n.keys[i] <= key
         /\ ChildIndex(n, key) <= Len(n.keys) => key < n.keys[ChildIndex(n, key)]
<1> DEFINE S == {i \in DOMAIN n.keys : \A j \in 1..i : key >= n.keys[j]}
<1>1. ChildIndex(n, key) = 1 + Cardinality(S)
  BY DEF ChildIndex
<1>2. Len(n.keys) \in Nat /\ DOMAIN n.keys = 1..Len(n.keys) /\ \A i \in 1..Len(n.keys) : n.keys[i] \in Int
  OBVIOUS
<1>3. PICK c \in 0..Len(n.keys) : S = 1..c /\ Cardinality(S) = c
  <2>1. S \subseteq 1..Len(n.keys) /\ \A i \in S : \A j \in 1..i : j \in S
    BY <1>2
  <2> HIDE DEF S
  <2> QED
    BY <1>2, <2>1, Segment
<1>4. \A i \in 1..c : n.keys[i] <= key
  <2>1. ASSUME NEW i \in 1..c PROVE key >= n.keys[i]
    <3>1. i \in S
      BY <1>3, Zenon
    <3> QED
      BY <1>2, <3>1
  <2>2. \A i \in 1..c : i \in 1..Len(n.keys)
    BY <1>2, <1>3
  <2> QED
    BY <1>2, <2>1, <2>2
<1>5. c + 1 <= Len(n.keys) => key < n.keys[c + 1]
  <2> SUFFICES ASSUME c + 1 <= Len(n.keys), ~(key < n.keys[c + 1]) PROVE FALSE
    OBVIOUS
  <2> DEFINE d == c + 1
  <2>1. d \in 1..Len(n.keys) /\ d \notin 1..c /\ d \in DOMAIN n.keys
    BY <1>2, <1>3
  <2>2. \A j \in 1..d : (j \in 1..c \/ j = d) /\ j \in 1..Len(n.keys)
    BY <1>2, <1>3
  <2>3. \A j \in 1..d : key >= n.keys[j]
    <3>1. n.keys[d] <= key
      BY <1>2, <2>1
    <3> HIDE DEF d
    <3> QED
      BY <1>2, <1>4, <2>2, <3>1
  <2> HIDE DEF d
  <2>4. d \in S
    BY <2>1, <2>3
  <2> QED
    BY <1>3, <2>1, <2>4, Zenon
<1> HIDE DEF S
<1>6. ChildIndex(n, key) = c + 1
  BY <1>1, <1>3
<1> QED
  BY <1>2, <1>3, <1>4, <1>5, <1>6

\* Where keys ascend, that place is the only one.
LEMMA ChildIndexAt ==
  ASSUME NEW n, n.keys \in Seq(Int), NEW key \in Int, NEW c \in 1..Len(n.keys) + 1,
         \A i, j \in 1..Len(n.keys) : i < j => n.keys[i] < n.keys[j],
         c > 1 => n.keys[c - 1] <= key, c <= Len(n.keys) => key < n.keys[c]
  PROVE  ChildIndex(n, key) = c
<1> DEFINE d == ChildIndex(n, key)
<1>1. /\ d \in 1..Len(n.keys) + 1
      /\ \A i \in 1..d - 1 : n.keys[i] <= key
      /\ d <= Len(n.keys) => key < n.keys[d]
  BY ChildIndexIs
<1> HIDE DEF d
<1>2. Len(n.keys) \in Nat /\ \A i \in 1..Len(n.keys) : n.keys[i] \in Int
  OBVIOUS
<1>3. ~(d > c)
  <2> SUFFICES ASSUME d > c PROVE FALSE
    OBVIOUS
  <2>1. c \in 1..d - 1 /\ c <= Len(n.keys) /\ c \in 1..Len(n.keys)
    BY <1>1, <1>2
  <2> QED
    BY <1>1, <1>2, <2>1
<1>4. ~(d < c)
  <2> SUFFICES ASSUME d < c PROVE FALSE
    OBVIOUS
  <2>1. c > 1 /\ c - 1 \in 1..Len(n.keys) /\ d \in 1..Len(n.keys) /\ (d = c - 1 \/ d < c - 1)
    BY <1>1, <1>2
  <2>2. n.keys[d] <= n.keys[c - 1]
    <3>1. CASE d = c - 1
      BY <1>2, <2>1, <3>1
    <3>2. CASE d < c - 1
      <4>1. n.keys[d] < n.keys[c - 1] /\ n.keys[d] \in Int /\ n.keys[c - 1] \in Int
        BY <1>2, <2>1, <3>2
      <4> QED
        BY <4>1
    <3> QED
      BY <2>1, <3>1, <3>2
  <2>3. n.keys[d] \in Int /\ n.keys[c - 1] \in Int /\ key < n.keys[d] /\ n.keys[c - 1] <= key
    BY <1>1, <1>2, <2>1
  <2> QED
    BY <2>2, <2>3
<1> QED
  BY <1>1, <1>3, <1>4 DEF d

\* Position is behind the last key that is not above key.
LEMMA PositionIs ==
  ASSUME NEW keys \in Seq(Int), NEW key \in Int
  PROVE  /\ Position(keys, key) \in 1..Len(keys) + 1
         /\ Position(keys, key) > 1 => keys[Position(keys, key) - 1] <= key
         /\ \A i \in Position(keys, key)..Len(keys) : key < keys[i]
<1> DEFINE S == {i \in DOMAIN keys : \E j \in i..Len(keys) : keys[j] <= key}
<1>1. Position(keys, key) = 1 + Cardinality(S)
  BY DEF Position
<1>2. Len(keys) \in Nat /\ DOMAIN keys = 1..Len(keys) /\ \A i \in 1..Len(keys) : keys[i] \in Int
  OBVIOUS
<1>3. PICK c \in 0..Len(keys) : S = 1..c /\ Cardinality(S) = c
  <2>1. S \subseteq 1..Len(keys) /\ \A i \in S : \A j \in 1..i : j \in S
    BY <1>2
  <2> HIDE DEF S
  <2> QED
    BY <1>2, <2>1, Segment
<1>4. \A i \in c + 1..Len(keys) : key < keys[i]
  <2> SUFFICES ASSUME NEW i \in c + 1..Len(keys), ~(key < keys[i]) PROVE FALSE
    OBVIOUS
  <2>1. i \in DOMAIN keys /\ keys[i] <= key /\ i \notin 1..c /\ i \in i..Len(keys)
    BY <1>2, <1>3
  <2>2. i \in S
    BY <2>1
  <2> HIDE DEF S
  <2> QED
    BY <1>3, <2>1, <2>2, Zenon
<1>5. c > 0 => keys[c] <= key
  <2> SUFFICES ASSUME c > 0 PROVE keys[c] <= key
    OBVIOUS
  <2>1. c \in 1..c
    BY <1>3
  <2>2. c \in S
    BY <1>3, <2>1, Zenon
  <2>3. PICK j \in c..Len(keys) : keys[j] <= key
    BY <2>2
  <2>4. (j = c \/ j \in c + 1..Len(keys)) /\ j \in 1..Len(keys)
    BY <1>2, <1>3
  <2> QED
    BY <1>2, <1>4, <2>3, <2>4
<1> HIDE DEF S
<1>6. Position(keys, key) = c + 1
  BY <1>1, <1>3
<1> QED
  BY <1>2, <1>3, <1>4, <1>5, <1>6

\* A cut of a sequence.
LEMMA Cut ==
  ASSUME NEW S, NEW s \in Seq(S), NEW m \in 1..Len(s) + 1, NEW n \in m - 1..Len(s)
  PROVE  /\ SubSeq(s, m, n) \in Seq(S) /\ Len(SubSeq(s, m, n)) = n - m + 1
         /\ \A j \in 1..n - m + 1 : SubSeq(s, m, n)[j] = s[m + j - 1]
<1>1. Len(s) \in Nat /\ \A j \in 1..Len(s) : s[j] \in S
  OBVIOUS
<1>2. m \in Int /\ n \in Int /\ \A j \in m..n : j \in 1..Len(s)
  BY <1>1
<1>3. \A j \in m..n : s[j] \in S
  BY <1>1, <1>2
<1>4. /\ SubSeq(s, m, n) \in Seq(S)
      /\ Len(SubSeq(s, m, n)) = IF m <= n THEN n - m + 1 ELSE 0
      /\ \A j \in 1..n - m + 1 : SubSeq(s, m, n)[j] = s[m + j - 1]
  BY <1>2, <1>3, SubSeqProperties
<1>5. m <= n \/ n - m + 1 = 0
  BY <1>1, <1>2
<1> QED
  BY <1>4, <1>5, <1>2

\* InsertAt moves what is behind by one.
LEMMA Inserted ==
  ASSUME NEW S, NEW s \in Seq(S), NEW i \in 1..Len(s) + 1, NEW e \in S
  PROVE  /\ InsertAt(s, i, e) \in Seq(S) /\ Len(InsertAt(s, i, e)) = Len(s) + 1
         /\ InsertAt(s, i, e)[i] = e
         /\ \A j \in 1..Len(s) : /\ j < i => InsertAt(s, i, e)[j] = s[j]
                                 /\ j >= i => InsertAt(s, i, e)[j + 1] = s[j]
<1>1. Len(s) \in Nat /\ \A j \in 1..Len(s) : s[j] \in S
  OBVIOUS
<1> DEFINE a == SubSeq(s, 1, i - 1)
           b == SubSeq(s, i, Len(s))
<1>2. a \in Seq(S) /\ Len(a) = i - 1 /\ \A j \in 1..i - 1 : a[j] = s[j]
  <2>1. 1 \in 1..Len(s) + 1 /\ i - 1 \in 1 - 1..Len(s)
    BY <1>1
  <2>2. i - 1 - 1 + 1 = i - 1 /\ \A j \in 1..i - 1 : 1 + j - 1 = j
    BY <1>1
  <2>3. a \in Seq(S) /\ Len(a) = i - 1 - 1 + 1 /\ \A j \in 1..i - 1 - 1 + 1 : a[j] = s[1 + j - 1]
    BY <2>1, Cut
  <2> HIDE DEF a
  <2> QED
    BY <2>2, <2>3
<1>3. b \in Seq(S) /\ Len(b) = Len(s) - i + 1 /\ \A j \in 1..Len(s) - i + 1 : b[j] = s[i + j - 1]
  <2>1. Len(s) \in i - 1..Len(s)
    BY <1>1
  <2> QED
    BY <2>1, Cut
<1>4. InsertAt(s, i, e) = a \o <<e>> \o b
  BY DEF InsertAt
<1> HIDE DEF a, b
<1>5. a \o <<e>> \in Seq(S) /\ Len(a \o <<e>>) = i /\ (a \o <<e>>)[i] = e
      /\ \A j \in 1..i - 1 : (a \o <<e>>)[j] = s[j]
  BY <1>1, <1>2
<1>6. a \o <<e>> \o b \in Seq(S) /\ Len(a \o <<e>> \o b) = Len(s) + 1
      /\ \A j \in 1..Len(s) + 1 : (a \o <<e>> \o b)[j] = IF j <= i THEN (a \o <<e>>)[j] ELSE b[j - i]
  <2> DEFINE q == a \o <<e>>
  <2>1. q \in Seq(S) /\ Len(q) = i
    BY <1>5
  <2>2. i + (Len(s) - i + 1) = Len(s) + 1
    BY <1>1
  <2> HIDE DEF q
  <2>3. q \o b \in Seq(S) /\ Len(q \o b) = Len(q) + Len(b)
    BY <1>3, <2>1
  <2>4. \A j \in 1..Len(q) + Len(b) : (q \o b)[j] = IF j <= Len(q) THEN q[j] ELSE b[j - Len(q)]
    BY <1>3, <2>1
  <2>5. Len(q) + Len(b) = Len(s) + 1
    BY <1>3, <2>1, <2>2
  <2> QED
    BY <2>1, <2>3, <2>4, <2>5 DEF q
<1>7. \A j \in 1..Len(s) : /\ j < i => (a \o <<e>> \o b)[j] = s[j]
                           /\ j >= i => (a \o <<e>> \o b)[j + 1] = s[j]
  <2> SUFFICES ASSUME NEW j \in 1..Len(s)
               PROVE  /\ j < i => (a \o <<e>> \o b)[j] = s[j]
                      /\ j >= i => (a \o <<e>> \o b)[j + 1] = s[j]
    OBVIOUS
  <2>1. j < i => j \in 1..i - 1 /\ j \in 1..Len(s) + 1 /\ j <= i
    BY <1>1
  <2>2. j >= i => /\ j + 1 \in 1..Len(s) + 1 /\ ~(j + 1 <= i)
                  /\ j + 1 - i \in 1..Len(s) - i + 1 /\ i + (j + 1 - i) - 1 = j
    BY <1>1
  <2> QED
    BY <1>3, <1>5, <1>6, <2>1, <2>2
<1> QED
  BY <1>1, <1>4, <1>5, <1>6, <1>7

\* The same for one of the elements.
LEMMA InsertedAt ==
  ASSUME NEW S, NEW s \in Seq(S), NEW i \in 1..Len(s) + 1, NEW e \in S, NEW j \in 1..Len(s)
  PROVE  /\ j < i => InsertAt(s, i, e)[j] = s[j]
         /\ j >= i => InsertAt(s, i, e)[j + 1] = s[j]
  BY Inserted

\* The element inserted, and the length.
LEMMA InsertedNew ==
  ASSUME NEW S, NEW s \in Seq(S), NEW i \in 1..Len(s) + 1, NEW e \in S, NEW n, n = InsertAt(s, i, e)
  PROVE  n \in Seq(S) /\ Len(n) = Len(s) + 1 /\ n[i] = e
  BY Inserted

\* RemoveAt moves what is behind back by one.
LEMMA Removed ==
  ASSUME NEW S, NEW s \in Seq(S), NEW i \in 1..Len(s)
  PROVE  /\ RemoveAt(s, i) \in Seq(S) /\ Len(RemoveAt(s, i)) = Len(s) - 1
         /\ \A j \in 1..Len(s) - 1 : RemoveAt(s, i)[j] = IF j < i THEN s[j] ELSE s[j + 1]
<1>1. Len(s) \in Nat /\ \A j \in 1..Len(s) : s[j] \in S
  OBVIOUS
<1> DEFINE a == SubSeq(s, 1, i - 1)
           b == SubSeq(s, i + 1, Len(s))
<1>2. a \in Seq(S) /\ Len(a) = i - 1 /\ \A j \in 1..i - 1 : a[j] = s[j]
  <2>1. 1 \in 1..Len(s) + 1 /\ i - 1 \in 1 - 1..Len(s)
    BY <1>1
  <2>2. i - 1 - 1 + 1 = i - 1 /\ \A j \in 1..i - 1 : 1 + j - 1 = j
    BY <1>1
  <2>3. a \in Seq(S) /\ Len(a) = i - 1 - 1 + 1 /\ \A j \in 1..i - 1 - 1 + 1 : a[j] = s[1 + j - 1]
    BY <2>1, Cut
  <2> HIDE DEF a
  <2> QED
    BY <2>2, <2>3
<1>3. b \in Seq(S) /\ Len(b) = Len(s) - i /\ \A j \in 1..Len(s) - i : b[j] = s[i + j]
  <2>1. i + 1 \in 1..Len(s) + 1 /\ Len(s) \in i + 1 - 1..Len(s)
    BY <1>1
  <2>2. Len(s) - (i + 1) + 1 = Len(s) - i /\ \A j \in 1..Len(s) - i : i + 1 + j - 1 = i + j
    BY <1>1
  <2>3. /\ b \in Seq(S) /\ Len(b) = Len(s) - (i + 1) + 1
        /\ \A j \in 1..Len(s) - (i + 1) + 1 : b[j] = s[i + 1 + j - 1]
    BY <2>1, Cut
  <2> HIDE DEF b
  <2> QED
    BY <2>2, <2>3
<1>4. RemoveAt(s, i) = a \o b
  BY DEF RemoveAt
<1> HIDE DEF a, b
<1>5. a \o b \in Seq(S) /\ Len(a \o b) = Len(s) - 1
      /\ \A j \in 1..Len(s) - 1 : (a \o b)[j] = IF j <= i - 1 THEN a[j] ELSE b[j - (i - 1)]
  <2>1. a \o b \in Seq(S)
    BY <1>2, <1>3
  <2>2. /\ Len(a \o b) = Len(a) + Len(b)
        /\ \A j \in 1..Len(a) + Len(b) : (a \o b)[j] = IF j <= Len(a) THEN a[j] ELSE b[j - Len(a)]
    BY <1>2, <1>3, ConcatProperties, Zenon
  <2>3. Len(a) + Len(b) = Len(s) - 1
    BY <1>1, <1>2, <1>3
  <2> QED
    BY <1>2, <2>1, <2>2, <2>3
<1>6. ASSUME NEW j \in 1..Len(s) - 1
      PROVE  (a \o b)[j] = IF j < i THEN s[j] ELSE s[j + 1]
  <2>1. (j < i <=> j <= i - 1) /\ (j < i => j \in 1..i - 1)
    BY <1>1
  <2>2. ~(j < i) => j - (i - 1) \in 1..Len(s) - i /\ i + (j - (i - 1)) = j + 1
    BY <1>1
  <2> QED
    BY <1>2, <1>3, <1>5, <2>1, <2>2
<1> QED
  BY <1>4, <1>5, <1>6
-----------------------------------------------------------------------------
(* The shape of a tree.  P are the locations, lev is the height of each node  *)
(* above the leaves.  It holds whatever allocation failed: a child of a node   *)
(* is one level lower, or NULL.                                             *)

TreeNode(P) == [is_leaf : BOOLEAN, keys : Seq(Int), locations : Seq(P), children : Seq(Nat)]

Fits(n, l, lev) ==
  /\ n.is_leaf <=> l = 0
  /\ n.is_leaf => Len(n.locations) = Len(n.keys)
  /\ ~n.is_leaf => /\ Len(n.children) = Len(n.keys) + 1
                   /\ \A i \in 1..Len(n.children) :
                        n.children[i] # NULL =>
                          n.children[i] \in DOMAIN lev /\ lev[n.children[i]] = l - 1

Levelled(nodes, lev, P) ==
  /\ nodes \in Seq(TreeNode(P)) /\ lev \in [1..Len(nodes) -> Nat]
  /\ \A a \in 1..Len(nodes) : Fits(nodes[a], lev[a], lev)

TreeOK(t, lev, P) ==
  /\ t = [root |-> t.root, nodes |-> t.nodes] /\ Levelled(t.nodes, lev, P)
  /\ t.root \in 1..Len(t.nodes) /\ lev[t.root] < Len(t.nodes)
  /\ \A a \in 1..Len(t.nodes) : lev[a] <= lev[t.root]

\* The entries of the leaves.
NodeHas(n, k, l) == n.is_leaf /\ \E i \in 1..Len(n.keys) : n.keys[i] = k /\ n.locations[i] = l
Has(nodes, k, l) == \E a \in 1..Len(nodes) : NodeHas(nodes[a], k, l)

-----------------------------------------------------------------------------
(* The descent.                                                             *)

Step(F, t, key, d) == IF d = 1 THEN t.root ELSE Down(t, key)[F[d - 1]]

\* There is such a path: no node of it is the first without the one before.
LEMMA DescentExists ==
  ASSUME NEW t, NEW key, Len(t.nodes) \in Nat
  PROVE  \E F : F = [d \in 1..Len(t.nodes) |-> Step(F, t, key, d)]
<1> DEFINE Runs(k, F) == F = [d \in 1..k |-> Step(F, t, key, d)]
           T == {k \in Nat : k <= Len(t.nodes) /\ ~\E F : Runs(k, F)}
<1>1. SUFFICES ASSUME T # {} PROVE FALSE
  BY <1>1
<1>2. PICK m \in T : \A k \in T : m <= k
  BY <1>1, LeastOf
<1>3. m \in Nat /\ m <= Len(t.nodes) /\ \A F : ~Runs(m, F)
  BY <1>2
<1>4. CASE m = 0
  <2>1. Runs(0, [d \in 1..0 |-> 0])
    OBVIOUS
  <2> QED
    BY <1>3, <1>4, <2>1
<1>5. CASE m > 0
  <2>1. m - 1 \in Nat /\ m - 1 <= Len(t.nodes) /\ m - 1 \notin T
    BY <1>2, <1>3, <1>5
  <2>2. PICK F : Runs(m - 1, F)
    BY <2>1
  <2> DEFINE G == [d \in 1..m |-> IF d = m THEN Step(F, t, key, m) ELSE F[d]]
  <2>3. \A d \in 1..m - 1 : G[d] = F[d] /\ F[d] = Step(F, t, key, d)
    <3>1. \A d \in 1..m - 1 : d \in 1..m /\ d # m
      BY <1>3
    <3>2. \A d \in 1..m - 1 : F[d] = Step(F, t, key, d)
      BY <2>2
    <3> QED
      BY <3>1, <3>2
  <2>4. \A d \in 1..m : d # 1 => d - 1 \in 1..m - 1
    BY <1>3
  <2>5. \A d \in 1..m : Step(G, t, key, d) = Step(F, t, key, d)
    <3> HIDE DEF G
    <3> QED
      BY <2>3, <2>4 DEF Step
  <2>6. ASSUME NEW d \in 1..m PROVE G[d] = Step(F, t, key, d)
    <3>1. d = m \/ d \in 1..m - 1
      BY <1>3, <1>5
    <3>2. G[m] = Step(F, t, key, m)
      BY <1>3, <1>5
    <3> HIDE DEF G
    <3> QED
      BY <2>3, <3>1, <3>2
  <2>7. Runs(m, G)
    <3>1. G = [d \in 1..m |-> G[d]]
      OBVIOUS
    <3> HIDE DEF G
    <3> QED
      BY <2>5, <2>6, <3>1
  <2> QED
    BY <1>3, <2>7
<1> QED
  BY <1>3, <1>4, <1>5

\* Each node of a path is one step below the one before.
LEMMA DescentStep ==
  ASSUME NEW t, NEW key, Len(t.nodes) \in Nat, NEW d \in 1..Len(t.nodes)
  PROVE  Descent(t, key)[d] = IF d = 1 THEN t.root ELSE Down(t, key)[Descent(t, key)[d - 1]]
<1> DEFINE path == CHOOSE F : F = [e \in 1..Len(t.nodes) |-> Step(F, t, key, e)]
<1>1. Descent(t, key) = path
  BY DEF Descent, Step
<1>2. path = [e \in 1..Len(t.nodes) |-> Step(path, t, key, e)]
  BY DescentExists, SMTT(30)
<1> HIDE DEF path
<1>3. \A e \in 1..Len(t.nodes) : path[e] = Step(path, t, key, e)
  BY <1>2
<1> QED
  BY <1>1, <1>3 DEF Step

\* The next node down is one level lower, the leaf again, or NULL.
LEMMA DownIs ==
  ASSUME NEW P, NEW t, NEW lev, TreeOK(t, lev, P), NEW key \in Int, NEW a \in DOMAIN lev
  PROVE  Down(t, key)[a] # NULL =>
           /\ Down(t, key)[a] \in DOMAIN lev
           /\ lev[a] = 0 => Down(t, key)[a] = a
           /\ lev[a] # 0 => lev[Down(t, key)[a]] = lev[a] - 1
<1> DEFINE b == Down(t, key)[a]
<1>1. /\ t.nodes \in Seq(TreeNode(P)) /\ lev \in [1..Len(t.nodes) -> Nat]
      /\ t.nodes[a] \in TreeNode(P) /\ Fits(t.nodes[a], lev[a], lev) /\ Len(t.nodes) \in Nat
  <2>1. Levelled(t.nodes, lev, P) /\ a \in 1..Len(t.nodes)
    BY DEF TreeOK, Levelled
  <2> QED
    BY <2>1 DEF Levelled
<1>2. a \in 0..Len(t.nodes) /\ a # NULL /\ DOMAIN lev = 1..Len(t.nodes)
  BY <1>1 DEF NULL
<1>3. b = IF t.nodes[a].is_leaf THEN a ELSE t.nodes[a].children[ChildIndex(t.nodes[a], key)]
  BY <1>2 DEF Down
<1> SUFFICES b # NULL => /\ b \in DOMAIN lev
                         /\ lev[a] = 0 => b = a
                         /\ lev[a] # 0 => lev[b] = lev[a] - 1
  OBVIOUS
<1> HIDE DEF b
<1>4. CASE t.nodes[a].is_leaf
  <2>1. lev[a] = 0 /\ b = a
    BY <1>1, <1>3, <1>4 DEF Fits
  <2> QED
    BY <2>1
<1>5. CASE ~t.nodes[a].is_leaf
  <2> DEFINE c == ChildIndex(t.nodes[a], key)
  <2>1. t.nodes[a].keys \in Seq(Int)
    BY <1>1 DEF TreeNode
  <2>2. c \in 1..Len(t.nodes[a].keys) + 1
    BY <2>1, ChildIndexIs
  <2>3. lev[a] # 0 /\ lev[a] \in Nat /\ c \in 1..Len(t.nodes[a].children) /\ b = t.nodes[a].children[c]
    BY <1>1, <1>3, <1>5, <2>2 DEF Fits
  <2>4. b # NULL => b \in DOMAIN lev /\ lev[b] = lev[a] - 1
    BY <1>1, <1>5, <2>3 DEF Fits
  <2> QED
    BY <1>1, <2>3, <2>4
<1> QED
  BY <1>4, <1>5

\* A path goes down one level a step; below the leaf it stays where it is.
LEMMA PathLevels ==
  ASSUME NEW P, NEW t, NEW lev, TreeOK(t, lev, P), NEW key \in Int, NEW d \in 1..Len(t.nodes)
  PROVE  \/ Descent(t, key)[d] = NULL
         \/ /\ Descent(t, key)[d] \in 1..Len(t.nodes)
            /\ lev[Descent(t, key)[d]] = IF d <= lev[t.root] THEN lev[t.root] + 1 - d ELSE 0
<1> DEFINE N == Len(t.nodes)
           path == Descent(t, key)
           Level(e) == IF e <= lev[t.root] THEN lev[t.root] + 1 - e ELSE 0
           Right(e) == path[e] = NULL \/ (path[e] \in 1..N /\ lev[path[e]] = Level(e))
           T == {e \in Nat : e \in 1..N /\ ~Right(e)}
<1>1. SUFFICES ASSUME T # {} PROVE FALSE
  BY <1>1
<1>2. PICK e \in T : \A k \in T : e <= k
  <2> HIDE DEF Right
  <2> QED
    BY <1>1, LeastOf
<1>3. /\ Levelled(t.nodes, lev, P) /\ N \in Nat /\ t.root \in 1..N
      /\ lev \in [1..N -> Nat] /\ lev[t.root] \in Nat
  BY DEF TreeOK, Levelled
<1>4. e \in Nat /\ e \in 1..N /\ ~Right(e)
  <2> HIDE DEF Right
  <2> QED
    BY <1>2
<1>5. path[e] = IF e = 1 THEN t.root ELSE Down(t, key)[path[e - 1]]
  BY <1>3, <1>4, DescentStep
<1>6. \A a \in 1..N : Down(t, key)[a] # NULL =>
        /\ Down(t, key)[a] \in 1..N
        /\ lev[a] = 0 => Down(t, key)[a] = a
        /\ lev[a] # 0 => lev[Down(t, key)[a]] = lev[a] - 1
  <2>1. \A a \in DOMAIN lev : Down(t, key)[a] # NULL =>
          /\ Down(t, key)[a] \in DOMAIN lev
          /\ lev[a] = 0 => Down(t, key)[a] = a
          /\ lev[a] # 0 => lev[Down(t, key)[a]] = lev[a] - 1
    BY DownIs
  <2>2. DOMAIN lev = 1..N
    BY <1>3
  <2> QED
    BY <2>1, <2>2
<1>7. CASE e = 1
  <2>1. Level(1) = lev[t.root]
    BY <1>3
  <2> QED
    BY <1>3, <1>4, <1>5, <1>7, <2>1
<1>8. CASE e # 1
  <2>1. e - 1 \in Nat /\ e - 1 \in 1..N /\ ~(e <= e - 1)
    BY <1>3, <1>4, <1>8
  <2>2. Right(e - 1)
    <3> HIDE DEF Right
    <3> QED
      BY <1>2, <2>1
  <2>3. path[e] = Down(t, key)[path[e - 1]]
    BY <1>5, <1>8
  <2>4. CASE path[e - 1] = NULL
    <3>1. path[e] = NULL
      BY <1>3, <2>3, <2>4 DEF Down, NULL
    <3> QED
      BY <1>4, <3>1
  <2>5. CASE path[e - 1] # NULL
    <3> DEFINE a == path[e - 1]
               b == path[e]
    <3>1. a \in 1..N /\ lev[a] = Level(e - 1)
      BY <2>2, <2>5
    <3>2. b # NULL => /\ b \in 1..N
                      /\ lev[a] = 0 => b = a
                      /\ lev[a] # 0 => lev[b] = lev[a] - 1
      BY <1>6, <2>3, <3>1
    <3>3. PICK h \in Nat : h = lev[t.root]
      BY <1>3
    <3>4. (e <= h => Level(e - 1) = h + 1 - (e - 1) /\ Level(e) = h + 1 - e)
          /\ (e = h + 1 => Level(e - 1) = 1 /\ Level(e) = 0)
          /\ (e > h + 1 => Level(e - 1) = 0 /\ Level(e) = 0)
      BY <1>4, <1>8, <3>3
    <3> HIDE DEF Level, a, b
    <3>5. b # NULL => b \in 1..N /\ lev[b] = Level(e)
      <4>1. CASE e <= h
        BY <1>4, <1>8, <3>1, <3>2, <3>4, <4>1
      <4>2. CASE e = h + 1
        BY <3>1, <3>2, <3>4, <4>2
      <4>3. CASE e > h + 1
        BY <3>1, <3>2, <3>4, <4>3
      <4> QED
        BY <1>4, <4>1, <4>2, <4>3
    <3> QED
      BY <1>4, <3>5 DEF a, b
  <2> QED
    BY <2>4, <2>5
<1> QED
  BY <1>7, <1>8

\* A path that has come to NULL, or to a leaf, stays there.
LEMMA PathStays ==
  ASSUME NEW P, NEW t, NEW lev, TreeOK(t, lev, P), NEW key \in Int, NEW d \in 1..Len(t.nodes),
         Descent(t, key)[d] = NULL \/ d > lev[t.root]
  PROVE  \A e \in d..Len(t.nodes) : Descent(t, key)[e] = Descent(t, key)[d]
<1> DEFINE N == Len(t.nodes)
           path == Descent(t, key)
           T == {e \in Nat : e \in d..N /\ path[e] # path[d]}
<1>1. SUFFICES ASSUME T # {} PROVE FALSE
  BY <1>1
<1>2. PICK e \in T : \A k \in T : e <= k
  BY <1>1, LeastOf
<1>3. /\ Levelled(t.nodes, lev, P) /\ N \in Nat /\ lev \in [1..N -> Nat] /\ lev[t.root] \in Nat
  BY DEF TreeOK, Levelled
<1>4. e \in Nat /\ e \in d..N /\ path[e] # path[d] /\ d \in Nat /\ d >= 1
  BY <1>2
<1>5. e # d
  BY <1>4
<1>6. e \in 1..N /\ e # 1 /\ e - 1 \in Nat /\ e - 1 \in d..N /\ e - 1 \in 1..N /\ ~(e <= e - 1)
  BY <1>3, <1>4, <1>5
<1>7. path[e - 1] = path[d]
  BY <1>2, <1>6
<1>8. path[e] = Down(t, key)[path[d]]
  BY <1>3, <1>6, <1>7, DescentStep
<1>9. CASE path[d] = NULL
  BY <1>3, <1>4, <1>8, <1>9 DEF Down, NULL
<1>10. CASE path[d] # NULL
  <2>1. d > lev[t.root] /\ ~(d <= lev[t.root])
    BY <1>3, <1>4, <1>10
  <2>2. path[d] \in 1..N /\ lev[path[d]] = 0
    BY <1>10, <2>1, PathLevels
  <2>3. /\ Fits(t.nodes[path[d]], lev[path[d]], lev)
        /\ path[d] \in 0..N
    BY <1>3, <2>2 DEF Levelled
  <2>4. Down(t, key)[path[d]] = path[d]
    BY <1>10, <2>2, <2>3 DEF Down, Fits
  <2> QED
    BY <1>4, <1>8, <2>4
<1> QED
  BY <1>9, <1>10

\* The node of the path to key that is j levels above the leaf.
OnPath(t, lev, key, j) == Descent(t, key)[lev[t.root] + 1 - j]

\* Where the descent comes to a leaf, the path has one node of every level.
LEMMA PathIs ==
  ASSUME NEW P, NEW t, NEW lev, TreeOK(t, lev, P), NEW key \in Int, find_leaf(t, key) # NULL
  PROVE  /\ Depth(t, key) = lev[t.root]
         /\ OnPath(t, lev, key, 0) = find_leaf(t, key)
         /\ OnPath(t, lev, key, lev[t.root]) = t.root
         /\ \A j \in 0..lev[t.root] : /\ OnPath(t, lev, key, j) \in DOMAIN lev
                                      /\ lev[OnPath(t, lev, key, j)] = j
<1> DEFINE N == Len(t.nodes)
           path == Descent(t, key)
<1>1. PICK h \in Nat : h = lev[t.root]
  BY DEF TreeOK, Levelled
<1>2. N \in Nat /\ h < N /\ DOMAIN lev = 1..N
  BY <1>1 DEF TreeOK, Levelled
<1>3. \A d \in 1..N : path[d] # NULL
  <2> SUFFICES ASSUME NEW d \in 1..N, path[d] = NULL PROVE FALSE
    OBVIOUS
  <2>1. \A e \in d..N : path[e] = path[d]
    BY PathStays
  <2>2. N \in d..N
    BY <1>2
  <2> QED
    BY <2>1, <2>2 DEF find_leaf
<1>4. \A d \in 1..N : path[d] \in 1..N /\ lev[path[d]] = IF d <= h THEN h + 1 - d ELSE 0
  BY <1>1, <1>3, PathLevels
<1>5. \A e \in h + 1..N : path[e] = path[h + 1]
  <2>1. h + 1 \in 1..N /\ h + 1 > lev[t.root]
    BY <1>1, <1>2
  <2> QED
    BY <2>1, PathStays
<1>6. path[h + 1] = find_leaf(t, key)
  <2>1. N \in h + 1..N
    BY <1>2
  <2> QED
    BY <1>5, <2>1 DEF find_leaf
<1>7. Depth(t, key) = h
  <2>1. ASSUME NEW d \in 1..N PROVE path[d] # path[h + 1] <=> d <= h
    <3>1. h + 1 \in 1..N /\ ~(h + 1 <= h)
      BY <1>2
    <3>2. CASE d <= h
      <4>1. lev[path[d]] = h + 1 - d /\ lev[path[h + 1]] = 0
        BY <1>4, <3>1, <3>2
      <4> QED
        BY <3>2, <4>1
    <3>3. CASE ~(d <= h)
      <4>1. d \in h + 1..N
        BY <1>2, <3>3
      <4> QED
        BY <1>5, <3>3, <4>1
    <3> QED
      BY <3>2, <3>3
  <2>2. {d \in 1..N : path[d] # path[h + 1]} = 1..h
    <3>1. \A d \in 1..h : d \in 1..N /\ d <= h
      BY <1>2
    <3>2. \A d \in 1..N : d <= h => d \in 1..h
      BY <1>2
    <3> HIDE DEF path
    <3> QED
      BY <2>1, <3>1, <3>2
  <2>3. Cardinality(1..h) = h
    BY <1>1, FS_Interval
  <2> QED
    BY <1>6, <2>2, <2>3 DEF Depth
<1>8. path[1] = t.root
  <2>1. 1 \in 1..N
    BY <1>2
  <2> QED
    BY <1>2, <2>1, DescentStep
<1>9. \A j \in 0..h : path[h + 1 - j] \in DOMAIN lev /\ lev[path[h + 1 - j]] = j
  <2> SUFFICES ASSUME NEW j \in 0..h PROVE path[h + 1 - j] \in DOMAIN lev /\ lev[path[h + 1 - j]] = j
    OBVIOUS
  <2> DEFINE d == h + 1 - j
  <2>1. d \in 1..N /\ (IF d <= h THEN h + 1 - d ELSE 0) = j
    BY <1>2
  <2> HIDE DEF d
  <2>2. path[d] \in DOMAIN lev /\ lev[path[d]] = j
    BY <1>2, <1>4, <2>1
  <2> QED
    BY <2>2 DEF d
<1>10. h + 1 - 0 = h + 1 /\ h + 1 - h = 1
  OBVIOUS
<1> QED
  BY <1>1, <1>6, <1>7, <1>8, <1>9, <1>10 DEF OnPath

\* Below a node of the path is the child of the key.
LEMMA PathChild ==
  ASSUME NEW P, NEW t, NEW lev, TreeOK(t, lev, P), NEW key \in Int, find_leaf(t, key) # NULL,
         NEW j \in 0..lev[t.root], j # lev[t.root]
  PROVE  OnPath(t, lev, key, j) =
           t.nodes[OnPath(t, lev, key, j + 1)].children[ChildIndex(t.nodes[OnPath(t, lev, key, j + 1)], key)]
<1>1. PICK h \in Nat : h = lev[t.root]
  BY DEF TreeOK, Levelled
<1>2. Len(t.nodes) \in Nat /\ h < Len(t.nodes) /\ DOMAIN lev = 1..Len(t.nodes)
  BY <1>1 DEF TreeOK, Levelled
<1> DEFINE d == h + 1 - j
           a == Descent(t, key)[d - 1]
<1>3. j \in Nat /\ j < h /\ j + 1 \in 0..h /\ h + 1 - (j + 1) = d - 1
  BY <1>1
<1>4. d \in 1..Len(t.nodes) /\ d # 1
  BY <1>2, <1>3
<1>5. Descent(t, key)[d] = Down(t, key)[a]
  <2> HIDE DEF d
  <2> QED
    BY <1>2, <1>4, DescentStep
<1>6. a = OnPath(t, lev, key, j + 1)
  BY <1>1, <1>3 DEF OnPath
<1>7. a \in DOMAIN lev /\ lev[a] = j + 1
  BY <1>1, <1>3, <1>6, PathIs
<1>8. a \in 0..Len(t.nodes) /\ a # NULL /\ ~t.nodes[a].is_leaf
  BY <1>2, <1>3, <1>7 DEF TreeOK, Levelled, Fits, NULL
<1> HIDE DEF a
<1>9. Down(t, key)[a] = t.nodes[a].children[ChildIndex(t.nodes[a], key)]
  BY <1>8 DEF Down
<1> QED
  BY <1>1, <1>5, <1>6, <1>9 DEF OnPath

-----------------------------------------------------------------------------
(* What goes into a node, and how a full node is cut.                        *)

\* An insert into a leaf adds one entry and keeps the others.
LEMMA LeafInserted ==
  ASSUME NEW P, NEW n \in TreeNode(P), n.is_leaf, Len(n.locations) = Len(n.keys),
         NEW key \in Int, NEW loc \in P
  PROVE  /\ LeafInsert(n, key, loc) \in TreeNode(P) /\ LeafInsert(n, key, loc).is_leaf
         /\ LeafInsert(n, key, loc).keys = InsertAt(n.keys, Position(n.keys, key), key)
         /\ Len(LeafInsert(n, key, loc).keys) = Len(n.keys) + 1
         /\ Len(LeafInsert(n, key, loc).locations) = Len(n.keys) + 1
         /\ \A k, l : NodeHas(LeafInsert(n, key, loc), k, l)
                        <=> NodeHas(n, k, l) \/ (k = key /\ l = loc)
<1>1. PICK nk \in Seq(Int), nl \in Seq(P) : nk = n.keys /\ nl = n.locations
  BY DEF TreeNode
<1> DEFINE at == Position(nk, key)
           m  == LeafInsert(n, key, loc)
           ks == InsertAt(nk, at, key)
           ls == InsertAt(nl, at, loc)
<1>2. at \in 1..Len(nk) + 1 /\ Len(nk) \in Nat /\ Len(nl) = Len(nk)
  <2>1. at \in 1..Len(nk) + 1
    BY PositionIs
  <2> QED
    BY <1>1, <2>1
<1> HIDE DEF at
<1>3. /\ ks \in Seq(Int) /\ Len(ks) = Len(nk) + 1 /\ ks[at] = key
      /\ \A j \in 1..Len(nk) : (j < at => ks[j] = nk[j]) /\ (j >= at => ks[j + 1] = nk[j])
  <2>1. ks \in Seq(Int) /\ Len(ks) = Len(nk) + 1 /\ ks[at] = key
    BY <1>2, Inserted
  <2> QED
    BY <1>2, <2>1, InsertedAt
<1>4. /\ ls \in Seq(P) /\ Len(ls) = Len(nk) + 1 /\ ls[at] = loc
      /\ \A j \in 1..Len(nk) : (j < at => ls[j] = nl[j]) /\ (j >= at => ls[j + 1] = nl[j])
  <2>1. at \in 1..Len(nl) + 1
    BY <1>2
  <2>2. ls \in Seq(P) /\ Len(ls) = Len(nl) + 1 /\ ls[at] = loc
    BY <2>1, Inserted
  <2>3. \A j \in 1..Len(nl) : (j < at => ls[j] = nl[j]) /\ (j >= at => ls[j + 1] = nl[j])
    BY <2>1, InsertedAt
  <2> HIDE DEF ls
  <2> QED
    BY <1>2, <2>2, <2>3
<1>5. m = [is_leaf |-> TRUE, keys |-> ks, locations |-> ls, children |-> <<>>]
  BY <1>1 DEF LeafInsert, Leaf, at
<1> HIDE DEF ks, ls, m
<1>6. m \in TreeNode(P) /\ m.is_leaf /\ m.keys = ks /\ m.locations = ls
  <2>1. <<>> \in Seq(Nat)
    OBVIOUS
  <2> QED
    BY <1>3, <1>4, <1>5, <2>1 DEF TreeNode
<1>7. ASSUME NEW k, NEW l PROVE NodeHas(m, k, l) <=> NodeHas(n, k, l) \/ (k = key /\ l = loc)
  <2>1. ASSUME NodeHas(m, k, l) PROVE NodeHas(n, k, l) \/ (k = key /\ l = loc)
    <3>1. PICK i \in 1..Len(nk) + 1 : ks[i] = k /\ ls[i] = l
      BY <1>3, <1>6, <2>1 DEF NodeHas
    <3>2. CASE i = at
      BY <1>3, <1>4, <3>1, <3>2
    <3>3. CASE i < at
      <4>1. i \in 1..Len(nk)
        BY <1>2, <3>3
      <4>2. nk[i] = k /\ nl[i] = l
        BY <1>3, <1>4, <3>1, <3>3, <4>1
      <4> QED
        BY <1>1, <4>1, <4>2 DEF NodeHas
    <3>4. CASE i > at
      <4>1. i - 1 \in 1..Len(nk) /\ i - 1 >= at /\ (i - 1) + 1 = i
        BY <1>2, <3>4
      <4>2. nk[i - 1] = k /\ nl[i - 1] = l
        BY <1>3, <1>4, <3>1, <4>1
      <4> QED
        BY <1>1, <4>1, <4>2 DEF NodeHas
    <3> QED
      BY <1>2, <3>2, <3>3, <3>4
  <2>2. ASSUME NodeHas(n, k, l) PROVE NodeHas(m, k, l)
    <3>1. PICK i \in 1..Len(nk) : nk[i] = k /\ nl[i] = l
      BY <1>1, <2>2 DEF NodeHas
    <3>2. CASE i < at
      <4>1. i \in 1..Len(ks) /\ ks[i] = k /\ ls[i] = l
        BY <1>2, <1>3, <1>4, <3>1, <3>2
      <4> QED
        BY <1>6, <4>1 DEF NodeHas
    <3>3. CASE i >= at
      <4>1. i + 1 \in 1..Len(ks)
        BY <1>2, <1>3
      <4>2. ks[i + 1] = k /\ ls[i + 1] = l
        BY <1>3, <1>4, <3>1, <3>3
      <4> QED
        BY <1>6, <4>1, <4>2 DEF NodeHas
    <3> QED
      BY <1>2, <3>2, <3>3
  <2>3. ASSUME k = key, l = loc PROVE NodeHas(m, k, l)
    BY <1>2, <1>3, <1>4, <1>6, <2>3 DEF NodeHas
  <2> QED
    BY <2>1, <2>2, <2>3
<1> QED
  BY <1>1, <1>2, <1>3, <1>4, <1>6, <1>7 DEF m, ks, at

\* The inner node m is n with key and the child right behind it, at place at.
InnerInserted(n, at, key, right, m, P) ==
  /\ m \in TreeNode(P) /\ ~m.is_leaf /\ at \in 1..Len(n.keys) + 1
  /\ m.keys = InsertAt(n.keys, at, key)
  /\ Len(m.keys) = Len(n.keys) + 1 /\ Len(m.children) = Len(n.keys) + 2
  /\ m.children[at + 1] = right
  /\ \A j \in 1..Len(n.keys) + 1 : /\ j <= at => m.children[j] = n.children[j]
                                   /\ j > at => m.children[j + 1] = n.children[j]

\* The new child of an internal node comes to lie behind the place of its key.
LEMMA InternalInserted ==
  ASSUME NEW P, NEW n \in TreeNode(P), ~n.is_leaf, Len(n.children) = Len(n.keys) + 1,
         NEW key \in Int, NEW right \in Nat, NEW at, at = Position(n.keys, key),
         NEW m, m = InternalInsert(n, key, right)
  PROVE  InnerInserted(n, at, key, right, m, P)
<1>1. PICK nk \in Seq(Int), nc \in Seq(Nat) : nk = n.keys /\ nc = n.children
  BY DEF TreeNode
<1> DEFINE ks == InsertAt(nk, at, key)
           cs == InsertAt(nc, at + 1, right)
<1>2. at \in 1..Len(nk) + 1 /\ Len(nk) \in Nat /\ Len(nc) = Len(nk) + 1
  <2>1. Position(nk, key) \in 1..Len(nk) + 1
    BY PositionIs
  <2> QED
    BY <1>1, <2>1
<1>3. ks \in Seq(Int) /\ Len(ks) = Len(nk) + 1
  BY <1>2, Inserted
<1>4. /\ cs \in Seq(Nat) /\ Len(cs) = Len(nk) + 2 /\ cs[at + 1] = right
      /\ \A j \in 1..Len(nk) + 1 : (j < at + 1 => cs[j] = nc[j]) /\ (j >= at + 1 => cs[j + 1] = nc[j])
  <2>1. at + 1 \in 1..Len(nc) + 1
    BY <1>2
  <2>2. cs \in Seq(Nat) /\ Len(cs) = Len(nc) + 1 /\ cs[at + 1] = right
    BY <2>1, Inserted, SMTT(30)
  <2>3. \A j \in 1..Len(nc) : (j < at + 1 => cs[j] = nc[j]) /\ (j >= at + 1 => cs[j + 1] = nc[j])
    BY <2>1, InsertedAt
  <2> HIDE DEF cs
  <2> QED
    BY <1>2, <2>2, <2>3
<1>5. m = [is_leaf |-> FALSE, keys |-> ks, locations |-> <<>>, children |-> cs]
  BY <1>1 DEF InternalInsert, Internal
<1> HIDE DEF ks, cs
<1>6. m \in TreeNode(P) /\ ~m.is_leaf /\ m.keys = ks /\ m.children = cs
  <2>1. <<>> \in Seq(P)
    OBVIOUS
  <2> QED
    BY <1>3, <1>4, <1>5, <2>1 DEF TreeNode
<1>7. \A j \in 1..Len(nk) + 1 : (j <= at => j < at + 1) /\ (j > at => j >= at + 1)
  BY <1>2, SMTT(30)
<1> QED
  BY <1>1, <1>2, <1>3, <1>4, <1>6, <1>7 DEF ks, InnerInserted

\* A full node has a key below its middle one and a key above.
LEMMA MidIs == mid \in Nat /\ mid >= 1 /\ INDEX_ORDER \in Nat /\ mid + 2 <= INDEX_ORDER
  BY OrderAssumption DEF mid

\* The halves of a leaf share its entries.
LEMMA LeafHalves ==
  ASSUME NEW P, NEW n \in TreeNode(P), n.is_leaf, Len(n.locations) = Len(n.keys),
         Len(n.keys) = INDEX_ORDER, NEW a, a = LowerLeaf(n), NEW b, b = UpperLeaf(n)
  PROVE  /\ a \in TreeNode(P) /\ a.is_leaf /\ Len(a.keys) = mid /\ Len(a.locations) = mid
         /\ b \in TreeNode(P) /\ b.is_leaf
         /\ Len(b.keys) = INDEX_ORDER - mid /\ Len(b.locations) = INDEX_ORDER - mid
         /\ \A i \in 1..mid : a.keys[i] = n.keys[i] /\ a.locations[i] = n.locations[i]
         /\ \A i \in 1..INDEX_ORDER - mid :
              b.keys[i] = n.keys[mid + i] /\ b.locations[i] = n.locations[mid + i]
<1>1. PICK nk \in Seq(Int), nl \in Seq(P) : nk = n.keys /\ nl = n.locations
  BY DEF TreeNode
<1>2. Len(nk) = INDEX_ORDER /\ Len(nl) = INDEX_ORDER
  BY <1>1
<1>3. mid \in Nat /\ mid >= 1 /\ INDEX_ORDER \in Nat /\ mid + 2 <= INDEX_ORDER
  BY MidIs
<1>4. /\ 1 \in 1..INDEX_ORDER + 1 /\ mid \in 1 - 1..INDEX_ORDER
      /\ mid + 1 \in 1..INDEX_ORDER + 1 /\ INDEX_ORDER \in mid + 1 - 1..INDEX_ORDER
  BY <1>3
<1> DEFINE ak == SubSeq(nk, 1, mid)
           al == SubSeq(nl, 1, mid)
           bk == SubSeq(nk, mid + 1, INDEX_ORDER)
           bl == SubSeq(nl, mid + 1, INDEX_ORDER)
<1>5. /\ ak \in Seq(Int) /\ Len(ak) = mid - 1 + 1
      /\ \A i \in 1..mid - 1 + 1 : ak[i] = nk[1 + i - 1]
  BY <1>2, <1>4, Cut
<1>6. /\ al \in Seq(P) /\ Len(al) = mid - 1 + 1
      /\ \A i \in 1..mid - 1 + 1 : al[i] = nl[1 + i - 1]
  BY <1>2, <1>4, Cut
<1>7. /\ bk \in Seq(Int) /\ Len(bk) = INDEX_ORDER - (mid + 1) + 1
      /\ \A i \in 1..INDEX_ORDER - (mid + 1) + 1 : bk[i] = nk[mid + 1 + i - 1]
  BY <1>2, <1>4, Cut
<1>8. /\ bl \in Seq(P) /\ Len(bl) = INDEX_ORDER - (mid + 1) + 1
      /\ \A i \in 1..INDEX_ORDER - (mid + 1) + 1 : bl[i] = nl[mid + 1 + i - 1]
  BY <1>2, <1>4, Cut
<1>9. a = [is_leaf |-> TRUE, keys |-> ak, locations |-> al, children |-> <<>>]
  BY <1>1 DEF LowerLeaf, Leaf
<1>10. b = [is_leaf |-> TRUE, keys |-> bk, locations |-> bl, children |-> <<>>]
  BY <1>1, <1>2 DEF UpperLeaf, Leaf
<1> HIDE DEF ak, al, bk, bl
<1>11. <<>> \in Seq(Nat)
  OBVIOUS
<1>12. /\ a \in TreeNode(P) /\ a.is_leaf /\ a.keys = ak /\ a.locations = al
       /\ b \in TreeNode(P) /\ b.is_leaf /\ b.keys = bk /\ b.locations = bl
  BY <1>5, <1>6, <1>7, <1>8, <1>9, <1>10, <1>11 DEF TreeNode
<1>13. /\ mid - 1 + 1 = mid /\ INDEX_ORDER - (mid + 1) + 1 = INDEX_ORDER - mid
       /\ \A i \in 1..mid : 1 + i - 1 = i
       /\ \A i \in 1..INDEX_ORDER - mid : mid + 1 + i - 1 = mid + i
  BY <1>3
<1> QED
  BY <1>1, <1>5, <1>6, <1>7, <1>8, <1>12, <1>13, ZenonT(60)

\* What the halves a and b of an inner node n take from it.
InnerHalves(n, a, b, P) ==
  /\ a \in TreeNode(P) /\ ~a.is_leaf /\ Len(a.keys) = mid /\ Len(a.children) = mid + 1
  /\ b \in TreeNode(P) /\ ~b.is_leaf
  /\ Len(b.keys) = INDEX_ORDER - mid - 1 /\ Len(b.children) = INDEX_ORDER - mid
  /\ \A i \in 1..mid : a.keys[i] = n.keys[i]
  /\ \A i \in 1..mid + 1 : a.children[i] = n.children[i]
  /\ \A i \in 1..INDEX_ORDER - mid - 1 : b.keys[i] = n.keys[mid + 1 + i]
  /\ \A i \in 1..INDEX_ORDER - mid : b.children[i] = n.children[mid + 1 + i]

\* The halves of an internal node share its children, and its middle key is gone.
LEMMA InternalHalves ==
  ASSUME NEW P, NEW n \in TreeNode(P), ~n.is_leaf, Len(n.children) = Len(n.keys) + 1,
         Len(n.keys) = INDEX_ORDER, NEW a, a = LowerInternal(n), NEW b, b = UpperInternal(n)
  PROVE  InnerHalves(n, a, b, P)
<1>1. PICK nk \in Seq(Int), nc \in Seq(Nat) : nk = n.keys /\ nc = n.children
  BY DEF TreeNode
<1>2. Len(nk) = INDEX_ORDER /\ Len(nc) = INDEX_ORDER + 1
  BY <1>1
<1>3. mid \in Nat /\ mid >= 1 /\ INDEX_ORDER \in Nat /\ mid + 2 <= INDEX_ORDER
  BY MidIs
<1>4. /\ 1 \in 1..INDEX_ORDER + 1 /\ mid \in 1 - 1..INDEX_ORDER
      /\ mid + 2 \in 1..INDEX_ORDER + 1 /\ INDEX_ORDER \in mid + 2 - 1..INDEX_ORDER
      /\ 1 \in 1..INDEX_ORDER + 1 + 1 /\ mid + 1 \in 1 - 1..INDEX_ORDER + 1
      /\ mid + 2 \in 1..INDEX_ORDER + 1 + 1 /\ INDEX_ORDER + 1 \in mid + 2 - 1..INDEX_ORDER + 1
  BY <1>3
<1> DEFINE ak == SubSeq(nk, 1, mid)
           ac == SubSeq(nc, 1, mid + 1)
           bk == SubSeq(nk, mid + 2, INDEX_ORDER)
           bc == SubSeq(nc, mid + 2, INDEX_ORDER + 1)
<1>5. /\ ak \in Seq(Int) /\ Len(ak) = mid - 1 + 1
      /\ \A i \in 1..mid - 1 + 1 : ak[i] = nk[1 + i - 1]
  BY <1>2, <1>4, Cut, SMTT(30)
<1>6. /\ ac \in Seq(Nat) /\ Len(ac) = mid + 1 - 1 + 1
      /\ \A i \in 1..mid + 1 - 1 + 1 : ac[i] = nc[1 + i - 1]
  BY <1>2, <1>4, Cut, SMTT(30)
<1>7. /\ bk \in Seq(Int) /\ Len(bk) = INDEX_ORDER - (mid + 2) + 1
      /\ \A i \in 1..INDEX_ORDER - (mid + 2) + 1 : bk[i] = nk[mid + 2 + i - 1]
  <2>1. PICK q \in Nat, e \in Nat : q = mid + 2 /\ e = INDEX_ORDER
    BY <1>3
  <2>2. q \in 1..Len(nk) + 1 /\ e \in q - 1..Len(nk)
    BY <1>2, <1>3, <2>1
  <2>3. /\ SubSeq(nk, q, e) \in Seq(Int) /\ Len(SubSeq(nk, q, e)) = e - q + 1
        /\ \A i \in 1..e - q + 1 : SubSeq(nk, q, e)[i] = nk[q + i - 1]
    BY <2>2, Cut
  <2> QED
    BY <2>1, <2>3
<1>8. /\ bc \in Seq(Nat) /\ Len(bc) = INDEX_ORDER + 1 - (mid + 2) + 1
      /\ \A i \in 1..INDEX_ORDER + 1 - (mid + 2) + 1 : bc[i] = nc[mid + 2 + i - 1]
  <2>1. PICK q \in Nat, e \in Nat : q = mid + 2 /\ e = INDEX_ORDER + 1
    BY <1>3
  <2>2. q \in 1..Len(nc) + 1 /\ e \in q - 1..Len(nc)
    BY <1>2, <1>3, <2>1
  <2>3. /\ SubSeq(nc, q, e) \in Seq(Nat) /\ Len(SubSeq(nc, q, e)) = e - q + 1
        /\ \A i \in 1..e - q + 1 : SubSeq(nc, q, e)[i] = nc[q + i - 1]
    BY <2>2, Cut
  <2>4. bc = SubSeq(nc, q, e)
    BY <2>1
  <2>5. e - q + 1 = INDEX_ORDER + 1 - (mid + 2) + 1 /\ \A i \in 1..e - q + 1 : q + i - 1 = mid + 2 + i - 1
    BY <2>1, <1>3
  <2> HIDE DEF bc
  <2> QED
    BY <2>3, <2>4, <2>5
<1>9. a = [is_leaf |-> FALSE, keys |-> ak, locations |-> <<>>, children |-> ac]
  BY <1>1 DEF LowerInternal, Internal
<1>10. b = [is_leaf |-> FALSE, keys |-> bk, locations |-> <<>>, children |-> bc]
  BY <1>1, <1>2 DEF UpperInternal, Internal
<1> HIDE DEF ak, ac, bk, bc
<1>11. <<>> \in Seq(P)
  OBVIOUS
<1>12. /\ a \in TreeNode(P) /\ ~a.is_leaf /\ a.keys = ak /\ a.children = ac
       /\ b \in TreeNode(P) /\ ~b.is_leaf /\ b.keys = bk /\ b.children = bc
  BY <1>5, <1>6, <1>7, <1>8, <1>9, <1>10, <1>11 DEF TreeNode
<1>13. /\ mid - 1 + 1 = mid /\ INDEX_ORDER - (mid + 2) + 1 = INDEX_ORDER - mid - 1
       /\ mid + 1 - 1 + 1 = mid + 1 /\ INDEX_ORDER + 1 - (mid + 2) + 1 = INDEX_ORDER - mid
       /\ \A i \in 1..mid + 1 : 1 + i - 1 = i
       /\ \A i \in 1..INDEX_ORDER - mid : mid + 2 + i - 1 = mid + 1 + i
       /\ \A i \in 1..mid : i \in 1..mid + 1
       /\ \A i \in 1..INDEX_ORDER - mid - 1 : i \in 1..INDEX_ORDER - mid
  BY <1>3
<1>14. /\ Len(a.keys) = mid /\ Len(a.children) = mid + 1
       /\ \A i \in 1..mid : a.keys[i] = n.keys[i]
       /\ \A i \in 1..mid + 1 : a.children[i] = n.children[i]
  BY <1>1, <1>5, <1>6, <1>12, <1>13
<1>15. /\ Len(b.keys) = INDEX_ORDER - mid - 1 /\ Len(b.children) = INDEX_ORDER - mid
       /\ \A i \in 1..INDEX_ORDER - mid - 1 : b.keys[i] = n.keys[mid + 1 + i]
       /\ \A i \in 1..INDEX_ORDER - mid : b.children[i] = n.children[mid + 1 + i]
  BY <1>1, <1>7, <1>8, <1>12, <1>13, SMTT(30)
<1> QED
  BY <1>12, <1>14, <1>15 DEF InnerHalves

-----------------------------------------------------------------------------
(* A node is replaced, or cut in two.                                        *)

\* The heights of the nodes, and l for the new ones.
Levels(lev, len, l) == [a \in 1..len |-> IF a \in DOMAIN lev THEN lev[a] ELSE l]

\* A node fits where the heights of its children are kept.
LEMMA FitsStill ==
  ASSUME NEW n, NEW l, NEW lev, NEW lev2, Fits(n, l, lev),
         \A a \in DOMAIN lev : a \in DOMAIN lev2 /\ lev2[a] = lev[a]
  PROVE  Fits(n, l, lev2)
  BY DEF Fits

\* A node is replaced; a node is added; a node is cut.
With(nodes, at, n) == [nodes EXCEPT ![at] = n]
More(nodes, n)     == Append(nodes, n)
Halves(nodes, at, n) == More(With(nodes, at, Lower(n)), Upper(n))

\* A node that fits its level may take the place of another of the same level.
LEMMA Replaced ==
  ASSUME NEW P, NEW nodes, NEW lev, Levelled(nodes, lev, P), NEW at \in DOMAIN lev,
         NEW n \in TreeNode(P), Fits(n, lev[at], lev)
  PROVE  /\ Levelled(With(nodes, at, n), lev, P) /\ Len(With(nodes, at, n)) = Len(nodes)
         /\ With(nodes, at, n)[at] = n
         /\ \A a \in DOMAIN lev \ {at} : With(nodes, at, n)[a] = nodes[a]
<1>1. /\ nodes \in Seq(TreeNode(P)) /\ lev \in [1..Len(nodes) -> Nat] /\ DOMAIN lev = 1..Len(nodes)
      /\ \A a \in 1..Len(nodes) : Fits(nodes[a], lev[a], lev)
  BY DEF Levelled
<1> DEFINE new == With(nodes, at, n)
<1>2. /\ new \in Seq(TreeNode(P)) /\ Len(new) = Len(nodes) /\ new[at] = n
      /\ \A a \in DOMAIN lev \ {at} : new[a] = nodes[a]
  BY <1>1 DEF With
<1> HIDE DEF new
<1>3. \A a \in 1..Len(new) : Fits(new[a], lev[a], lev)
  BY <1>1, <1>2
<1>4. Levelled(new, lev, P)
  BY <1>1, <1>2, <1>3 DEF Levelled
<1> QED
  BY <1>2, <1>4 DEF new

\* A node that fits is put behind the others, at a level of its own.
LEMMA Appended ==
  ASSUME NEW P, NEW nodes, NEW lev, Levelled(nodes, lev, P), NEW l \in Nat,
         NEW n \in TreeNode(P), Fits(n, l, lev)
  PROVE  /\ Levelled(More(nodes, n), Levels(lev, Len(nodes) + 1, l), P)
         /\ Len(More(nodes, n)) = Len(nodes) + 1 /\ More(nodes, n)[Len(nodes) + 1] = n
         /\ DOMAIN Levels(lev, Len(nodes) + 1, l) = 1..Len(nodes) + 1
         /\ Levels(lev, Len(nodes) + 1, l)[Len(nodes) + 1] = l
         /\ \A a \in DOMAIN lev : /\ More(nodes, n)[a] = nodes[a]
                                  /\ a \in DOMAIN Levels(lev, Len(nodes) + 1, l)
                                  /\ Levels(lev, Len(nodes) + 1, l)[a] = lev[a]
         /\ \A a \in DOMAIN Levels(lev, Len(nodes) + 1, l) : a \in DOMAIN lev \/ a = Len(nodes) + 1
<1> DEFINE new  == More(nodes, n)
           lev2 == Levels(lev, Len(nodes) + 1, l)
<1>1. /\ nodes \in Seq(TreeNode(P)) /\ lev \in [1..Len(nodes) -> Nat] /\ DOMAIN lev = 1..Len(nodes)
      /\ \A a \in 1..Len(nodes) : Fits(nodes[a], lev[a], lev)
      /\ Len(nodes) \in Nat
  BY DEF Levelled
<1>2. /\ new \in Seq(TreeNode(P)) /\ Len(new) = Len(nodes) + 1 /\ new[Len(nodes) + 1] = n
      /\ \A a \in DOMAIN lev : new[a] = nodes[a]
  BY <1>1 DEF More
<1>3. /\ \A a \in 1..Len(nodes) + 1 : a \in 1..Len(nodes) \/ a = Len(nodes) + 1
      /\ \A a \in 1..Len(nodes) : a \in 1..Len(nodes) + 1
      /\ Len(nodes) + 1 \notin 1..Len(nodes) /\ Len(nodes) + 1 \in 1..Len(nodes) + 1
  BY <1>1
<1>4. /\ DOMAIN lev2 = 1..Len(nodes) + 1 /\ lev2[Len(nodes) + 1] = l
      /\ \A a \in DOMAIN lev : lev2[a] = lev[a]
      /\ lev2 \in [1..Len(nodes) + 1 -> Nat]
  <2> DEFINE N == Len(nodes) + 1
  <2>1. /\ DOMAIN lev2 = 1..N
        /\ \A a \in 1..N : lev2[a] = IF a \in DOMAIN lev THEN lev[a] ELSE l
        /\ lev2 = [a \in 1..N |-> lev2[a]]
    BY DEF Levels
  <2>2. \A a \in 1..N : lev2[a] \in Nat
    BY <1>1, <2>1
  <2> QED
    BY <1>1, <1>3, <2>1, <2>2
<1> HIDE DEF new, lev2
<1>5. \A a \in DOMAIN lev : a \in DOMAIN lev2 /\ lev2[a] = lev[a]
  BY <1>1, <1>3, <1>4
<1>6. \A a \in 1..Len(nodes) : Fits(new[a], lev2[a], lev2)
  <2> SUFFICES ASSUME NEW a \in 1..Len(nodes) PROVE Fits(new[a], lev2[a], lev2)
    OBVIOUS
  <2>1. Fits(nodes[a], lev[a], lev) /\ new[a] = nodes[a] /\ lev2[a] = lev[a]
    BY <1>1, <1>2, <1>4
  <2> QED
    BY <1>5, <2>1, FitsStill
<1>7. Fits(n, l, lev2)
  BY <1>5, FitsStill
<1>8. \A a \in 1..Len(new) : Fits(new[a], lev2[a], lev2)
  BY <1>2, <1>3, <1>4, <1>6, <1>7
<1>9. Levelled(new, lev2, P)
  BY <1>2, <1>4, <1>8 DEF Levelled
<1> QED
  BY <1>1, <1>2, <1>3, <1>4, <1>5, <1>9 DEF new, lev2

\* Both halves of a node fit where it fitted.
LEMMA HalvesFit ==
  ASSUME NEW P, NEW n \in TreeNode(P), NEW l \in Nat, NEW lev, Fits(n, l, lev), Len(n.keys) = INDEX_ORDER
  PROVE  /\ Lower(n) \in TreeNode(P) /\ Fits(Lower(n), l, lev)
         /\ Upper(n) \in TreeNode(P) /\ Fits(Upper(n), l, lev)
         /\ Promoted(n) \in Int
<1>1. mid \in Nat /\ mid >= 1 /\ INDEX_ORDER \in Nat /\ mid + 2 <= INDEX_ORDER
  BY MidIs
<1>2. Promoted(n) \in Int
  <2>1. mid + 1 \in 1..INDEX_ORDER
    BY <1>1
  <2>2. n.keys \in Seq(Int)
    BY DEF TreeNode
  <2> QED
    BY <2>1, <2>2 DEF Promoted
<1>3. CASE n.is_leaf
  <2> DEFINE a == LowerLeaf(n)
             b == UpperLeaf(n)
  <2>1. Lower(n) = a /\ Upper(n) = b
    BY <1>3 DEF Lower, Upper
  <2>2. Len(n.locations) = Len(n.keys)
    BY <1>3 DEF Fits
  <2>3. /\ a \in TreeNode(P) /\ a.is_leaf /\ Len(a.keys) = mid /\ Len(a.locations) = mid
        /\ b \in TreeNode(P) /\ b.is_leaf
        /\ Len(b.keys) = INDEX_ORDER - mid /\ Len(b.locations) = INDEX_ORDER - mid
    BY <1>3, <2>2, LeafHalves
  <2>4. l = 0
    BY <1>3 DEF Fits
  <2> HIDE DEF a, b
  <2>5. Fits(a, l, lev) /\ Fits(b, l, lev)
    BY <2>3, <2>4 DEF Fits
  <2> QED
    BY <1>2, <2>1, <2>3, <2>5
<1>4. CASE ~n.is_leaf
  <2> DEFINE a == LowerInternal(n)
             b == UpperInternal(n)
  <2>1. Lower(n) = a /\ Upper(n) = b
    BY <1>4 DEF Lower, Upper
  <2>2. Len(n.children) = Len(n.keys) + 1 /\ l # 0
        /\ \A i \in 1..INDEX_ORDER + 1 : n.children[i] # NULL =>
              n.children[i] \in DOMAIN lev /\ lev[n.children[i]] = l - 1
    BY <1>4 DEF Fits
  <2>3. /\ a \in TreeNode(P) /\ ~a.is_leaf /\ Len(a.keys) = mid /\ Len(a.children) = mid + 1
        /\ b \in TreeNode(P) /\ ~b.is_leaf
        /\ Len(b.keys) = INDEX_ORDER - mid - 1 /\ Len(b.children) = INDEX_ORDER - mid
        /\ \A i \in 1..mid + 1 : a.children[i] = n.children[i]
        /\ \A i \in 1..INDEX_ORDER - mid : b.children[i] = n.children[mid + 1 + i]
    <3>1. Len(n.children) = Len(n.keys) + 1
      BY <2>2
    <3> QED
      BY <1>4, <3>1, InternalHalves DEF InnerHalves
  <2> HIDE DEF a, b
  <2>4. \A i \in 1..mid + 1 : i \in 1..INDEX_ORDER + 1
    BY <1>1
  <2>5. \A i \in 1..INDEX_ORDER - mid : mid + 1 + i \in 1..INDEX_ORDER + 1
    BY <1>1
  <2>6. Fits(a, l, lev)
    BY <2>2, <2>3, <2>4 DEF Fits
  <2>7. INDEX_ORDER - mid = INDEX_ORDER - mid - 1 + 1
    BY <1>1
  <2>8. Fits(b, l, lev)
    <3>1. \A i \in 1..INDEX_ORDER - mid : b.children[i] # NULL =>
            b.children[i] \in DOMAIN lev /\ lev[b.children[i]] = l - 1
      BY <2>2, <2>3, <2>5, ZenonT(60)
    <3> QED
      BY <2>2, <2>3, <2>7, <3>1 DEF Fits
  <2> QED
    BY <1>2, <2>1, <2>3, <2>6, <2>8
<1> QED
  BY <1>3, <1>4

\* A node is replaced by its lower half, and the upper half is a new node.
LEMMA Halved ==
  ASSUME NEW P, NEW nodes, NEW lev, Levelled(nodes, lev, P), NEW at \in DOMAIN lev,
         NEW n \in TreeNode(P), Fits(n, lev[at], lev), Len(n.keys) = INDEX_ORDER,
         NEW lev2, lev2 = Levels(lev, Len(nodes) + 1, lev[at]),
         NEW new, new = Halves(nodes, at, n)
  PROVE  /\ Levelled(new, lev2, P) /\ Len(new) = Len(nodes) + 1
         /\ new[at] = Lower(n) /\ new[Len(nodes) + 1] = Upper(n)
         /\ DOMAIN lev2 = 1..Len(nodes) + 1 /\ lev2[Len(nodes) + 1] = lev[at]
         /\ \A a \in DOMAIN lev : a \in DOMAIN lev2 /\ lev2[a] = lev[a] /\ (a # at => new[a] = nodes[a])
         /\ \A a \in DOMAIN lev2 : a \in DOMAIN lev \/ a = Len(nodes) + 1
<1>1. PICK l \in Nat : l = lev[at]
  BY DEF Levelled
<1>2. PICK lo \in TreeNode(P), up \in TreeNode(P) :
        lo = Lower(n) /\ up = Upper(n) /\ Fits(lo, l, lev) /\ Fits(up, l, lev)
  BY <1>1, HalvesFit
<1>3. PICK half : half = With(nodes, at, lo)
  OBVIOUS
<1>4. /\ Levelled(half, lev, P) /\ Len(half) = Len(nodes) /\ half[at] = lo
      /\ \A a \in DOMAIN lev \ {at} : half[a] = nodes[a]
  <2>1. Fits(lo, lev[at], lev)
    BY <1>1, <1>2
  <2> QED
    BY <1>3, <2>1, Replaced
<1>5. new = More(half, up) /\ lev2 = Levels(lev, Len(half) + 1, l)
  BY <1>1, <1>2, <1>3, <1>4 DEF Halves
<1>6. /\ Levelled(new, lev2, P) /\ Len(new) = Len(half) + 1 /\ new[Len(half) + 1] = up
      /\ DOMAIN lev2 = 1..Len(half) + 1 /\ lev2[Len(half) + 1] = l
      /\ \A a \in DOMAIN lev : new[a] = half[a] /\ a \in DOMAIN lev2 /\ lev2[a] = lev[a]
      /\ \A a \in DOMAIN lev2 : a \in DOMAIN lev \/ a = Len(half) + 1
  <2>1. Levelled(half, lev, P) /\ Fits(up, l, lev)
    BY <1>2, <1>4
  <2> QED
    BY <1>5, <2>1, Appended
<1> QED
  BY <1>1, <1>2, <1>4, <1>6

\* The halves of a node have its entries.
LEMMA HalvesHave ==
  ASSUME NEW P, NEW n \in TreeNode(P), NEW l \in Nat, NEW lev, Fits(n, l, lev), Len(n.keys) = INDEX_ORDER,
         NEW k, NEW loc
  PROVE  NodeHas(n, k, loc) <=> NodeHas(Lower(n), k, loc) \/ NodeHas(Upper(n), k, loc)
<1>1. mid \in Nat /\ mid >= 1 /\ INDEX_ORDER \in Nat /\ mid + 2 <= INDEX_ORDER
  BY MidIs
<1>2. CASE n.is_leaf
  <2>1. PICK a, b : a = LowerLeaf(n) /\ b = UpperLeaf(n)
    OBVIOUS
  <2>2. Lower(n) = a /\ Upper(n) = b
    BY <1>2, <2>1 DEF Lower, Upper
  <2>3. Len(n.locations) = Len(n.keys)
    BY <1>2 DEF Fits
  <2>4. /\ a.is_leaf /\ Len(a.keys) = mid /\ b.is_leaf /\ Len(b.keys) = INDEX_ORDER - mid
        /\ \A i \in 1..mid : a.keys[i] = n.keys[i] /\ a.locations[i] = n.locations[i]
        /\ \A i \in 1..INDEX_ORDER - mid :
             b.keys[i] = n.keys[mid + i] /\ b.locations[i] = n.locations[mid + i]
    BY <1>2, <2>1, <2>3, LeafHalves, SMTT(30)
  <2>5. ASSUME NodeHas(n, k, loc) PROVE NodeHas(a, k, loc) \/ NodeHas(b, k, loc)
    <3>1. PICK i \in 1..INDEX_ORDER : n.keys[i] = k /\ n.locations[i] = loc
      BY <2>5 DEF NodeHas
    <3>2. CASE i <= mid
      <4>1. i \in 1..mid
        BY <1>1, <3>2
      <4> QED
        BY <2>4, <3>1, <4>1 DEF NodeHas
    <3>3. CASE i > mid
      <4>1. PICK j \in 1..INDEX_ORDER - mid : mid + j = i
        <5>1. i - mid \in 1..INDEX_ORDER - mid /\ mid + (i - mid) = i
          BY <1>1, <3>3
        <5> QED
          BY <5>1
      <4>2. b.keys[j] = k /\ b.locations[j] = loc
        BY <2>4, <3>1, <4>1
      <4> QED
        BY <2>4, <4>2 DEF NodeHas
    <3> QED
      BY <1>1, <3>2, <3>3
  <2>6. ASSUME NodeHas(a, k, loc) PROVE NodeHas(n, k, loc)
    <3>1. PICK i \in 1..mid : n.keys[i] = k /\ n.locations[i] = loc
      BY <2>4, <2>6 DEF NodeHas
    <3>2. i \in 1..INDEX_ORDER
      BY <1>1
    <3> QED
      BY <1>2, <3>1, <3>2 DEF NodeHas
  <2>7. ASSUME NodeHas(b, k, loc) PROVE NodeHas(n, k, loc)
    <3>1. PICK i \in 1..INDEX_ORDER - mid : n.keys[mid + i] = k /\ n.locations[mid + i] = loc
      BY <2>4, <2>7, SMTT(30) DEF NodeHas
    <3>2. mid + i \in 1..INDEX_ORDER
      BY <1>1
    <3> QED
      BY <1>2, <3>1, <3>2 DEF NodeHas
  <2> QED
    BY <2>2, <2>5, <2>6, <2>7
<1>3. CASE ~n.is_leaf
  <2>1. ~Lower(n).is_leaf /\ ~Upper(n).is_leaf
    BY <1>3 DEF Lower, Upper, LowerInternal, UpperInternal, Internal
  <2> QED
    BY <1>3, <2>1 DEF NodeHas
<1> QED
  BY <1>2, <1>3

(* What becomes of the nodes when n, which takes the place of the node at, is   *)
(* settled: the other nodes stay, there may be one more of the same height,   *)
(* and the entries of n are added.                                          *)
Added(r, lev2, nodes, lev, at, n, P) ==
  /\ Levelled(r.nodes, lev2, P)
  /\ \A a \in DOMAIN lev : a \in DOMAIN lev2 /\ lev2[a] = lev[a] /\ (a # at => r.nodes[a] = nodes[a])
  /\ \A a \in DOMAIN lev2 : a \in DOMAIN lev \/ lev2[a] = lev[at]
  /\ r.promoted_key \in Int /\ r.right_child \in Nat
  /\ r.right_child # NULL => r.right_child \in DOMAIN lev2 /\ lev2[r.right_child] = lev[at]
  /\ \A k, l : Has(r.nodes, k, l)
                 <=> NodeHas(n, k, l) \/ \E a \in DOMAIN lev \ {at} : NodeHas(nodes[a], k, l)

\* A node that is not cut: it had room, or there was no memory.
LEMMA NotCut ==
  ASSUME NEW P, NEW nodes, NEW lev, Levelled(nodes, lev, P), NEW at \in DOMAIN lev,
         NEW n \in TreeNode(P), Fits(n, lev[at], lev),
         NEW r, r.nodes = With(nodes, at, n), r.promoted_key \in Int, r.right_child = NULL
  PROVE  Added(r, lev, nodes, lev, at, n, P)
<1>1. PICK new : new = With(nodes, at, n)
  OBVIOUS
<1>2. /\ Levelled(new, lev, P) /\ Len(new) = Len(nodes) /\ new[at] = n
      /\ \A a \in DOMAIN lev \ {at} : new[a] = nodes[a]
  BY <1>1, Replaced
<1>3. DOMAIN lev = 1..Len(new)
  BY <1>2 DEF Levelled
<1>4. ASSUME NEW k, NEW l
      PROVE  Has(new, k, l) <=> NodeHas(n, k, l) \/ \E a \in DOMAIN lev \ {at} : NodeHas(nodes[a], k, l)
  BY <1>2, <1>3 DEF Has
<1> QED
  BY <1>1, <1>2, <1>4 DEF Added, NULL

\* A node that is cut.
LEMMA IsCut ==
  ASSUME NEW P, NEW nodes, NEW lev, Levelled(nodes, lev, P), NEW at \in DOMAIN lev,
         NEW n \in TreeNode(P), Fits(n, lev[at], lev), Len(n.keys) = INDEX_ORDER,
         NEW r, r.nodes = Halves(nodes, at, n), r.promoted_key = Promoted(n), r.right_child = Len(nodes) + 1
  PROVE  Added(r, Levels(lev, Len(nodes) + 1, lev[at]), nodes, lev, at, n, P)
<1>1. PICK new, lev2 : new = Halves(nodes, at, n) /\ lev2 = Levels(lev, Len(nodes) + 1, lev[at])
  OBVIOUS
<1>2. PICK h \in Nat : h = lev[at]
  BY DEF Levelled
<1>3. /\ Levelled(new, lev2, P) /\ Len(new) = Len(nodes) + 1
      /\ new[at] = Lower(n) /\ new[Len(nodes) + 1] = Upper(n)
      /\ DOMAIN lev2 = 1..Len(nodes) + 1 /\ lev2[Len(nodes) + 1] = h
      /\ \A a \in DOMAIN lev : a \in DOMAIN lev2 /\ lev2[a] = lev[a] /\ (a # at => new[a] = nodes[a])
      /\ \A a \in DOMAIN lev2 : a \in DOMAIN lev \/ a = Len(nodes) + 1
  BY <1>1, <1>2, Halved
<1>4. /\ DOMAIN lev = 1..Len(nodes) /\ Len(nodes) \in Nat /\ Len(nodes) + 1 \in DOMAIN lev2
      /\ Len(nodes) + 1 \notin DOMAIN lev /\ DOMAIN lev2 = 1..Len(new)
  BY <1>3 DEF Levelled
<1>5. Promoted(n) \in Int
  BY <1>2, HalvesFit
<1>6. ASSUME NEW k, NEW l
      PROVE  Has(new, k, l) <=> NodeHas(n, k, l) \/ \E a \in DOMAIN lev \ {at} : NodeHas(nodes[a], k, l)
  <2>1. NodeHas(n, k, l) <=> NodeHas(Lower(n), k, l) \/ NodeHas(Upper(n), k, l)
    BY <1>2, HalvesHave
  <2>2. Has(new, k, l) <=> \E a \in DOMAIN lev2 : NodeHas(new[a], k, l)
    BY <1>4 DEF Has
  <2>3. at \in DOMAIN lev2
    BY <1>3
  <2>4. \A a \in DOMAIN lev2 : a = at \/ a = Len(nodes) + 1 \/ (a \in DOMAIN lev \ {at} /\ new[a] = nodes[a])
    BY <1>3
  <2>5. \A a \in DOMAIN lev \ {at} : a \in DOMAIN lev2 /\ new[a] = nodes[a]
    BY <1>3
  <2> QED
    BY <1>3, <1>4, <2>1, <2>2, <2>3, <2>4, <2>5
<1>7. Len(nodes) + 1 \in Nat
  BY <1>4
<1>8. \A a \in DOMAIN lev2 : a \in DOMAIN lev \/ lev2[a] = lev[at]
  BY <1>2, <1>3
<1>9. Added(r, lev2, nodes, lev, at, n, P)
  BY <1>1, <1>2, <1>3, <1>4, <1>5, <1>6, <1>7, <1>8 DEF Added
<1> QED
  BY <1>1, <1>9

\* Whatever is settled, some heights fit.
LEMMA SettleAdds ==
  ASSUME NEW P, NEW nodes, NEW lev, Levelled(nodes, lev, P), NEW at \in DOMAIN lev,
         NEW n \in TreeNode(P), Fits(n, lev[at], lev), NEW calls, NEW failAt, NEW garbage \in Int
  PROVE  \E lev2 : Added(Settle(nodes, at, n, calls, failAt, garbage), lev2, nodes, lev, at, n, P)
<1>1. PICK r : r = Settle(nodes, at, n, calls, failAt, garbage)
  OBVIOUS
<1>2. CASE Len(n.keys) # INDEX_ORDER
  <2>1. r.nodes = With(nodes, at, n) /\ r.promoted_key \in Int /\ r.right_child = NULL
    BY <1>1, <1>2 DEF Settle, Whole, With
  <2>2. Added(r, lev, nodes, lev, at, n, P)
    BY <2>1, NotCut
  <2> QED
    BY <1>1, <2>2
<1>3. CASE Len(n.keys) = INDEX_ORDER /\ failAt = calls + 1
  <2>1. r.nodes = With(nodes, at, n) /\ r.promoted_key \in Int /\ r.right_child = NULL
    BY <1>1, <1>3 DEF Settle, With
  <2>2. Added(r, lev, nodes, lev, at, n, P)
    BY <2>1, NotCut
  <2> QED
    BY <1>1, <2>2
<1>4. CASE Len(n.keys) = INDEX_ORDER /\ failAt # calls + 1
  <2>1. r.nodes = Halves(nodes, at, n) /\ r.promoted_key = Promoted(n) /\ r.right_child = Len(nodes) + 1
    BY <1>1, <1>4 DEF Settle, Halves, More, With
  <2>2. Added(r, Levels(lev, Len(nodes) + 1, lev[at]), nodes, lev, at, n, P)
    BY <1>4, <2>1, IsCut
  <2> QED
    BY <1>1, <2>2
<1> QED
  BY <1>2, <1>3, <1>4

-----------------------------------------------------------------------------
(* insert_recursive: what the call returns that is j levels above the leaf.  *)

Rise(F, t, key, loc, failAt, garbage, j) ==
  IF j = 0
  THEN Settle(t.nodes, find_leaf(t, key), LeafInsert(t.nodes[find_leaf(t, key)], key, loc),
              0, failAt, garbage)
  ELSE LET below == F[j - 1]
           at    == Descent(t, key)[Depth(t, key) + 1 - j]
       IN IF ~below.split THEN below
          ELSE Settle(below.nodes, at,
                      InternalInsert(below.nodes[at], below.promoted_key, below.right_child),
                      below.calls, failAt, garbage)

Results(F, t, key, loc, failAt, garbage, h) ==
  F = [j \in 0..h |-> Rise(F, t, key, loc, failAt, garbage, j)]

\* There are such results: no level is the first without one.
LEMMA RiseExists ==
  ASSUME NEW t, NEW key, NEW loc, NEW failAt, NEW garbage, NEW h \in Nat
  PROVE  \E F : Results(F, t, key, loc, failAt, garbage, h)
<1> SUFFICES \E F : F = [j \in 0..h |-> Rise(F, t, key, loc, failAt, garbage, j)]
  BY DEF Results
<1> DEFINE Runs(k, F) == F = [j \in 0..k |-> Rise(F, t, key, loc, failAt, garbage, j)]
           T == {k \in Nat : k <= h /\ ~\E F : Runs(k, F)}
<1>1. SUFFICES ASSUME T # {} PROVE FALSE
  BY <1>1
<1>2. PICK m \in T : \A k \in T : m <= k
  BY <1>1, LeastOf
<1>3. m \in Nat /\ m <= h /\ \A F : ~Runs(m, F)
  BY <1>2
<1> DEFINE R(F, j) == Rise(F, t, key, loc, failAt, garbage, j)
<1>4. CASE m = 0
  <2>1. PICK r : r = Settle(t.nodes, find_leaf(t, key), LeafInsert(t.nodes[find_leaf(t, key)], key, loc),
                            0, failAt, garbage)
    OBVIOUS
  <2>2. PICK F : F = [j \in 0..0 |-> r]
    OBVIOUS
  <2>3. R(F, 0) = r
    BY <2>1 DEF Rise
  <2>4. \A j \in 0..0 : R(F, j) = r
    BY <2>3
  <2> HIDE DEF R
  <2>5. F = [j \in 0..0 |-> R(F, j)]
    BY <2>2, <2>4
  <2>6. Runs(0, F)
    BY <2>5 DEF R
  <2> QED
    BY <1>3, <1>4, <2>6
<1>5. CASE m > 0
  <2>1. m - 1 \in Nat /\ m - 1 <= h /\ m - 1 \notin T
    BY <1>2, <1>3, <1>5
  <2>2. PICK F : Runs(m - 1, F)
    BY <2>1
  <2> DEFINE G == [j \in 0..m |-> IF j = m THEN R(F, m) ELSE F[j]]
  <2> HIDE DEF R
  <2>3. \A j \in 0..m - 1 : G[j] = F[j] /\ F[j] = R(F, j)
    <3>1. \A j \in 0..m - 1 : j \in 0..m /\ j # m
      BY <1>3
    <3>2. \A j \in 0..m - 1 : F[j] = R(F, j)
      BY <2>2 DEF R
    <3> QED
      BY <3>1, <3>2
  <2>4. \A j \in 0..m : j # 0 => j - 1 \in 0..m - 1
    BY <1>3
  <2>5. \A j \in 0..m : R(G, j) = R(F, j)
    <3> HIDE DEF G
    <3>1. ASSUME NEW j \in 0..m PROVE R(G, j) = R(F, j)
      <4>1. j # 0 => G[j - 1] = F[j - 1]
        BY <2>3, <2>4
      <4> QED
        BY <4>1, Zenon DEF R, Rise
    <3> QED
      BY <3>1
  <2>6. ASSUME NEW j \in 0..m PROVE G[j] = R(F, j)
    <3>1. j = m \/ j \in 0..m - 1
      BY <1>3, <1>5
    <3>2. G[m] = R(F, m)
      BY <1>3, <1>5
    <3> HIDE DEF G
    <3> QED
      BY <2>3, <3>1, <3>2
  <2>7. Runs(m, G)
    <3>1. G = [j \in 0..m |-> G[j]]
      OBVIOUS
    <3> HIDE DEF G
    <3>2. G = [j \in 0..m |-> R(G, j)]
      BY <2>5, <2>6, <3>1
    <3> QED
      BY <3>2 DEF R
  <2> QED
    BY <1>3, <2>7
<1> QED
  BY <1>3, <1>4, <1>5

\* Each result follows from the one below.
LEMMA RiseStep ==
  ASSUME NEW t, NEW key, NEW loc, NEW failAt, NEW garbage, Depth(t, key) \in Nat
  PROVE  \E F : /\ \A j \in 0..Depth(t, key) : F[j] = Rise(F, t, key, loc, failAt, garbage, j)
                /\ insert_recursive(t, key, loc, failAt, garbage) = F[Depth(t, key)]
<1> DEFINE h == Depth(t, key)
           R(F, j) == Rise(F, t, key, loc, failAt, garbage, j)
           res == CHOOSE F : F = [j \in 0..h |-> R(F, j)]
<1>1. insert_recursive(t, key, loc, failAt, garbage) = res[h]
  BY DEF insert_recursive, Rise
<1>2. PICK g \in Nat : g = h
  OBVIOUS
<1>3. \E F : Results(F, t, key, loc, failAt, garbage, g)
  BY RiseExists, Zenon
<1>4. res = [j \in 0..h |-> R(res, j)]
  BY <1>2, <1>3 DEF Results
<1> HIDE DEF res, R
<1>5. \A j \in 0..h : res[j] = R(res, j)
  BY <1>4
<1> QED
  BY <1>1, <1>5 DEF R

\* An internal node with one more child fits where it did.
LEMMA InternalFits ==
  ASSUME NEW P, NEW n \in TreeNode(P), NEW l \in Nat, NEW lev, Fits(n, l, lev), l # 0,
         NEW key \in Int, NEW right \in Nat,
         right # NULL => right \in DOMAIN lev /\ lev[right] = l - 1
  PROVE  /\ InternalInsert(n, key, right) \in TreeNode(P) /\ Fits(InternalInsert(n, key, right), l, lev)
         /\ ~n.is_leaf /\ ~InternalInsert(n, key, right).is_leaf
<1>1. PICK m, at : m = InternalInsert(n, key, right) /\ at = Position(n.keys, key)
  OBVIOUS
<1>2. /\ ~n.is_leaf /\ Len(n.children) = Len(n.keys) + 1
      /\ \A i \in 1..Len(n.children) : n.children[i] # NULL =>
           n.children[i] \in DOMAIN lev /\ lev[n.children[i]] = l - 1
  BY DEF Fits
<1>3. /\ m \in TreeNode(P) /\ ~m.is_leaf /\ at \in 1..Len(n.keys) + 1
      /\ Len(m.keys) = Len(n.keys) + 1 /\ Len(m.children) = Len(n.keys) + 2
      /\ m.children[at + 1] = right
      /\ \A j \in 1..Len(n.keys) + 1 : /\ j <= at => m.children[j] = n.children[j]
                                       /\ j > at => m.children[j + 1] = n.children[j]
  <2>1. ~n.is_leaf /\ Len(n.children) = Len(n.keys) + 1
    BY <1>2
  <2> QED
    <3>1. InnerInserted(n, at, key, right, m, P)
      BY <1>1, <2>1, InternalInserted
    <3> QED
      BY <3>1 DEF InnerInserted
<1>4. PICK len \in Nat : len = Len(n.keys)
  BY DEF TreeNode
<1>5. ASSUME NEW i \in 1..len + 2
      PROVE  m.children[i] # NULL => m.children[i] \in DOMAIN lev /\ lev[m.children[i]] = l - 1
  <2>1. CASE i = at + 1
    BY <1>3, <2>1
  <2>2. CASE i <= at
    <3>1. i \in 1..len + 1
      BY <1>3, <1>4, <2>2
    <3>2. m.children[i] = n.children[i]
      BY <1>3, <1>4, <2>2, <3>1
    <3> QED
      BY <1>2, <1>4, <3>1, <3>2
  <2>3. CASE i > at + 1
    <3>1. PICK j \in 1..len + 1 : j > at /\ j + 1 = i
      <4>1. i - 1 \in 1..len + 1 /\ i - 1 > at /\ (i - 1) + 1 = i
        BY <1>3, <1>4, <2>3
      <4> QED
        BY <4>1
    <3>2. m.children[i] = n.children[j]
      BY <1>3, <1>4, <3>1
    <3> QED
      BY <1>2, <1>4, <3>1, <3>2
  <2> QED
    BY <1>3, <1>4, <2>1, <2>2, <2>3
<1>6. len + 2 = len + 1 + 1
  OBVIOUS
<1>7. Fits(m, l, lev)
  BY <1>3, <1>4, <1>5, <1>6 DEF Fits
<1> QED
  BY <1>1, <1>2, <1>3, <1>7

(* What the call j levels above the leaf has made of the tree.               *)
Grown(r, lev2, t, lev, key, loc, j, P) ==
  /\ Levelled(r.nodes, lev2, P)
  /\ \A a \in DOMAIN lev : a \in DOMAIN lev2 /\ lev2[a] = lev[a]
  /\ \A a \in DOMAIN lev2 : a \in DOMAIN lev \/ lev2[a] <= j
  /\ r.promoted_key \in Int /\ r.right_child \in Nat
  /\ r.split /\ r.right_child # NULL => r.right_child \in DOMAIN lev2 /\ lev2[r.right_child] = j
  /\ \A k, l : Has(r.nodes, k, l) <=> Has(t.nodes, k, l) \/ (k = key /\ l = loc)

\* The call for the leaf.
LEMMA GrownLeaf ==
  ASSUME NEW P, NEW t, NEW lev, TreeOK(t, lev, P), NEW key \in Int, NEW loc \in P,
         find_leaf(t, key) # NULL, NEW failAt, NEW garbage \in Int,
         NEW F, NEW r, r = Rise(F, t, key, loc, failAt, garbage, 0)
  PROVE  \E lev2 : Grown(r, lev2, t, lev, key, loc, 0, P)
<1>1. PICK nodes, at : nodes = t.nodes /\ at = find_leaf(t, key)
  OBVIOUS
<1>2. at \in DOMAIN lev /\ lev[at] = 0 /\ Levelled(nodes, lev, P)
  <2>1. 0 \in 0..lev[t.root]
    BY DEF TreeOK, Levelled
  <2>2. /\ OnPath(t, lev, key, 0) = find_leaf(t, key)
        /\ \A j \in 0..lev[t.root] : OnPath(t, lev, key, j) \in DOMAIN lev /\ lev[OnPath(t, lev, key, j)] = j
    BY PathIs
  <2>3. at \in DOMAIN lev /\ lev[at] = 0
    BY <1>1, <2>1, <2>2
  <2> QED
    BY <1>1, <2>3 DEF TreeOK
<1>3. PICK n : n = nodes[at]
  OBVIOUS
<1>4. n \in TreeNode(P) /\ Fits(n, 0, lev) /\ DOMAIN lev = 1..Len(nodes)
  BY <1>2, <1>3 DEF Levelled
<1>5. n.is_leaf /\ Len(n.locations) = Len(n.keys)
  BY <1>4 DEF Fits
<1>6. PICK m : m = LeafInsert(n, key, loc)
  OBVIOUS
<1>7. /\ m \in TreeNode(P) /\ m.is_leaf /\ Len(m.keys) = Len(n.keys) + 1 /\ Len(m.locations) = Len(n.keys) + 1
      /\ \A k, l : NodeHas(m, k, l) <=> NodeHas(n, k, l) \/ (k = key /\ l = loc)
  BY <1>4, <1>5, <1>6, LeafInserted
<1>8. Fits(m, lev[at], lev)
  BY <1>2, <1>7 DEF Fits
<1>9. r = Settle(nodes, at, m, 0, failAt, garbage)
  BY <1>1, <1>3, <1>6 DEF Rise
<1>10. PICK lev2 : Added(r, lev2, nodes, lev, at, m, P)
  BY <1>2, <1>7, <1>8, <1>9, SettleAdds
<1>11. ASSUME NEW k, NEW l
       PROVE  Has(r.nodes, k, l) <=> Has(t.nodes, k, l) \/ (k = key /\ l = loc)
  <2>1. Has(r.nodes, k, l) <=> NodeHas(m, k, l) \/ \E a \in DOMAIN lev \ {at} : NodeHas(nodes[a], k, l)
    BY <1>10 DEF Added
  <2>2. Has(nodes, k, l) <=> NodeHas(n, k, l) \/ \E a \in DOMAIN lev \ {at} : NodeHas(nodes[a], k, l)
    BY <1>2, <1>3, <1>4 DEF Has
  <2> QED
    BY <1>1, <1>7, <2>1, <2>2
<1>12. Grown(r, lev2, t, lev, key, loc, 0, P)
  <2>1. \A a \in DOMAIN lev2 : a \in DOMAIN lev \/ lev2[a] <= 0
    BY <1>2, <1>10 DEF Added
  <2> QED
    BY <1>2, <1>10, <1>11, <2>1 DEF Added, Grown
<1> QED
  BY <1>12

\* The call for an internal node, from the one below it.
LEMMA GrownInternal ==
  ASSUME NEW P, NEW t, NEW lev, TreeOK(t, lev, P), NEW key \in Int, NEW loc \in P,
         find_leaf(t, key) # NULL, NEW failAt, NEW garbage \in Int,
         NEW j \in 0..lev[t.root], j # 0, NEW F, NEW lev1, Grown(F[j - 1], lev1, t, lev, key, loc, j - 1, P),
         NEW r, r = Rise(F, t, key, loc, failAt, garbage, j)
  PROVE  \E lev2 : Grown(r, lev2, t, lev, key, loc, j, P)
<1>1. PICK below, at : below = F[j - 1] /\ at = OnPath(t, lev, key, j)
  OBVIOUS
<1>2. /\ Grown(below, lev1, t, lev, key, loc, j - 1, P)
      /\ r = IF ~below.split THEN below
             ELSE Settle(below.nodes, at,
                         InternalInsert(below.nodes[at], below.promoted_key, below.right_child),
                         below.calls, failAt, garbage)
  <2>1. at = Descent(t, key)[Depth(t, key) + 1 - j]
    BY <1>1, PathIs DEF OnPath
  <2> QED
    BY <1>1, <2>1 DEF Rise
<1>3. at \in DOMAIN lev /\ lev[at] = j /\ j \in Nat /\ j - 1 \in Nat
  <2>1. lev[t.root] \in Nat
    BY DEF TreeOK, Levelled
  <2> QED
    BY <1>1, <2>1, PathIs
<1>4. CASE ~below.split
  <2>1. r = below
    BY <1>2, <1>4
  <2>2. \A a \in DOMAIN lev1 : a \in DOMAIN lev \/ lev1[a] <= j
    <3>1. \A a \in DOMAIN lev1 : lev1[a] \in Nat
      BY <1>2 DEF Grown, Levelled
    <3>2. \A a \in DOMAIN lev1 : a \in DOMAIN lev \/ lev1[a] <= j - 1
      BY <1>2 DEF Grown
    <3> QED
      BY <1>3, <3>1, <3>2
  <2>3. Grown(r, lev1, t, lev, key, loc, j, P)
    BY <1>2, <1>4, <2>1, <2>2 DEF Grown
  <2> QED
    BY <2>3
<1>5. CASE below.split
  <2>1. PICK nodes, n, p, right : /\ nodes = below.nodes /\ n = nodes[at]
                                  /\ p = below.promoted_key /\ right = below.right_child
    OBVIOUS
  <2>2. /\ Levelled(nodes, lev1, P) /\ p \in Int /\ right \in Nat
        /\ right # NULL => right \in DOMAIN lev1 /\ lev1[right] = j - 1
        /\ at \in DOMAIN lev1 /\ lev1[at] = j
        /\ \A a \in DOMAIN lev : a \in DOMAIN lev1 /\ lev1[a] = lev[a]
        /\ \A a \in DOMAIN lev1 : a \in DOMAIN lev \/ lev1[a] <= j - 1
        /\ \A k, l : Has(nodes, k, l) <=> Has(t.nodes, k, l) \/ (k = key /\ l = loc)
    BY <1>2, <1>3, <1>5, <2>1 DEF Grown
  <2>3. n \in TreeNode(P) /\ Fits(n, j, lev1) /\ DOMAIN lev1 = 1..Len(nodes)
    BY <2>1, <2>2 DEF Levelled
  <2>4. PICK m : m = InternalInsert(n, p, right)
    OBVIOUS
  <2>5. m \in TreeNode(P) /\ Fits(m, j, lev1) /\ ~n.is_leaf /\ ~m.is_leaf
    BY <1>3, <2>2, <2>3, <2>4, InternalFits
  <2>6. PICK calls : calls = below.calls
    OBVIOUS
  <2>7. r = Settle(nodes, at, m, calls, failAt, garbage)
    BY <1>2, <1>5, <2>1, <2>4, <2>6
  <2>8. PICK lev2 : Added(r, lev2, nodes, lev1, at, m, P)
    BY <2>2, <2>5, <2>7, SettleAdds
  <2>9. ASSUME NEW k, NEW l
        PROVE  Has(r.nodes, k, l) <=> Has(nodes, k, l)
    <3>1. Has(r.nodes, k, l) <=> NodeHas(m, k, l) \/ \E a \in DOMAIN lev1 \ {at} : NodeHas(nodes[a], k, l)
      BY <2>8 DEF Added
    <3>2. ~NodeHas(m, k, l) /\ ~NodeHas(nodes[at], k, l)
      BY <2>1, <2>5 DEF NodeHas
    <3> QED
      BY <2>2, <2>3, <3>1, <3>2 DEF Has
  <2>10. \A a \in DOMAIN lev2 : a \in DOMAIN lev \/ lev2[a] <= j
    <3>1. \A a \in DOMAIN lev1 : lev1[a] \in Nat
      BY <2>2 DEF Levelled
    <3>2. ASSUME NEW a \in DOMAIN lev2 PROVE a \in DOMAIN lev \/ lev2[a] <= j
      <4>1. (a \in DOMAIN lev1 /\ lev2[a] = lev1[a]) \/ lev2[a] = j
        BY <2>2, <2>8 DEF Added
      <4> QED
        BY <1>3, <2>2, <3>1, <4>1
    <3> QED
      BY <3>2
  <2>11. \A a \in DOMAIN lev : a \in DOMAIN lev2 /\ lev2[a] = lev[a]
    BY <2>2, <2>8 DEF Added
  <2>12. /\ Levelled(r.nodes, lev2, P) /\ r.promoted_key \in Int /\ r.right_child \in Nat
         /\ r.right_child # NULL => r.right_child \in DOMAIN lev2 /\ lev2[r.right_child] = j
    BY <2>2, <2>8 DEF Added
  <2>13. Grown(r, lev2, t, lev, key, loc, j, P)
    BY <2>2, <2>9, <2>10, <2>11, <2>12 DEF Grown
  <2> QED
    BY <2>13
<1> QED
  BY <1>4, <1>5

\* All the calls, and so insert_recursive.
LEMMA InsertGrows ==
  ASSUME NEW P, NEW t, NEW lev, TreeOK(t, lev, P), NEW key \in Int, NEW loc \in P,
         find_leaf(t, key) # NULL, NEW failAt, NEW garbage \in Int
  PROVE  \E lev2 : Grown(insert_recursive(t, key, loc, failAt, garbage), lev2, t, lev, key, loc, lev[t.root], P)
<1>1. PICK h \in Nat : h = lev[t.root]
  BY DEF TreeOK, Levelled
<1>2. Depth(t, key) = h
  BY <1>1, PathIs
<1>3. PICK F : /\ \A j \in 0..h : F[j] = Rise(F, t, key, loc, failAt, garbage, j)
               /\ insert_recursive(t, key, loc, failAt, garbage) = F[h]
  BY <1>2, RiseStep
<1> DEFINE Right(j) == \E lev2 : Grown(F[j], lev2, t, lev, key, loc, j, P)
           T == {j \in Nat : j <= h /\ ~Right(j)}
<1>4. SUFFICES ASSUME T # {} PROVE FALSE
  <2>1. T = {} => Right(h)
    BY <1>1
  <2> QED
    BY <1>1, <1>3, <1>4, <2>1
<1>5. PICK m \in T : \A k \in T : m <= k
  <2> HIDE DEF Right
  <2> QED
    BY <1>4, LeastOf
<1>6. m \in Nat /\ m <= h /\ m \in 0..h
  <2> HIDE DEF Right
  <2> QED
    BY <1>1, <1>5
<1>7. ~Right(m) /\ F[m] = Rise(F, t, key, loc, failAt, garbage, m)
  <2> HIDE DEF Right
  <2> QED
    BY <1>3, <1>5, <1>6
<1>8. CASE m = 0
  <2>1. Right(0)
    BY <1>7, <1>8, GrownLeaf
  <2> QED
    BY <1>7, <1>8, <2>1
<1>9. CASE m # 0
  <2>1. m - 1 \in Nat /\ m - 1 <= h /\ ~(m <= m - 1)
    BY <1>6, <1>9
  <2>2. Right(m - 1)
    <3> HIDE DEF Right
    <3> QED
      BY <1>5, <2>1
  <2>3. PICK lev1 : Grown(F[m - 1], lev1, t, lev, key, loc, m - 1, P)
    BY <2>2
  <2>4. m \in 0..lev[t.root]
    BY <1>1, <1>6
  <2>5. Right(m)
    BY <1>7, <1>9, <2>3, <2>4, GrownInternal
  <2> QED
    BY <1>7, <2>5
<1> QED
  BY <1>8, <1>9

\* A tree as it was but for the nodes.
LEMMA SameRoot ==
  ASSUME NEW t, NEW nodes, t = [root |-> t.root, nodes |-> t.nodes]
  PROVE  [t EXCEPT !.nodes = nodes] = [root |-> t.root, nodes |-> nodes]
  OBVIOUS

(* Whatever allocation fails: an insert that comes to a leaf adds one entry,   *)
(* and loses none.                                                          *)
THEOREM InsertAdds ==
  ASSUME NEW P, NEW t, NEW lev, TreeOK(t, lev, P), NEW key \in Int, NEW loc \in P,
         find_leaf(t, key) # NULL, NEW failAt, NEW garbage \in Int,
         NEW u, u = INDEX_insert(t, key, loc, failAt, garbage)
  PROVE  /\ \E lev2 : TreeOK(u, lev2, P)
         /\ \A k, l : Has(u.nodes, k, l) <=> Has(t.nodes, k, l) \/ (k = key /\ l = loc)
<1>1. PICK r : r = insert_recursive(t, key, loc, failAt, garbage)
  OBVIOUS
<1>2. PICK h \in Nat : h = lev[t.root]
  BY DEF TreeOK, Levelled
<1>3. PICK lev1 : Grown(r, lev1, t, lev, key, loc, h, P)
  BY <1>1, <1>2, InsertGrows
<1>4. PICK nodes : nodes = r.nodes
  OBVIOUS
<1>5. /\ Levelled(nodes, lev1, P)
      /\ \A a \in DOMAIN lev : a \in DOMAIN lev1 /\ lev1[a] = lev[a]
      /\ \A a \in DOMAIN lev1 : a \in DOMAIN lev \/ lev1[a] <= h
      /\ \A k, l : Has(nodes, k, l) <=> Has(t.nodes, k, l) \/ (k = key /\ l = loc)
  BY <1>3, <1>4 DEF Grown
<1>6. /\ t = [root |-> t.root, nodes |-> t.nodes] /\ t.root \in DOMAIN lev
      /\ DOMAIN lev = 1..Len(t.nodes) /\ Len(t.nodes) \in Nat /\ h < Len(t.nodes)
      /\ \A a \in DOMAIN lev : lev[a] <= h
  BY <1>2 DEF TreeOK, Levelled
<1>7. DOMAIN lev1 = 1..Len(nodes) /\ Len(nodes) \in Nat
  BY <1>5 DEF Levelled
<1>8. h < Len(nodes)
  <2>1. Len(t.nodes) \in DOMAIN lev
    BY <1>2, <1>6
  <2>2. Len(t.nodes) \in 1..Len(nodes)
    BY <1>5, <1>7, <2>1
  <2> QED
    BY <1>2, <1>6, <1>7, <2>2
<1>9. t.root \in DOMAIN lev1 /\ lev1[t.root] = h /\ \A a \in DOMAIN lev1 : lev1[a] <= h
  BY <1>2, <1>5, <1>6
<1>10. CASE ~r.split \/ failAt = r.calls + 1
  <2>1. u = [t EXCEPT !.nodes = nodes]
    BY <1>1, <1>4, <1>10 DEF INDEX_insert
  <2>2. u = [root |-> t.root, nodes |-> nodes]
    BY <1>6, <2>1, SameRoot
  <2>3. u.root = t.root /\ u.nodes = nodes
    BY <2>2
  <2>4. TreeOK(u, lev1, P)
    BY <1>5, <1>7, <1>8, <1>9, <2>2, <2>3 DEF TreeOK
  <2> QED
    BY <1>5, <2>3, <2>4
<1>11. CASE r.split /\ failAt # r.calls + 1
  <2>1. PICK p, right : p = r.promoted_key /\ right = r.right_child
    OBVIOUS
  <2>2. /\ p \in Int /\ right \in Nat
        /\ right # NULL => right \in DOMAIN lev1 /\ lev1[right] = h
    BY <1>3, <1>11, <2>1 DEF Grown
  <2>3. PICK n : n = Internal(<<p>>, <<t.root, right>>)
    OBVIOUS
  <2>4. n \in TreeNode(P) /\ ~n.is_leaf /\ n.keys = <<p>> /\ n.children = <<t.root, right>>
    <3>1. t.root \in Nat
      BY <1>6
    <3>2. <<p>> \in Seq(Int) /\ <<t.root, right>> \in Seq(Nat) /\ <<>> \in Seq(P)
      BY <2>2, <3>1
    <3> QED
      BY <2>3, <3>2 DEF Internal, TreeNode
  <2>5. Fits(n, h + 1, lev1)
    <3>1. Len(n.children) = 2 /\ Len(n.keys) = 1 /\ n.children[1] = t.root /\ n.children[2] = right
      BY <2>4
    <3>2. \A i \in 1..2 : i = 1 \/ i = 2
      OBVIOUS
    <3>3. h + 1 # 0 /\ h + 1 - 1 = h
      BY <1>2
    <3> QED
      BY <1>9, <2>2, <2>4, <3>1, <3>2, <3>3 DEF Fits
  <2>6. PICK g \in Nat : g = h + 1
    BY <1>2
  <2>7. PICK new, lev2 : new = More(nodes, n) /\ lev2 = Levels(lev1, Len(nodes) + 1, g)
    OBVIOUS
  <2>8. u = [root |-> Len(nodes) + 1, nodes |-> new]
    BY <1>1, <1>4, <1>11, <2>1, <2>3, <2>7 DEF INDEX_insert, More
  <2>9. u.root = Len(nodes) + 1 /\ u.nodes = new
    BY <2>8
  <2>10. /\ Levelled(new, lev2, P) /\ Len(new) = Len(nodes) + 1 /\ new[Len(nodes) + 1] = n
         /\ DOMAIN lev2 = 1..Len(nodes) + 1 /\ lev2[Len(nodes) + 1] = g
         /\ \A a \in DOMAIN lev1 : new[a] = nodes[a] /\ a \in DOMAIN lev2 /\ lev2[a] = lev1[a]
         /\ \A a \in DOMAIN lev2 : a \in DOMAIN lev1 \/ a = Len(nodes) + 1
    <3>1. Fits(n, g, lev1)
      BY <2>5, <2>6
    <3> QED
      BY <1>5, <2>4, <2>7, <3>1, Appended
  <2>11. ASSUME NEW k, NEW l PROVE Has(new, k, l) <=> Has(nodes, k, l)
    <3>1. ~NodeHas(n, k, l)
      BY <2>4 DEF NodeHas
    <3> QED
      BY <1>7, <2>10, <3>1 DEF Has
  <2>12. u.root \in 1..Len(new) /\ lev2[u.root] < Len(new) /\ \A a \in 1..Len(new) : lev2[a] <= lev2[u.root]
    <3>1. \A a \in DOMAIN lev1 : lev1[a] \in Nat
      BY <1>5 DEF Levelled
    <3>2. \A a \in 1..Len(new) : a \in DOMAIN lev1 \/ a = Len(nodes) + 1
      <4>1. Len(new) = Len(nodes) + 1
        BY <2>10
      <4> QED
        BY <1>7, <4>1
    <3>3. \A a \in DOMAIN lev1 : lev2[a] <= g
      BY <1>2, <1>9, <2>6, <2>10, <3>1
    <3>4. u.root \in 1..Len(new) /\ lev2[u.root] = g
      BY <1>7, <2>9, <2>10
    <3>5. g < Len(new)
      BY <1>2, <1>7, <1>8, <2>6, <2>10
    <3>6. g <= g
      BY <2>6
    <3>7. \A a \in 1..Len(new) : lev2[a] <= g
      BY <2>9, <3>2, <3>3, <3>4, <3>6
    <3> QED
      BY <3>4, <3>5, <3>7
  <2>13. TreeOK(u, lev2, P)
    BY <2>8, <2>9, <2>10, <2>12 DEF TreeOK
  <2> QED
    BY <1>5, <2>9, <2>11, <2>13
<1> QED
  BY <1>10, <1>11

-----------------------------------------------------------------------------
(* Where keys ascend, a key has one place between the separators of a node.   *)

Ascending(keys) == \A i, j \in 1..Len(keys) : i < j => keys[i] < keys[j]

Between(keys, key, c) ==
  /\ c \in 1..Len(keys) + 1
  /\ c > 1 => keys[c - 1] <= key
  /\ c <= Len(keys) => key < keys[c]

\* ChildIndex is that place.
LEMMA ChildBetween ==
  ASSUME NEW n, NEW keys \in Seq(Int), keys = n.keys, Ascending(keys), NEW key \in Int, NEW c
  PROVE  ChildIndex(n, key) = c <=> Between(keys, key, c)
<1>1. n.keys \in Seq(Int)
  OBVIOUS
<1>2. ASSUME Between(keys, key, c) PROVE ChildIndex(n, key) = c
  <2>1. /\ c \in 1..Len(n.keys) + 1
        /\ c > 1 => n.keys[c - 1] <= key
        /\ c <= Len(n.keys) => key < n.keys[c]
    BY <1>2 DEF Between
  <2>2. \A i, j \in 1..Len(n.keys) : i < j => n.keys[i] < n.keys[j]
    BY DEF Ascending
  <2> QED
    BY <1>1, <2>1, <2>2, ChildIndexAt
<1>3. Between(keys, key, ChildIndex(n, key))
  <2>1. PICK d : d = ChildIndex(n, key)
    OBVIOUS
  <2>2. /\ d \in 1..Len(n.keys) + 1
        /\ \A i \in 1..d - 1 : n.keys[i] <= key
        /\ d <= Len(n.keys) => key < n.keys[d]
    BY <1>1, <2>1, ChildIndexIs
  <2>3. /\ d \in 1..Len(keys) + 1
        /\ \A i \in 1..d - 1 : keys[i] <= key
        /\ d <= Len(keys) => key < keys[d]
    BY <2>2
  <2>4. d > 1 => d - 1 \in 1..d - 1
    BY <2>3
  <2>5. d > 1 => keys[d - 1] <= key
    BY <2>3, <2>4
  <2>6. Between(keys, key, d)
    BY <2>3, <2>5 DEF Between
  <2> QED
    BY <2>1, <2>6
<1> QED
  BY <1>2, <1>3

\* The places of the lower part of a node.
LEMMA BetweenLower ==
  ASSUME NEW keys \in Seq(Int), Ascending(keys), NEW m \in Nat, m + 1 <= Len(keys),
         NEW low \in Seq(Int), Len(low) = m, \A i \in 1..m : low[i] = keys[i],
         NEW k \in Int, NEW i \in 1..m + 1
  PROVE  Between(keys, k, i) <=> k < keys[m + 1] /\ Between(low, k, i)
<1>1. i <= m + 1 /\ i >= 1 /\ i \in Int
  OBVIOUS
<1>2. keys[m + 1] \in Int
  OBVIOUS
<1>3. CASE i = m + 1
  BY <1>1, <1>2, <1>3 DEF Between
<1>4. CASE i # m + 1
  <2>1. low[i] = keys[i] /\ keys[i] \in Int /\ i \in 1..m
    BY <1>4
  <2>2. keys[i] < keys[m + 1]
    <3>1. i \in 1..Len(keys) /\ m + 1 \in 1..Len(keys) /\ i < m + 1
      BY <1>4
    <3> QED
      BY <3>1 DEF Ascending
  <2>3. i > 1 => low[i - 1] = keys[i - 1]
    BY <1>4
  <2> QED
    BY <1>1, <1>2, <1>4, <2>1, <2>2, <2>3, SMTT(30) DEF Between
<1> QED
  BY <1>3, <1>4

\* The place before one that is not the first.
LEMMA OneBelow == ASSUME NEW n \in Nat, NEW i \in 1..n + 1, i > 1 PROVE i - 1 \in 1..n
  OBVIOUS

\* The places of the upper part of a node, behind the key m + 1.
LEMMA BetweenUpper ==
  ASSUME NEW keys \in Seq(Int), Ascending(keys), NEW m \in Nat, m + 1 <= Len(keys),
         NEW up \in Seq(Int), Len(up) = Len(keys) - m - 1, \A i \in 1..Len(up) : up[i] = keys[m + 1 + i],
         NEW k \in Int, NEW i \in 1..Len(up) + 1
  PROVE  Between(keys, k, m + 1 + i) <=> k >= keys[m + 1] /\ Between(up, k, i)
<1>1. PICK n \in Nat : n = Len(up)
  <2>1. Len(up) \in Nat
    OBVIOUS
  <2> QED
    BY <2>1
<1>2. Len(keys) = n + m + 1 /\ i \in 1..n + 1
  BY <1>1
<1>3. PICK b \in Int : b = keys[m + 1]
  <2>1. m + 1 \in 1..Len(keys)
    OBVIOUS
  <2> QED
    BY <2>1
<1>4. i <= n => up[i] = keys[m + 1 + i] /\ keys[m + 1 + i] \in Int
  BY <1>1, <1>2, SMTT(30)
<1>5. CASE i = 1
  <2>1. m + 1 + i - 1 = m + 1
    BY <1>5
  <2> QED
    <3>1. m + 1 + i > 1 /\ m + 1 + i \in 1..n + m + 1 + 1 /\ (m + 1 + i <= n + m + 1 <=> i <= n)
      BY <1>2, <1>5
    <3>2. Between(up, k, i) <=> (i <= n => k < up[i])
      BY <1>1, <1>5 DEF Between
    <3>3. Between(keys, k, m + 1 + i) <=> b <= k /\ (i <= n => k < keys[m + 1 + i])
      BY <1>2, <1>3, <2>1, <3>1 DEF Between
    <3> QED
      BY <1>3, <1>4, <3>2, <3>3
<1>6. CASE i > 1
  <2>1. up[i - 1] = keys[m + 1 + (i - 1)] /\ keys[m + 1 + (i - 1)] \in Int
    BY <1>1, <1>2, <1>6, SMTT(30)
  <2>2. m + 1 + (i - 1) = m + i /\ m + 1 + i - 1 = m + i
    BY <1>2
  <2>3. b < keys[m + i]
    BY <1>2, <1>3, <1>6 DEF Ascending
  <2>4. i - 1 \in 1..n
    BY <1>2, <1>6, OneBelow, Zenon
  <2>5. PICK d \in Int : d = keys[m + i]
    BY <2>1, <2>2
  <2>6. up[i - 1] = d
    BY <2>1, <2>2, <2>5
  <2>7. m + 1 + i > 1 /\ m + 1 + i \in 1..n + m + 1 + 1 /\ (m + 1 + i <= n + m + 1 <=> i <= n)
    BY <1>2
  <2>8. Between(up, k, i) <=> d <= k /\ (i <= n => k < up[i])
    BY <1>1, <1>2, <1>6, <2>6 DEF Between
  <2>9. Between(keys, k, m + 1 + i) <=> d <= k /\ (i <= n => k < keys[m + 1 + i])
    BY <1>2, <2>2, <2>5, <2>7 DEF Between
  <2>10. (i <= n => k < up[i]) <=> (i <= n => k < keys[m + 1 + i])
    BY <1>4
  <2> QED
    BY <1>3, <2>3, <2>5, <2>8, <2>9, <2>10, SMTT(30)
<1> QED
  BY <1>2, <1>5, <1>6

\* The places of a node with a key more.
LEMMA BetweenInserted ==
  ASSUME NEW keys \in Seq(Int), Ascending(keys), NEW p \in Int, NEW c \in Nat, Between(keys, p, c),
         \A i \in 1..Len(keys) : keys[i] # p,
         NEW new \in Seq(Int), new = InsertAt(keys, c, p)
  PROVE  /\ Ascending(new) /\ Len(new) = Len(keys) + 1
         /\ \A i \in 1..Len(new) : new[i] = p \/ \E j \in 1..Len(keys) : new[i] = keys[j]
         /\ \A k \in Int, i \in 1..Len(new) + 1 :
              Between(new, k, i) <=> \/ i < c /\ Between(keys, k, i)
                                     \/ i = c /\ Between(keys, k, c) /\ k < p
                                     \/ i = c + 1 /\ Between(keys, k, c) /\ k >= p
                                     \/ i > c + 1 /\ Between(keys, k, i - 1)
<1>1. PICK n \in Nat : n = Len(keys)
  OBVIOUS
<1>2. c \in 1..n + 1 /\ (c > 1 => keys[c - 1] < p) /\ (c <= n => p < keys[c])
  <2>1. c \in 1..n + 1 /\ (c > 1 => keys[c - 1] <= p) /\ (c <= n => p < keys[c])
    BY <1>1 DEF Between
  <2>2. c > 1 => keys[c - 1] \in Int /\ keys[c - 1] # p
    BY <1>1, <2>1
  <2> QED
    BY <2>1, <2>2
<1>3. /\ Len(new) = n + 1 /\ new[c] = p
      /\ \A j \in 1..n : /\ j < c => new[j] = keys[j]
                         /\ j >= c => new[j + 1] = keys[j]
  <2>1. c \in 1..Len(keys) + 1
    BY <1>1, <1>2
  <2>2. Len(new) = Len(keys) + 1 /\ new[c] = p
    BY <2>1, InsertedNew
  <2>3. ASSUME NEW j \in 1..Len(keys)
        PROVE  (j < c => new[j] = keys[j]) /\ (j >= c => new[j + 1] = keys[j])
    BY <2>1, InsertedAt
  <2> QED
    BY <1>1, <2>2, <2>3
<1>4. \A i, j \in 1..n : i < j => keys[i] < keys[j]
  BY <1>1 DEF Ascending
<1>5. \A i \in 1..n : keys[i] \in Int
  BY <1>1
<1>6. \A j \in 1..n + 1 : /\ j < c => j \in 1..n /\ new[j] = keys[j]
                          /\ j > c => j - 1 \in 1..n /\ new[j] = keys[j - 1]
  <2>1. ASSUME NEW j \in 1..n + 1, j > c PROVE j - 1 \in 1..n /\ new[j] = keys[j - 1]
    <3>1. j - 1 \in 1..n /\ j - 1 >= c /\ (j - 1) + 1 = j
      BY <1>2, <2>1
    <3> QED
      BY <1>3, <3>1
  <2>2. ASSUME NEW j \in 1..n + 1, j < c PROVE j \in 1..n /\ new[j] = keys[j]
    BY <1>2, <1>3, <2>2
  <2> QED
    BY <2>1, <2>2
<1>7. \A j \in 1..n : /\ j < c => keys[j] < p
                      /\ j >= c => p < keys[j]
  <2>1. ASSUME NEW j \in 1..n, j < c PROVE keys[j] < p
    <3>1. c - 1 \in 1..n /\ c - 1 >= j /\ c > 1
      BY <1>2, <2>1
    <3>2. keys[c - 1] < p /\ keys[c - 1] \in Int /\ keys[j] \in Int
      BY <1>2, <1>5, <3>1
    <3>3. j = c - 1 \/ keys[j] < keys[c - 1]
      BY <1>4, <2>1, <3>1
    <3> QED
      BY <3>2, <3>3
  <2>2. ASSUME NEW j \in 1..n, j >= c PROVE p < keys[j]
    <3>1. c \in 1..n
      BY <1>2, <2>2
    <3>2. p < keys[c] /\ keys[c] \in Int /\ keys[j] \in Int
      BY <1>2, <1>5, <3>1
    <3>3. j = c \/ keys[c] < keys[j]
      BY <1>4, <2>2, <3>1
    <3> QED
      BY <3>2, <3>3
  <2> QED
    BY <2>1, <2>2
<1>8. Ascending(new)
  <2>1. SUFFICES ASSUME NEW i \in 1..n + 1, NEW j \in 1..n + 1, i < j
                 PROVE  new[i] < new[j]
    BY <1>3 DEF Ascending
  <2>2. CASE j < c
    <3>1. i < c /\ i \in 1..n /\ j \in 1..n
      BY <1>2, <1>6, <2>1, <2>2
    <3>2. new[i] = keys[i] /\ new[j] = keys[j]
      BY <1>6, <2>1, <2>2, <3>1
    <3> QED
      BY <1>4, <2>1, <3>1, <3>2
  <2>3. CASE j = c
    BY <1>3, <1>6, <1>7, <2>1, <2>3
  <2>4. CASE j > c /\ i < c
    <3>1. i \in 1..n /\ new[i] = keys[i]
      BY <1>6, <2>1, <2>4
    <3>2. j - 1 \in 1..n /\ j - 1 >= c /\ new[j] = keys[j - 1]
      BY <1>2, <1>6, <2>1, <2>4
    <3>3. keys[i] \in Int /\ keys[j - 1] \in Int
      BY <1>5, <3>1, <3>2
    <3> QED
      BY <1>7, <2>4, <3>1, <3>2, <3>3
  <2>5. CASE j > c /\ i = c
    <3>1. j - 1 \in 1..n /\ j - 1 >= c /\ new[j] = keys[j - 1]
      BY <1>2, <1>6, <2>1, <2>5
    <3> QED
      BY <1>3, <1>7, <2>5, <3>1
  <2>6. CASE j > c /\ i > c
    <3>1. j - 1 \in 1..n /\ i - 1 \in 1..n /\ new[j] = keys[j - 1] /\ new[i] = keys[i - 1] /\ i - 1 < j - 1
      BY <1>6, <2>1, <2>6
    <3> QED
      BY <1>4, <3>1
  <2> QED
    BY <1>2, <2>2, <2>3, <2>4, <2>5, <2>6
<1>9. ASSUME NEW i \in 1..n + 1 PROVE new[i] = p \/ \E j \in 1..n : new[i] = keys[j]
  <2>1. CASE i = c
    BY <1>3, <2>1
  <2>2. CASE i < c
    BY <1>6, <2>2
  <2>3. CASE i > c
    BY <1>6, <2>3
  <2> QED
    BY <1>2, <2>1, <2>2, <2>3
<1>10. ASSUME NEW k \in Int, NEW i \in 1..n + 2
       PROVE  Between(new, k, i) <=> \/ i < c /\ Between(keys, k, i)
                                     \/ i = c /\ Between(keys, k, c) /\ k < p
                                     \/ i = c + 1 /\ Between(keys, k, c) /\ k >= p
                                     \/ i > c + 1 /\ Between(keys, k, i - 1)
  <2>1. CASE i < c
    <3>1. new[i] = keys[i] /\ i <= n /\ (i > 1 => new[i - 1] = keys[i - 1])
      BY <1>2, <1>6, <2>1
    <3> QED
      BY <1>1, <1>2, <1>3, <2>1, <3>1, SMTT(30) DEF Between
  <2>2. CASE i = c
    <3>1. c > 1 => new[c - 1] = keys[c - 1] /\ keys[c - 1] \in Int
      BY <1>2, <1>5, <1>6
    <3>2. c <= n => keys[c] \in Int /\ p < keys[c]
      BY <1>2, <1>5
    <3> QED
      BY <1>1, <1>2, <1>3, <2>2, <3>1, <3>2, SMTT(30) DEF Between
  <2>3. CASE i = c + 1
    <3>1. c <= n => new[c + 1] = keys[c] /\ keys[c] \in Int
      BY <1>2, <1>3, <1>5
    <3>2. c > 1 => keys[c - 1] \in Int /\ keys[c - 1] < p
      BY <1>2, <1>5
    <3>3. c + 1 - 1 = c
      BY <1>2
    <3> QED
      BY <1>1, <1>2, <1>3, <2>3, <3>1, <3>2, <3>3 DEF Between
  <2>4. CASE i > c + 1
    <3>1. i - 1 \in 1..n + 1 /\ i - 1 > c
      BY <1>2, <2>4
    <3>2. new[i - 1] = keys[(i - 1) - 1]
      BY <1>6, <3>1
    <3>3. i <= n + 1 => new[i] = keys[i - 1]
      BY <1>2, <1>6, <2>4
    <3> QED
      BY <1>1, <1>2, <1>3, <2>4, <3>1, <3>2, <3>3, SMTT(30) DEF Between
  <2> QED
    BY <1>2, <2>1, <2>2, <2>3, <2>4
<1> QED
  BY <1>1, <1>3, <1>8, <1>9, <1>10

-----------------------------------------------------------------------------
(* Which key belongs to which node: W[l][k] is the node of level l on the way  *)
(* from the root to the leaf of k.                                          *)
Owners == [Nat -> [Int -> Nat]]

\* The keys of a node belong to it.
Owns(n, a, l, W) == \A i \in 1..Len(n.keys) : W[l][n.keys[i]] = a

\* Those that belong to its child i are those it has at place i.
Routes(n, a, l, W) ==
  \A i \in 1..Len(n.keys) + 1, k \in Int :
    W[l - 1][k] = n.children[i] <=> W[l][k] = a /\ ChildIndex(n, k) = i

Sound(n, a, l, W) == Ascending(n.keys) /\ Owns(n, a, l, W) /\ (l # 0 => Routes(n, a, l, W))
Keyed(n, a, l, W) == Len(n.keys) < INDEX_ORDER /\ Sound(n, a, l, W)

\* The keys of the node at of level l from p on go to the node right.
Moved(W, W2, l, at, p, right) ==
  \A k \in Int : W2[l][k] = IF W[l][k] = at /\ k >= p THEN right ELSE W[l][k]

Kept(W, W2, l) == \A k \in Int : W2[l][k] = W[l][k]

\* The other levels are as they were.
Parted(W, W2, l, at, p, right) ==
  /\ Moved(W, W2, l, at, p, right)
  /\ \A m \in Nat : m # l => W2[m] = W[m]

\* That leaves alone a node that is neither of the two, nor their parent.
LEMMA StillKeyed ==
  ASSUME NEW P, NEW n \in TreeNode(P), NEW a, NEW m \in Nat, NEW l \in Nat, NEW W, NEW W2,
         NEW at, NEW p, NEW right, Parted(W, W2, l, at, p, right), Keyed(n, a, m, W),
         m = l => a # at /\ a # right,
         m = l + 1 => \A i \in 1..Len(n.keys) + 1 : n.children[i] # at /\ n.children[i] # right
  PROVE  Keyed(n, a, m, W2)
<1>1. PICK ks \in Seq(Int) : ks = n.keys
  BY DEF TreeNode
<1>2. PICK cs \in Seq(Nat) : cs = n.children
  BY DEF TreeNode
<1>3. /\ \A k \in Int : W2[l][k] = IF W[l][k] = at /\ k >= p THEN right ELSE W[l][k]
      /\ \A j \in Nat : j # l => W2[j] = W[j]
  BY DEF Parted, Moved
<1>4. \A i \in 1..Len(ks) : ks[i] \in Int /\ W[m][ks[i]] = a
  BY <1>1 DEF Keyed, Sound, Owns
<1>5. ASSUME NEW k \in Int PROVE W2[m][k] = a <=> W[m][k] = a
  BY <1>3
<1>6. Owns(n, a, m, W2)
  BY <1>1, <1>4, <1>5 DEF Owns
<1>7. ASSUME m # 0 PROVE Routes(n, a, m, W2)
  <2>1. PICK b \in Nat : b = m - 1
    BY <1>7
  <2>2. m = l + 1 <=> b = l
    BY <2>1
  <2>3. ASSUME NEW i \in 1..Len(ks) + 1, NEW k \in Int
        PROVE  W[b][k] = cs[i] <=> W[m][k] = a /\ ChildIndex(n, k) = i
    BY <1>1, <1>2, <1>7, <2>1 DEF Keyed, Sound, Routes
  <2>4. ASSUME NEW i \in 1..Len(ks) + 1, NEW k \in Int
        PROVE  W2[b][k] = cs[i] <=> W[b][k] = cs[i]
    <3>1. CASE b # l
      BY <1>3, <3>1
    <3>2. CASE b = l
      <4>1. cs[i] # at /\ cs[i] # right
        BY <1>1, <1>2, <2>2, <3>2
      <4> QED
        BY <1>3, <3>2, <4>1
    <3> QED
      BY <3>1, <3>2
  <2>5. ASSUME NEW i \in 1..Len(ks) + 1, NEW k \in Int
        PROVE  W2[m - 1][k] = n.children[i] <=> W2[m][k] = a /\ ChildIndex(n, k) = i
    <3>1. W2[b][k] = cs[i] <=> W2[m][k] = a /\ ChildIndex(n, k) = i
      BY <1>5, <2>3, <2>4
    <3> QED
      BY <1>2, <2>1, <3>1
  <2> QED
    BY <1>1, <2>5 DEF Routes
<1> QED
  BY <1>6, <1>7 DEF Keyed, Sound

\* The two halves of a node that is cut share its keys.
LEMMA HalvesKeyed ==
  ASSUME NEW P, NEW n \in TreeNode(P), NEW l \in Nat, NEW lev, Fits(n, l, lev),
         Len(n.keys) = INDEX_ORDER, NEW at, NEW W, NEW W2, NEW right,
         NEW p, p = Promoted(n), Sound(n, at, l, W),
         Parted(W, W2, l, at, p, right), right # at, \A k \in Int : W[l][k] # right
  PROVE  /\ Keyed(Lower(n), at, l, W2) /\ Keyed(Upper(n), right, l, W2)
         /\ p \in Int /\ W[l][p] = at
         /\ \E q \in Int : q < p /\ W[l][q] = at
<1>1. PICK ks \in Seq(Int) : ks = n.keys
  BY DEF TreeNode
<1>2. PICK cs \in Seq(Nat) : cs = n.children
  BY DEF TreeNode
<1>3. PICK m \in Nat, o \in Nat : m = mid /\ o = INDEX_ORDER
  BY MidIs
<1>4. m >= 1 /\ m + 2 <= o /\ Len(ks) = o
  BY <1>1, <1>3, MidIs
<1>5. /\ \A k \in Int : W2[l][k] = IF W[l][k] = at /\ k >= p THEN right ELSE W[l][k]
      /\ \A j \in Nat : j # l => W2[j] = W[j]
  BY DEF Parted, Moved
<1>6. p = ks[m + 1] /\ p \in Int /\ m + 1 \in 1..o
  BY <1>1, <1>3, <1>4 DEF Promoted
<1>7. Ascending(ks) /\ \A i \in 1..o : ks[i] \in Int /\ W[l][ks[i]] = at
  BY <1>1, <1>4 DEF Sound, Owns
<1>8. W[l][p] = at /\ \E q \in Int : q < p /\ W[l][q] = at
  <2>1. ks[1] \in Int /\ ks[1] < ks[m + 1] /\ W[l][ks[1]] = at
    <3>1. 1 \in 1..o /\ m + 1 \in 1..o /\ 1 < m + 1
      BY <1>4
    <3> QED
      BY <1>4, <1>7, <3>1 DEF Ascending
  <2> QED
    BY <1>6, <1>7, <2>1
<1>9. \A k \in Int : /\ W2[l][k] = at <=> W[l][k] = at /\ k < p
                     /\ W2[l][k] = right <=> W[l][k] = at /\ k >= p
  BY <1>5, <1>6
<1>10. PICK a : a = Lower(n)
  OBVIOUS
<1>11. PICK b : b = Upper(n)
  OBVIOUS
<1>12. PICK la \in Seq(Int), lb \in Seq(Int) :
        /\ la = a.keys /\ Len(la) = m /\ \A i \in 1..m : la[i] = ks[i]
        /\ lb = b.keys
        /\ \/ n.is_leaf /\ Len(lb) = o - m /\ \A i \in 1..o - m : lb[i] = ks[m + i]
           \/ /\ ~n.is_leaf /\ Len(lb) = o - m - 1 /\ \A i \in 1..o - m - 1 : lb[i] = ks[m + 1 + i]
              /\ \A i \in 1..m + 1 : a.children[i] = cs[i]
              /\ \A i \in 1..o - m : b.children[i] = cs[m + 1 + i]
  <2>1. CASE n.is_leaf
    <3>1. Len(n.locations) = Len(n.keys)
      BY <2>1 DEF Fits
    <3>2. a = LowerLeaf(n) /\ b = UpperLeaf(n)
      BY <1>10, <1>11, <2>1 DEF Lower, Upper
    <3>3. /\ a \in TreeNode(P) /\ Len(a.keys) = mid /\ b \in TreeNode(P) /\ Len(b.keys) = INDEX_ORDER - mid
          /\ \A i \in 1..mid : a.keys[i] = n.keys[i]
          /\ \A i \in 1..INDEX_ORDER - mid : b.keys[i] = n.keys[mid + i]
      BY <2>1, <3>1, <3>2, LeafHalves
    <3>4. a.keys \in Seq(Int) /\ b.keys \in Seq(Int)
      BY <3>3 DEF TreeNode
    <3>5. PICK la \in Seq(Int) : la = a.keys
      BY <3>4
    <3>6. PICK lb \in Seq(Int) : lb = b.keys
      BY <3>4
    <3>7. /\ Len(la) = m /\ Len(lb) = o - m
          /\ \A i \in 1..m : la[i] = ks[i]
          /\ \A i \in 1..o - m : lb[i] = ks[m + i]
      BY <1>1, <1>3, <3>3, <3>5, <3>6
    <3> QED
      BY <2>1, <3>5, <3>6, <3>7
  <2>2. CASE ~n.is_leaf
    <3>1. Len(n.children) = Len(n.keys) + 1
      BY <2>2 DEF Fits
    <3>2. a = LowerInternal(n) /\ b = UpperInternal(n)
      BY <1>10, <1>11, <2>2 DEF Lower, Upper
    <3>3. InnerHalves(n, a, b, P)
      BY <2>2, <3>1, <3>2, InternalHalves
    <3>4. a.keys \in Seq(Int) /\ b.keys \in Seq(Int)
      BY <3>3 DEF InnerHalves, TreeNode
    <3>5. PICK la \in Seq(Int) : la = a.keys
      BY <3>4
    <3>6. PICK lb \in Seq(Int) : lb = b.keys
      BY <3>4
    <3>7. /\ Len(la) = m /\ Len(lb) = o - m - 1
          /\ \A i \in 1..m : la[i] = ks[i]
          /\ \A i \in 1..o - m - 1 : lb[i] = ks[m + 1 + i]
      BY <1>1, <1>3, <3>3, <3>5, <3>6 DEF InnerHalves
    <3>8. /\ \A i \in 1..m + 1 : a.children[i] = cs[i]
          /\ \A i \in 1..o - m : b.children[i] = cs[m + 1 + i]
      BY <1>2, <1>3, <3>3 DEF InnerHalves
    <3> QED
      BY <2>2, <3>5, <3>6, <3>7, <3>8
  <2> QED
    BY <2>1, <2>2
<1>13. Len(la) < INDEX_ORDER /\ Ascending(la) /\ Owns(a, at, l, W2)
  <2>1. ASSUME NEW i \in 1..m, NEW j \in 1..m, i < j PROVE la[i] < la[j]
    <3>1. i \in 1..o /\ j \in 1..o
      BY <1>4
    <3> QED
      BY <1>4, <1>7, <1>12, <2>1, <3>1 DEF Ascending
  <2>2. ASSUME NEW i \in 1..m PROVE W2[l][la[i]] = at
    <3>1. i \in 1..o /\ m + 1 \in 1..o /\ i < m + 1
      BY <1>4
    <3>2. ks[i] \in Int /\ ks[i] < p /\ W[l][ks[i]] = at
      BY <1>4, <1>6, <1>7, <3>1 DEF Ascending
    <3> QED
      BY <1>9, <1>12, <3>2
  <2> QED
    BY <1>3, <1>4, <1>12, <2>1, <2>2 DEF Ascending, Owns
<1>14. Len(lb) < INDEX_ORDER /\ Ascending(lb) /\ Owns(b, right, l, W2)
  <2>1. PICK d \in Nat : /\ d = m \/ d = m + 1
                         /\ Len(lb) = o - d /\ \A i \in 1..o - d : lb[i] = ks[d + i]
    <3>1. CASE n.is_leaf
      BY <1>12, <3>1
    <3>2. CASE ~n.is_leaf
      <4>1. m + 1 \in Nat /\ o - m - 1 = o - (m + 1)
        OBVIOUS
      <4>2. Len(lb) = o - (m + 1) /\ \A i \in 1..o - (m + 1) : lb[i] = ks[m + 1 + i]
        BY <1>12, <3>2, <4>1
      <4> QED
        BY <4>1, <4>2
    <3> QED
      BY <3>1, <3>2
  <2>2. d < o /\ d >= 1
    BY <1>4, <2>1
  <2>3. ASSUME NEW i \in 1..o - d, NEW j \in 1..o - d, i < j PROVE lb[i] < lb[j]
    <3>1. d + i \in 1..o /\ d + j \in 1..o /\ d + i < d + j
      BY <2>2, <2>3
    <3> QED
      BY <1>4, <1>7, <2>1, <3>1 DEF Ascending
  <2>4. ASSUME NEW i \in 1..o - d PROVE W2[l][lb[i]] = right
    <3>1. d + i \in 1..o /\ m + 1 \in 1..o /\ m + 1 <= d + i
      <4>1. i \in Int /\ 1 <= i /\ i <= o - d
        OBVIOUS
      <4>2. d = m \/ d = m + 1
        BY <2>1
      <4> QED
        BY <1>4, <4>1, <4>2
    <3>2. m + 1 = d + i \/ m + 1 < d + i
      BY <3>1
    <3>3. ks[d + i] \in Int /\ W[l][ks[d + i]] = at
      BY <1>7, <3>1
    <3>4. ks[d + i] >= p
      BY <1>4, <1>6, <1>7, <3>1, <3>2, <3>3 DEF Ascending
    <3> QED
      BY <1>9, <2>1, <3>3, <3>4
  <2> QED
    BY <1>3, <1>12, <2>1, <2>2, <2>3, <2>4 DEF Ascending, Owns
<1>15. ASSUME l # 0 PROVE Routes(a, at, l, W2) /\ Routes(b, right, l, W2)
  <2>1. ~n.is_leaf
    BY <1>15 DEF Fits
  <2>2. /\ Len(lb) = o - m - 1 /\ \A i \in 1..o - m - 1 : lb[i] = ks[m + 1 + i]
        /\ \A i \in 1..m + 1 : a.children[i] = cs[i]
        /\ \A i \in 1..o - m : b.children[i] = cs[m + 1 + i]
    BY <1>12, <2>1
  <2>3. PICK g \in Nat : g = l - 1 /\ W2[g] = W[g]
    <3>1. l - 1 \in Nat /\ l - 1 # l
      BY <1>15
    <3> QED
      BY <1>5, <3>1
  <2>4. ASSUME NEW i \in 1..o + 1, NEW k \in Int
        PROVE  W[g][k] = cs[i] <=> W[l][k] = at /\ Between(ks, k, i)
    <3>1. W[g][k] = cs[i] <=> W[l][k] = at /\ ChildIndex(n, k) = i
      BY <1>1, <1>2, <1>4, <1>15, <2>3 DEF Sound, Routes
    <3>2. ChildIndex(n, k) = i <=> Between(ks, k, i)
      BY <1>1, <1>7, ChildBetween
    <3> QED
      BY <3>1, <3>2
  <2>5. ASSUME NEW i \in 1..m + 1, NEW k \in Int
        PROVE  W2[l - 1][k] = a.children[i] <=> W2[l][k] = at /\ ChildIndex(a, k) = i
    <3>1. i \in 1..o + 1
      BY <1>4
    <3>2. W2[g][k] = a.children[i] <=> W[l][k] = at /\ Between(ks, k, i)
      BY <2>2, <2>3, <2>4, <3>1
    <3>3. Between(ks, k, i) <=> k < ks[m + 1] /\ Between(la, k, i)
      <4>1. m + 1 <= Len(ks)
        BY <1>4
      <4> QED
        BY <1>7, <1>12, <4>1, BetweenLower, ZenonT(60)
    <3>4. ChildIndex(a, k) = i <=> Between(la, k, i)
      <4>1. Ascending(la)
        BY <1>13
      <4>2. la = a.keys
        BY <1>12
      <4> QED
        BY <4>1, <4>2, ChildBetween
    <3> QED
      BY <1>6, <1>9, <2>3, <3>2, <3>3, <3>4
  <2>6. ASSUME NEW i \in 1..o - m, NEW k \in Int
        PROVE  W2[l - 1][k] = b.children[i] <=> W2[l][k] = right /\ ChildIndex(b, k) = i
    <3>1. m + 1 + i \in 1..o + 1
      <4>1. i \in Int /\ 1 <= i /\ i <= o - m
        OBVIOUS
      <4> QED
        BY <4>1
    <3>2. W2[g][k] = b.children[i] <=> W[l][k] = at /\ Between(ks, k, m + 1 + i)
      BY <2>2, <2>3, <2>4, <3>1
    <3>3. Between(ks, k, m + 1 + i) <=> k >= ks[m + 1] /\ Between(lb, k, i)
      <4>1. m + 1 <= Len(ks) /\ Len(lb) = Len(ks) - m - 1
        BY <1>4, <2>2
      <4>2. i \in 1..Len(lb) + 1
        BY <1>4, <4>1
      <4>3. \A j \in 1..Len(lb) : lb[j] = ks[m + 1 + j]
        BY <2>2
      <4> QED
        BY <1>7, <4>2, <4>1, <4>3, BetweenUpper
    <3>4. ChildIndex(b, k) = i <=> Between(lb, k, i)
      <4>1. Ascending(lb)
        BY <1>14
      <4>2. lb = b.keys
        BY <1>12
      <4> QED
        BY <4>1, <4>2, ChildBetween
    <3> QED
      BY <1>6, <1>9, <2>3, <3>2, <3>3, <3>4
  <2>7. Len(la) + 1 = m + 1 /\ Len(lb) + 1 = o - m
    BY <1>4, <1>12, <2>2
  <2> QED
    BY <1>12, <2>5, <2>6, <2>7 DEF Routes
<1> QED
  BY <1>6, <1>8, <1>10, <1>11, <1>12, <1>13, <1>14, <1>15 DEF Keyed, Sound

\* Where keys ascend, Position is the place between the separators.
LEMMA PositionBetween ==
  ASSUME NEW keys \in Seq(Int), NEW key \in Int
  PROVE  Between(keys, key, Position(keys, key))
<1>1. PICK c \in 1..Len(keys) + 1 : c = Position(keys, key)
  BY PositionIs
<1>2. (c > 1 => keys[c - 1] <= key) /\ \A i \in c..Len(keys) : key < keys[i]
  BY <1>1, PositionIs
<1>3. c <= Len(keys) => c \in c..Len(keys)
  OBVIOUS
<1>4. Between(keys, key, c)
  BY <1>2, <1>3 DEF Between
<1> QED
  BY <1>1, <1>4

\* A leaf gets the entry of a key that belongs to it, and that it did not have.
LEMMA LeafSound ==
  ASSUME NEW P, NEW n \in TreeNode(P), n.is_leaf, Len(n.locations) = Len(n.keys),
         NEW key \in Int, NEW loc \in P, NEW at, NEW W, Keyed(n, at, 0, W), W[0][key] = at,
         \A i \in 1..Len(n.keys) : n.keys[i] # key, NEW m, m = LeafInsert(n, key, loc)
  PROVE  Sound(m, at, 0, W) /\ Len(m.keys) <= INDEX_ORDER
<1>1. PICK ks \in Seq(Int) : ks = n.keys
  BY DEF TreeNode
<1>2. PICK c \in Nat : c = Position(ks, key)
  BY PositionIs
<1>3. m \in TreeNode(P) /\ m.keys = InsertAt(n.keys, Position(n.keys, key), key)
  BY LeafInserted
<1>4. PICK new \in Seq(Int) : new = m.keys
  BY <1>3 DEF TreeNode
<1>5. new = InsertAt(ks, c, key)
  BY <1>1, <1>2, <1>3, <1>4
<1>6. Ascending(ks) /\ Len(ks) < INDEX_ORDER /\ \A i \in 1..Len(ks) : W[0][ks[i]] = at
  BY <1>1 DEF Keyed, Sound, Owns
<1>7. Between(ks, key, c) /\ \A i \in 1..Len(ks) : ks[i] # key
  BY <1>1, <1>2, PositionBetween
<1>8. /\ Ascending(new) /\ Len(new) = Len(ks) + 1
      /\ \A i \in 1..Len(new) : new[i] = key \/ \E j \in 1..Len(ks) : new[i] = ks[j]
  BY <1>5, <1>6, <1>7, BetweenInserted
<1>9. \A i \in 1..Len(new) : W[0][new[i]] = at
  BY <1>6, <1>8
<1>10. INDEX_ORDER \in Nat /\ Len(ks) \in Nat
  BY MidIs
<1> QED
  BY <1>4, <1>6, <1>8, <1>9, <1>10 DEF Sound, Owns

IsChild(n, x)       == \E i \in 1..Len(n.keys) + 1 : n.children[i] = x
Unused(W, l, right) == \A k \in Int : W[l][k] # right

\* A parent gets the separator and the right half of a child that was cut.
LEMMA InternalSound ==
  ASSUME NEW P, NEW n \in TreeNode(P), NEW lev, NEW j \in Nat, j # 0, Fits(n, j, lev),
         NEW at, NEW W, Keyed(n, at, j, W), NEW x, IsChild(n, x),
         NEW p \in Int, NEW q \in Int, q < p, W[j - 1][p] = x, W[j - 1][q] = x,
         NEW W1, NEW right \in Nat, Moved(W, W1, j - 1, x, p, right),
         Kept(W, W1, j), right # x, ~IsChild(n, right), Unused(W, j - 1, right),
         NEW m, m = InternalInsert(n, p, right)
  PROVE  Sound(m, at, j, W1) /\ Len(m.keys) <= INDEX_ORDER
<1>1. PICK ks \in Seq(Int) : ks = n.keys
  BY DEF TreeNode
<1>2. PICK cs \in Seq(Nat) : cs = n.children
  BY DEF TreeNode
<1>3. PICK g \in Nat : g = j - 1
  OBVIOUS
<1>4. PICK o \in Nat : o = Len(ks)
  OBVIOUS
<1>5. Ascending(ks) /\ o < INDEX_ORDER /\ \A i \in 1..o : W[j][ks[i]] = at
  BY <1>1, <1>4 DEF Keyed, Sound, Owns
<1>6. ASSUME NEW i \in 1..o + 1, NEW k \in Int
      PROVE  W[g][k] = cs[i] <=> W[j][k] = at /\ Between(ks, k, i)
  <2>1. W[g][k] = cs[i] <=> W[j][k] = at /\ ChildIndex(n, k) = i
    BY <1>1, <1>2, <1>3, <1>4 DEF Keyed, Sound, Routes
  <2>2. ChildIndex(n, k) = i <=> Between(ks, k, i)
    BY <1>1, <1>5, ChildBetween
  <2> QED
    BY <2>1, <2>2
<1>7. ~n.is_leaf /\ Len(n.children) = Len(n.keys) + 1 /\ Len(cs) = o + 1
  BY <1>1, <1>2, <1>4 DEF Fits
<1>8. PICK d \in Nat : d \in 1..o + 1 /\ cs[d] = x
  BY <1>1, <1>2, <1>4 DEF IsChild
<1>9. W[g][p] = x /\ W[g][q] = x /\ cs[d] = x
  BY <1>3, <1>8
<1>10. W[j][p] = at /\ Between(ks, p, d) /\ Between(ks, q, d)
  <2>1. W[g][p] = cs[d] /\ W[g][q] = cs[d]
    BY <1>9
  <2> QED
    BY <1>6, <1>8, <2>1
<1>11. ASSUME NEW k \in Int PROVE W[g][k] = x <=> W[j][k] = at /\ Between(ks, k, d)
  <2>1. W[g][k] = cs[d] <=> W[j][k] = at /\ Between(ks, k, d)
    BY <1>6, <1>8
  <2> QED
    BY <1>9, <2>1
<1>12. ASSUME NEW i \in 1..o, ks[i] = p PROVE FALSE
  <2>1. \A a, b \in 1..o : a < b => ks[a] < ks[b]
    BY <1>4, <1>5 DEF Ascending
  <2>2. \A a \in 1..o : ks[a] \in Int
    BY <1>4
  <2>3. (d > 1 => ks[d - 1] <= q) /\ (d <= o => p < ks[d])
    BY <1>4, <1>10 DEF Between
  <2>4. CASE i < d
    <3>1. d - 1 \in 1..o /\ (i = d - 1 \/ i < d - 1)
      BY <1>8, <2>4, SMTT(30)
    <3>2. ks[i] <= ks[d - 1]
      <4>1. ks[i] \in Int /\ ks[d - 1] \in Int
        BY <2>2, <3>1
      <4>2. i < d - 1 => ks[i] < ks[d - 1]
        BY <2>1, <3>1
      <4> QED
        BY <3>1, <4>1, <4>2
    <3>3. ks[d - 1] <= q /\ ks[i] \in Int /\ ks[d - 1] \in Int
      BY <2>2, <2>3, <2>4, <3>1
    <3> QED
      BY <1>12, <3>2, <3>3
  <2>5. CASE i >= d
    <3>1. d \in 1..o /\ (i = d \/ d < i)
      BY <1>8, <2>5
    <3> QED
      BY <1>12, <2>1, <2>2, <2>3, <3>1
  <2> QED
    BY <1>8, <2>4, <2>5
<1>13. Position(n.keys, p) = d
  <2>1. PICK e : e = Position(ks, p)
    OBVIOUS
  <2>2. Between(ks, p, e)
    BY <2>1, PositionBetween
  <2>3. ChildIndex(n, p) = e
    BY <1>1, <1>5, <2>2, ChildBetween
  <2>4. ChildIndex(n, p) = d
    BY <1>1, <1>5, <1>10, ChildBetween
  <2> QED
    BY <1>1, <2>1, <2>3, <2>4
<1>14. /\ m \in TreeNode(P) /\ m.keys = InsertAt(n.keys, d, p) /\ Len(m.children) = Len(n.keys) + 2
       /\ m.children[d + 1] = right
       /\ \A i \in 1..Len(n.keys) + 1 : /\ i <= d => m.children[i] = n.children[i]
                                        /\ i > d => m.children[i + 1] = n.children[i]
  <2>1. PICK e : e = Position(n.keys, p)
    OBVIOUS
  <2>2. ~n.is_leaf /\ Len(n.children) = Len(n.keys) + 1
    BY <1>7
  <2>3. InnerInserted(n, e, p, right, m, P)
    BY <2>1, <2>2, InternalInserted
  <2>4. e = d
    BY <1>13, <2>1
  <2> QED
    BY <2>3, <2>4 DEF InnerInserted
<1>15. PICK new \in Seq(Int) : new = m.keys
  BY <1>14 DEF TreeNode
<1>16. PICK kids \in Seq(Nat) : kids = m.children
  BY <1>14 DEF TreeNode
<1>17. new = InsertAt(ks, d, p)
  BY <1>1, <1>14, <1>15
<1>18. kids[d + 1] = right /\ \A i \in 1..o + 1 : /\ i <= d => kids[i] = cs[i]
                                                  /\ i > d => kids[i + 1] = cs[i]
  BY <1>1, <1>2, <1>4, <1>14, <1>16
<1>19. \A i \in 1..Len(ks) : ks[i] # p
  BY <1>4, <1>12
<1>20. /\ Ascending(new) /\ Len(new) = o + 1
       /\ \A i \in 1..o + 1 : new[i] = p \/ \E b \in 1..o : new[i] = ks[b]
       /\ \A k \in Int, i \in 1..o + 2 :
            Between(new, k, i) <=> \/ i < d /\ Between(ks, k, i)
                                   \/ i = d /\ Between(ks, k, d) /\ k < p
                                   \/ i = d + 1 /\ Between(ks, k, d) /\ k >= p
                                   \/ i > d + 1 /\ Between(ks, k, i - 1)
  <2>1. /\ Ascending(new) /\ Len(new) = Len(ks) + 1
        /\ \A i \in 1..Len(new) : new[i] = p \/ \E b \in 1..Len(ks) : new[i] = ks[b]
        /\ \A k \in Int, i \in 1..Len(new) + 1 :
             Between(new, k, i) <=> \/ i < d /\ Between(ks, k, i)
                                    \/ i = d /\ Between(ks, k, d) /\ k < p
                                    \/ i = d + 1 /\ Between(ks, k, d) /\ k >= p
                                    \/ i > d + 1 /\ Between(ks, k, i - 1)
    BY <1>5, <1>10, <1>17, <1>19, BetweenInserted, ZenonT(60)
  <2>2. Len(new) = o + 1 /\ Len(new) + 1 = o + 2
    BY <1>4, <2>1
  <2> QED
    BY <1>4, <2>1, <2>2
<1>21. \A k \in Int : /\ W1[g][k] = IF W[g][k] = x /\ k >= p THEN right ELSE W[g][k]
                      /\ W1[j][k] = W[j][k]
  BY <1>3 DEF Moved, Kept
<1>22. Owns(m, at, j, W1)
  <2>1. ASSUME NEW i \in 1..o + 1 PROVE W1[j][new[i]] = at
    <3>1. new[i] \in Int /\ (new[i] = p \/ \E b \in 1..o : new[i] = ks[b])
      BY <1>20
    <3>2. W[j][new[i]] = at
      BY <1>5, <1>10, <3>1
    <3> QED
      BY <1>21, <3>1, <3>2
  <2> QED
    BY <1>15, <1>20, <2>1 DEF Owns
<1>23. ASSUME NEW i \in 1..o + 2, NEW k \in Int
       PROVE  W1[g][k] = kids[i] <=> W1[j][k] = at /\ Between(new, k, i)
  <2>1. i \in Int /\ 1 <= i /\ i <= o + 2
    OBVIOUS
  <2>2. \A b \in 1..o + 1 : cs[b] # right
    BY <1>1, <1>2, <1>4 DEF IsChild
  <2>3. \A b \in 1..o + 1 : b # d => cs[b] # x
    <3>1. ASSUME NEW b \in 1..o + 1, cs[b] = x PROVE b = d
      <4>1. Between(ks, p, b)
        BY <1>6, <1>9, <3>1
      <4>2. ChildIndex(n, p) = b /\ ChildIndex(n, p) = d
        BY <1>1, <1>5, <1>10, <4>1, ChildBetween
      <4> QED
        BY <4>2
    <3> QED
      BY <3>1
  <2>4. CASE i < d
    <3>1. i \in 1..o + 1 /\ kids[i] = cs[i] /\ i # d
      <4>1. i \in 1..o + 1 /\ i <= d /\ i # d
        BY <1>8, <2>1, <2>4
      <4> QED
        BY <1>18, <4>1
    <3>2. W1[g][k] = cs[i] <=> W[g][k] = cs[i]
      BY <1>21, <2>2, <2>3, <3>1
    <3>3. Between(new, k, i) <=> Between(ks, k, i)
      <4>1. i < d /\ i # d /\ i # d + 1 /\ ~(i > d + 1)
        BY <2>1, <2>4
      <4> QED
        BY <1>20, <4>1
    <3> QED
      BY <1>6, <1>21, <3>1, <3>2, <3>3
  <2>5. CASE i = d
    <3>1. kids[i] = x
      <4>1. kids[d] = cs[d]
        BY <1>18, <1>8, SMTT(30)
      <4> QED
        BY <1>9, <2>5, <4>1
    <3>2. W1[g][k] = x <=> W[g][k] = x /\ k < p
      BY <1>21, SMTT(30)
    <3>3. Between(new, k, i) <=> Between(ks, k, d) /\ k < p
      BY <1>8, <1>20, <2>5, SMTT(30)
    <3>4. W[g][k] = x <=> W[j][k] = at /\ Between(ks, k, d)
      BY <1>11
    <3> QED
      BY <1>21, <3>1, <3>2, <3>3, <3>4
  <2>6. CASE i = d + 1
    <3>1. kids[i] = right
      BY <1>18, <2>6
    <3>2. W[g][k] # right
      BY <1>3 DEF Unused
    <3>3. W1[g][k] = right <=> W[g][k] = x /\ k >= p
      BY <1>21, <3>2
    <3>4. Between(new, k, i) <=> Between(ks, k, d) /\ k >= p
      BY <1>8, <1>20, <2>6, SMTT(30)
    <3>5. W[g][k] = x <=> W[j][k] = at /\ Between(ks, k, d)
      BY <1>11
    <3> QED
      BY <1>21, <3>1, <3>3, <3>4, <3>5
  <2>7. CASE i > d + 1
    <3>1. PICK b \in 1..o + 1 : b = i - 1
      BY <1>8, <2>7
    <3>2. b > d /\ i = b + 1
      BY <1>8, <2>7, <3>1
    <3>3. kids[i] = cs[b] /\ b # d
      <4>1. kids[b + 1] = cs[b] /\ b # d
        BY <1>18, <3>2, SMTT(30)
      <4> QED
        BY <3>2, <4>1
    <3>4. W1[g][k] = cs[b] <=> W[g][k] = cs[b]
      BY <1>21, <2>2, <2>3, <3>3
    <3>5. Between(new, k, i) <=> Between(ks, k, b)
      <4>1. Between(new, k, i) <=> Between(ks, k, i - 1)
        <5>1. ~(i < d) /\ i # d /\ i # d + 1 /\ i > d + 1
          BY <1>8, <2>1, <2>7
        <5>2. Between(new, k, i) <=> \/ i < d /\ Between(ks, k, i)
                                     \/ i = d /\ Between(ks, k, d) /\ k < p
                                     \/ i = d + 1 /\ Between(ks, k, d) /\ k >= p
                                     \/ i > d + 1 /\ Between(ks, k, i - 1)
          BY <1>20
        <5> QED
          BY <5>1, <5>2, Zenon
      <4> QED
        BY <3>1, <4>1
    <3> QED
      BY <1>6, <1>21, <3>3, <3>4, <3>5
  <2> QED
    <3>1. i < d \/ i = d \/ i = d + 1 \/ i > d + 1
      BY <2>1
    <3> QED
      BY <2>4, <2>5, <2>6, <2>7, <3>1, Zenon
<1>24. Routes(m, at, j, W1)
  <2>1. ASSUME NEW i \in 1..o + 2, NEW k \in Int
        PROVE  W1[j - 1][k] = m.children[i] <=> W1[j][k] = at /\ ChildIndex(m, k) = i
    <3>1. ChildIndex(m, k) = i <=> Between(new, k, i)
      <4>1. Ascending(new)
        BY <1>20
      <4> QED
        BY <1>15, <4>1, ChildBetween
    <3> QED
      BY <1>3, <1>16, <1>23, <3>1
  <2>2. Len(m.keys) + 1 = o + 2
    BY <1>15, <1>20
  <2> QED
    BY <2>1, <2>2 DEF Routes
<1>25. Len(new) <= INDEX_ORDER
  BY <1>5, <1>20, MidIs
<1> QED
  BY <1>15, <1>20, <1>22, <1>24, <1>25 DEF Sound

-----------------------------------------------------------------------------
(* A level of the tree after another.                                       *)

\* The nodes that keys belong to.
Places(W, lev, h) ==
  W \in Owners /\ \A l \in 0..h, k \in Int : W[l][k] \in DOMAIN lev /\ lev[W[l][k]] = l

\* The node at of level j has been settled, and cut where r.split: then its
\* parent up does not yet know the right half.
Risen(r, lev2, W2, nodes, lev, W, h, j, at, up, P) ==
  /\ Levelled(r.nodes, lev2, P) /\ Places(W2, lev2, h) /\ r.calls \in Nat
  /\ \A a \in DOMAIN lev : /\ a \in DOMAIN lev2 /\ lev2[a] = lev[a]
                           /\ lev[a] > j => r.nodes[a] = nodes[a]
  /\ \A a \in DOMAIN lev2 : lev2[a] <= h
  /\ \A a \in DOMAIN lev2 : (r.split /\ a = up) \/ Keyed(r.nodes[a], a, lev2[a], W2)
  /\ \A m \in Nat : m > j => W2[m] = W[m]
  /\ ~r.split => Kept(W, W2, j)
  /\ r.split => /\ r.right_child \in DOMAIN lev2 /\ r.right_child \notin DOMAIN lev
                /\ lev2[r.right_child] = j
                /\ r.promoted_key \in Int /\ W[j][r.promoted_key] = at
                /\ \E q \in Int : q < r.promoted_key /\ W[j][q] = at
                /\ Moved(W, W2, j, at, r.promoted_key, r.right_child)

Rises(r, nodes, lev, W, h, j, at, up, P) ==
  \E lev2, W2 : Risen(r, lev2, W2, nodes, lev, W, h, j, at, up, P)

\* Keys can be given to another node.
LEMMA MoveExists ==
  ASSUME NEW W \in Owners, NEW l \in Nat, NEW at, NEW p \in Int, NEW right \in Nat
  PROVE  \E W2 \in Owners : Parted(W, W2, l, at, p, right)
<1> DEFINE row == [k \in Int |-> IF W[l][k] = at /\ k >= p THEN right ELSE W[l][k]]
           W2  == [m \in Nat |-> IF m = l THEN row ELSE W[m]]
<1>1. \A m \in Nat : W[m] \in [Int -> Nat]
  BY DEF Owners
<1>2. row \in [Int -> Nat]
  BY <1>1
<1>3. W2 \in Owners
  <2> HIDE DEF row
  <2> QED
    BY <1>1, <1>2 DEF Owners
<1>4. \A m \in Nat : m # l => W2[m] = W[m]
  <2> HIDE DEF row
  <2> QED
    OBVIOUS
<1>5. W2[l] = row
  <2> HIDE DEF row
  <2> QED
    OBVIOUS
<1>6. ASSUME NEW k \in Int PROVE row[k] = IF W[l][k] = at /\ k >= p THEN right ELSE W[l][k]
  OBVIOUS
<1>7. Parted(W, W2, l, at, p, right)
  <2> HIDE DEF row, W2
  <2> QED
    BY <1>4, <1>5, <1>6 DEF Parted, Moved
<1> QED
  BY <1>3, <1>7

\* A node with room: no key goes elsewhere.
LEMMA RisenWhole ==
  ASSUME NEW P, NEW nodes, NEW lev, Levelled(nodes, lev, P), NEW at \in DOMAIN lev,
         NEW n \in TreeNode(P), Fits(n, lev[at], lev), NEW j \in Nat, j = lev[at],
         NEW h \in Nat, NEW W, Places(W, lev, h), Keyed(n, at, j, W),
         \A a \in DOMAIN lev : a # at => Keyed(nodes[a], a, lev[a], W),
         \A a \in DOMAIN lev : lev[a] <= h,
         NEW r, r.nodes = With(nodes, at, n), ~r.split, r.calls \in Nat, NEW up
  PROVE  Risen(r, lev, W, nodes, lev, W, h, j, at, up, P)
<1>1. PICK new : new = With(nodes, at, n)
  OBVIOUS
<1>2. /\ Levelled(new, lev, P) /\ new[at] = n
      /\ \A a \in DOMAIN lev \ {at} : new[a] = nodes[a]
  BY <1>1, Replaced
<1>3. ASSUME NEW a \in DOMAIN lev PROVE Keyed(new[a], a, lev[a], W)
  BY <1>2
<1>4. ASSUME NEW a \in DOMAIN lev, lev[a] > j PROVE new[a] = nodes[a]
  BY <1>2, <1>4
<1> QED
  BY <1>1, <1>2, <1>3, <1>4 DEF Risen, Kept

\* A full node: the keys of its upper half go to the new node.
LEMMA RisenCut ==
  ASSUME NEW P, NEW nodes, NEW lev, Levelled(nodes, lev, P), NEW at \in DOMAIN lev,
         NEW n \in TreeNode(P), Fits(n, lev[at], lev), Len(n.keys) = INDEX_ORDER,
         NEW j \in Nat, j = lev[at], NEW h \in Nat, j <= h, NEW W, Places(W, lev, h), Sound(n, at, j, W),
         NEW up, NEW key \in Int, W[j][key] = at, j < h => up = W[j + 1][key],
         \A a \in DOMAIN lev : a # at => Keyed(nodes[a], a, lev[a], W),
         \A a \in DOMAIN lev : lev[a] <= h,
         NEW r, r.nodes = Halves(nodes, at, n), r.split, r.calls \in Nat,
         r.promoted_key = Promoted(n), r.right_child = Len(nodes) + 1
  PROVE  Rises(r, nodes, lev, W, h, j, at, up, P)
<1>1. PICK new, lev2 : new = Halves(nodes, at, n) /\ lev2 = Levels(lev, Len(nodes) + 1, lev[at])
  OBVIOUS
<1>2. PICK right : right = Len(nodes) + 1
  OBVIOUS
<1>3. /\ Levelled(new, lev2, P) /\ Len(new) = right
      /\ new[at] = Lower(n) /\ new[right] = Upper(n)
      /\ DOMAIN lev2 = 1..right /\ lev2[right] = j
      /\ \A a \in DOMAIN lev : a \in DOMAIN lev2 /\ lev2[a] = lev[a] /\ (a # at => new[a] = nodes[a])
      /\ \A a \in DOMAIN lev2 : a \in DOMAIN lev \/ a = right
  BY <1>1, <1>2, Halved
<1>4. /\ DOMAIN lev = 1..Len(nodes) /\ right \in Nat /\ right \in DOMAIN lev2
      /\ right \notin DOMAIN lev /\ right # NULL
  BY <1>2, <1>3 DEF Levelled, NULL
<1>5. PICK p : p = Promoted(n)
  OBVIOUS
<1>6. p \in Int
  BY <1>5, HalvesFit
<1>7. PICK W2 \in Owners : Parted(W, W2, j, at, p, right)
  BY <1>4, <1>6, MoveExists DEF Places
<1>8. \A l \in 0..h, k \in Int : W[l][k] \in DOMAIN lev /\ lev[W[l][k]] = l
  BY DEF Places
<1>9. j \in 0..h /\ right # at /\ \A k \in Int : W[j][k] # right
  BY <1>4, <1>8
<1>10. /\ Keyed(Lower(n), at, j, W2) /\ Keyed(Upper(n), right, j, W2)
       /\ W[j][p] = at /\ \E q \in Int : q < p /\ W[j][q] = at
  BY <1>5, <1>7, <1>9, HalvesKeyed
<1>11. /\ \A k \in Int : W2[j][k] = IF W[j][k] = at /\ k >= p THEN right ELSE W[j][k]
       /\ \A m \in Nat : m # j => W2[m] = W[m]
  BY <1>7 DEF Parted, Moved
<1>12. Places(W2, lev2, h)
  <2>1. ASSUME NEW l \in 0..h, NEW k \in Int PROVE W2[l][k] \in DOMAIN lev2 /\ lev2[W2[l][k]] = l
    <3>1. W[l][k] \in DOMAIN lev /\ lev[W[l][k]] = l
      BY <1>8
    <3>2. CASE l = j
      BY <1>3, <1>4, <1>11, <3>1, <3>2
    <3>3. CASE l # j
      BY <1>3, <1>11, <3>1, <3>3
    <3> QED
      BY <3>2, <3>3
  <2> QED
    BY <1>7, <2>1 DEF Places
<1>13. ASSUME NEW a \in DOMAIN lev, a # at, a # up PROVE Keyed(nodes[a], a, lev[a], W2)
  <2>1. nodes[a] \in TreeNode(P) /\ lev[a] \in Nat /\ Fits(nodes[a], lev[a], lev)
    BY <1>4 DEF Levelled
  <2>2. PICK x : x = nodes[a]
    OBVIOUS
  <2>3. PICK m \in Nat : m = lev[a]
    BY <2>1
  <2>4. x \in TreeNode(P) /\ Keyed(x, a, m, W) /\ Fits(x, m, lev) /\ m <= h
    BY <1>13, <2>1, <2>2, <2>3
  <2>5. a # right
    BY <1>4
  <2>6. ASSUME m = j + 1 PROVE \A i \in 1..Len(x.keys) + 1 : x.children[i] # at /\ x.children[i] # right
    <3>1. PICK ks \in Seq(Int) : ks = x.keys
      BY <2>4 DEF TreeNode
    <3>2. PICK cs \in Seq(Nat) : cs = x.children
      BY <2>4 DEF TreeNode
    <3>3. m # 0 /\ m - 1 = j /\ j < h /\ up = W[m][key]
      BY <2>4, <2>6
    <3>4. ~x.is_leaf
      BY <2>4, <3>3 DEF Fits
    <3>5. /\ Len(cs) = Len(ks) + 1
          /\ \A i \in 1..Len(cs) : cs[i] # NULL => cs[i] \in DOMAIN lev
      BY <2>4, <3>1, <3>2, <3>4 DEF Fits
    <3>6. ASSUME NEW i \in 1..Len(ks) + 1 PROVE W[j][key] = cs[i] => W[m][key] = a
      BY <2>4, <3>1, <3>2, <3>3, SMTT(30) DEF Keyed, Sound, Routes
    <3>7. ASSUME NEW i \in 1..Len(ks) + 1 PROVE cs[i] # at /\ cs[i] # right
      BY <1>4, <1>13, <3>3, <3>5, <3>6
    <3> QED
      BY <3>1, <3>2, <3>7
  <2>7. Keyed(x, a, m, W2)
    BY <1>7, <1>13, <2>4, <2>5, <2>6, StillKeyed
  <2> QED
    BY <2>2, <2>3, <2>7
<1>14. ASSUME NEW a \in DOMAIN lev2, a # up PROVE Keyed(new[a], a, lev2[a], W2)
  <2>1. CASE a = right
    BY <1>3, <1>10, <2>1
  <2>2. CASE a = at
    BY <1>3, <1>10, <2>2
  <2>3. CASE a # right /\ a # at
    BY <1>3, <1>13, <1>14, <2>3
  <2> QED
    BY <2>1, <2>2, <2>3
<1>15. \A m \in Nat : m > j => W2[m] = W[m]
  BY <1>11
<1>16. Moved(W, W2, j, at, p, right)
  BY <1>7 DEF Parted
<1>17. ASSUME NEW a \in DOMAIN lev, lev[a] > j PROVE new[a] = nodes[a]
  BY <1>3, <1>17
<1>18. \A a \in DOMAIN lev2 : lev2[a] <= h
  BY <1>3
<1>19. Risen(r, lev2, W2, nodes, lev, W, h, j, at, up, P)
  BY <1>1, <1>2, <1>3, <1>4, <1>5, <1>6, <1>10, <1>12, <1>14, <1>15, <1>16, <1>17, <1>18 DEF Risen
<1> QED
  BY <1>19 DEF Rises

\* Whatever is settled while memory lasts.
LEMMA SettleRises ==
  ASSUME NEW P, NEW nodes, NEW lev, Levelled(nodes, lev, P), NEW at \in DOMAIN lev,
         NEW n \in TreeNode(P), Fits(n, lev[at], lev), Len(n.keys) <= INDEX_ORDER,
         NEW j \in Nat, j = lev[at], NEW h \in Nat, j <= h, NEW W, Places(W, lev, h), Sound(n, at, j, W),
         NEW up, NEW key \in Int, W[j][key] = at, j < h => up = W[j + 1][key],
         \A a \in DOMAIN lev : a # at => Keyed(nodes[a], a, lev[a], W),
         \A a \in DOMAIN lev : lev[a] <= h,
         NEW calls \in Nat, NEW garbage, NEW r, r = Settle(nodes, at, n, calls, 0, garbage)
  PROVE  Rises(r, nodes, lev, W, h, j, at, up, P)
<1>1. PICK o \in Nat : o = INDEX_ORDER
  BY MidIs
<1>2. CASE Len(n.keys) # INDEX_ORDER
  <2>1. r.nodes = With(nodes, at, n) /\ ~r.split /\ r.calls \in Nat
    BY <1>2 DEF Settle, Whole, With
  <2>2. Keyed(n, at, j, W)
    <3>1. PICK ks \in Seq(Int) : ks = n.keys
      BY DEF TreeNode
    <3>2. Len(ks) < o
      BY <1>1, <1>2, <3>1
    <3> QED
      BY <1>1, <3>1, <3>2 DEF Keyed
  <2>3. Risen(r, lev, W, nodes, lev, W, h, j, at, up, P)
    BY <2>1, <2>2, RisenWhole
  <2> QED
    BY <2>3 DEF Rises
<1>3. CASE Len(n.keys) = INDEX_ORDER
  <2>1. /\ r.nodes = Halves(nodes, at, n) /\ r.split /\ r.calls \in Nat
        /\ r.promoted_key = Promoted(n) /\ r.right_child = Len(nodes) + 1
    BY <1>3 DEF Settle, Halves, More, With
  <2> QED
    BY <1>3, <2>1, RisenCut
<1> QED
  BY <1>2, <1>3

-----------------------------------------------------------------------------
(* A tree that can be searched: every key belongs to one node of each level,  *)
(* and every node has just the keys that do.                                *)
Searchable(t, lev, W, P) ==
  /\ TreeOK(t, lev, P) /\ Places(W, lev, lev[t.root])
  /\ \A k \in Int : W[lev[t.root]][k] = t.root
  /\ \A a \in DOMAIN lev : Keyed(t.nodes[a], a, lev[a], W)

\* One step of the descent stays with the nodes of its key.
LEMMA OwnerDown ==
  ASSUME NEW P, NEW t, NEW lev, NEW W, Searchable(t, lev, W, P), NEW key \in Int,
         NEW l \in Nat, l < lev[t.root]
  PROVE  Down(t, key)[W[l + 1][key]] = W[l][key]
<1>1. PICK h \in Nat : h = lev[t.root]
  BY DEF Searchable, TreeOK, Levelled
<1>2. PICK nodes : nodes = t.nodes
  OBVIOUS
<1>3. PICK a : a = W[l + 1][key]
  OBVIOUS
<1>4. PICK m \in Nat : m = l + 1
  OBVIOUS
<1>5. a \in DOMAIN lev /\ lev[a] = m /\ W[m][key] = a /\ m # 0 /\ m - 1 = l
  <2>1. m \in 0..h
    BY <1>1, <1>4
  <2> QED
    BY <1>1, <1>3, <1>4, <2>1 DEF Searchable, Places
<1>6. /\ DOMAIN lev = 1..Len(nodes) /\ Len(nodes) \in Nat
      /\ nodes[a] \in TreeNode(P) /\ Fits(nodes[a], m, lev) /\ Keyed(nodes[a], a, m, W)
  BY <1>2, <1>5 DEF Searchable, TreeOK, Levelled
<1>7. PICK n : n = nodes[a]
  OBVIOUS
<1>8. PICK ks \in Seq(Int) : ks = n.keys
  BY <1>6, <1>7 DEF TreeNode
<1>9. ChildIndex(n, key) \in 1..Len(ks) + 1
  BY <1>8, ChildIndexIs
<1>10. W[l][key] = n.children[ChildIndex(n, key)]
  BY <1>5, <1>6, <1>7, <1>8, <1>9 DEF Keyed, Sound, Routes
<1>11. ~n.is_leaf
  BY <1>5, <1>6, <1>7 DEF Fits
<1>12. a \in 0..Len(nodes) /\ a # NULL
  BY <1>5, <1>6 DEF NULL
<1> QED
  BY <1>2, <1>3, <1>7, <1>10, <1>11, <1>12 DEF Down

\* So the descent comes to the nodes of its key.
LEMMA OwnerPath ==
  ASSUME NEW P, NEW t, NEW lev, NEW W, Searchable(t, lev, W, P), NEW key \in Int
  PROVE  /\ find_leaf(t, key) # NULL /\ find_leaf(t, key) = W[0][key]
         /\ \A j \in 0..lev[t.root] : OnPath(t, lev, key, j) = W[j][key]
<1>1. PICK h \in Nat : h = lev[t.root]
  BY DEF Searchable, TreeOK, Levelled
<1>2. PICK len \in Nat : len = Len(t.nodes) /\ h < len
  BY <1>1 DEF Searchable, TreeOK, Levelled
<1>3. TreeOK(t, lev, P)
  BY DEF Searchable
<1> DEFINE T == {d \in Nat : d \in 1..h + 1 /\ Descent(t, key)[d] # W[h + 1 - d][key]}
<1>4. T = {}
  <2>1. SUFFICES ASSUME T # {} PROVE FALSE
    OBVIOUS
  <2>2. PICK d \in T : \A e \in T : d <= e
    BY <2>1, LeastOf
  <2>3. d \in Nat /\ d \in 1..h + 1 /\ d \in 1..len /\ Descent(t, key)[d] # W[h + 1 - d][key]
    BY <1>2, <2>2
  <2>4. CASE d = 1
    <3>1. Descent(t, key)[d] = t.root
      <4>1. d \in 1..Len(t.nodes) /\ Len(t.nodes) \in Nat
        BY <1>2, <2>3
      <4> QED
        BY <2>4, <4>1, DescentStep
    <3>2. h + 1 - d = h /\ W[h][key] = t.root
      BY <1>1, <2>4 DEF Searchable
    <3> QED
      BY <2>3, <3>1, <3>2
  <2>5. CASE d # 1
    <3>1. PICK e \in Nat : e = d - 1 /\ e \in 1..h + 1 /\ ~(d <= e)
      BY <2>3, <2>5
    <3>2. Descent(t, key)[e] = W[h + 1 - e][key]
      BY <2>2, <3>1
    <3>3. PICK l \in Nat : l = h + 1 - d /\ h + 1 - e = l + 1 /\ l < h
      BY <2>3, <2>5, <3>1
    <3>4. Down(t, key)[W[l + 1][key]] = W[l][key]
      <4>1. l < lev[t.root]
        BY <1>1, <3>3
      <4> QED
        BY <4>1, OwnerDown
    <3>5. Descent(t, key)[d] = Down(t, key)[Descent(t, key)[d - 1]]
      <4>1. d \in 1..Len(t.nodes) /\ Len(t.nodes) \in Nat
        BY <1>2, <2>3
      <4> QED
        BY <2>5, <4>1, DescentStep
    <3> QED
      BY <2>3, <3>1, <3>2, <3>3, <3>4, <3>5
  <2> QED
    BY <2>4, <2>5
<1>5. ASSUME NEW j \in 0..h PROVE OnPath(t, lev, key, j) = W[j][key]
  <2>1. PICK d \in Nat : d = h + 1 - j /\ d \in 1..h + 1 /\ h + 1 - d = j
    BY <1>1
  <2>2. Descent(t, key)[d] = W[h + 1 - d][key]
    BY <1>4, <2>1
  <2> QED
    BY <1>1, <2>1, <2>2 DEF OnPath
<1>6. find_leaf(t, key) = W[0][key] /\ W[0][key] # NULL
  <2>1. 0 \in 0..h /\ h + 1 \in 1..len /\ len \in h + 1..len
    BY <1>2
  <2>2. OnPath(t, lev, key, 0) = W[0][key]
    BY <1>5, <2>1
  <2>3. Descent(t, key)[h + 1] = W[0][key]
    BY <1>1, <2>2 DEF OnPath
  <2>4. Descent(t, key)[len] = Descent(t, key)[h + 1]
    <3>1. h + 1 \in 1..Len(t.nodes) /\ h + 1 > lev[t.root]
      BY <1>1, <1>2, <2>1
    <3>2. \A e \in h + 1..Len(t.nodes) : Descent(t, key)[e] = Descent(t, key)[h + 1]
      BY <1>3, <3>1, PathStays
    <3> QED
      BY <1>2, <2>1, <3>2
  <2>5. W[0][key] \in DOMAIN lev
    BY <1>1, <2>1 DEF Searchable, Places
  <2>6. W[0][key] # NULL
    BY <2>5 DEF Searchable, TreeOK, Levelled, NULL
  <2> QED
    BY <1>2, <2>3, <2>4, <2>6 DEF find_leaf
<1> QED
  BY <1>1, <1>5, <1>6

-----------------------------------------------------------------------------
(* An insert with enough memory, level after level.                         *)

Above(W, key, h, j) == IF j < h THEN W[j + 1][key] ELSE NULL

\* The call for the leaf.
LEMMA RisesLeaf ==
  ASSUME NEW P, NEW t, NEW lev, NEW W, Searchable(t, lev, W, P), NEW key \in Int, NEW loc \in P,
         \A l : ~Has(t.nodes, key, l), NEW garbage, NEW h \in Nat, h = lev[t.root],
         NEW F, NEW r, r = Rise(F, t, key, loc, 0, garbage, 0)
  PROVE  Rises(r, t.nodes, lev, W, h, 0, W[0][key], Above(W, key, h, 0), P)
<1>1. PICK nodes, at, up : nodes = t.nodes /\ at = W[0][key] /\ up = Above(W, key, h, 0)
  OBVIOUS
<1>2. find_leaf(t, key) = at
  BY <1>1, OwnerPath
<1>3. /\ Levelled(nodes, lev, P) /\ Places(W, lev, h) /\ \A a \in DOMAIN lev : lev[a] <= h
      /\ \A a \in DOMAIN lev : Keyed(nodes[a], a, lev[a], W)
  BY <1>1 DEF Searchable, TreeOK, Levelled
<1>4. at \in DOMAIN lev /\ lev[at] = 0
  BY <1>1, <1>3 DEF Places
<1>5. PICK n : n = nodes[at]
  OBVIOUS
<1>6. n \in TreeNode(P) /\ Fits(n, 0, lev) /\ DOMAIN lev = 1..Len(nodes) /\ Keyed(n, at, 0, W)
  BY <1>3, <1>4, <1>5 DEF Levelled
<1>7. n.is_leaf /\ Len(n.locations) = Len(n.keys)
  BY <1>6 DEF Fits
<1>8. ASSUME NEW i \in 1..Len(n.keys), n.keys[i] = key PROVE FALSE
  <2>1. NodeHas(n, key, n.locations[i])
    BY <1>7, <1>8 DEF NodeHas
  <2>2. Has(nodes, key, n.locations[i])
    BY <1>4, <1>5, <1>6, <2>1 DEF Has
  <2> QED
    BY <1>1, <2>2
<1>9. PICK m : m = LeafInsert(n, key, loc)
  OBVIOUS
<1>10. Sound(m, at, 0, W) /\ Len(m.keys) <= INDEX_ORDER
  <2>1. W[0][key] = at /\ \A i \in 1..Len(n.keys) : n.keys[i] # key
    BY <1>1, <1>8
  <2> QED
    BY <1>6, <1>7, <1>9, <2>1, LeafSound
<1>11. m \in TreeNode(P) /\ m.is_leaf /\ Len(m.keys) = Len(n.keys) + 1 /\ Len(m.locations) = Len(n.keys) + 1
  BY <1>6, <1>7, <1>9, LeafInserted
<1>12. Fits(m, lev[at], lev)
  BY <1>4, <1>11 DEF Fits
<1>13. r = Settle(nodes, at, m, 0, 0, garbage)
  BY <1>1, <1>2, <1>5, <1>9 DEF Rise
<1>14. W[0][key] = at /\ (0 < h => up = W[0 + 1][key])
  BY <1>1 DEF Above
<1>15. Rises(r, nodes, lev, W, h, 0, at, up, P)
  BY <1>3, <1>4, <1>10, <1>11, <1>12, <1>13, <1>14, SettleRises
<1> QED
  BY <1>1, <1>15

\* The call for an internal node, from the one below it.
LEMMA RisesInternal ==
  ASSUME NEW P, NEW t, NEW lev, NEW W, Searchable(t, lev, W, P), NEW key \in Int, NEW loc,
         NEW garbage, NEW h \in Nat, h = lev[t.root], NEW j \in Nat, j # 0, j <= h,
         NEW F, Rises(F[j - 1], t.nodes, lev, W, h, j - 1, W[j - 1][key], Above(W, key, h, j - 1), P),
         NEW r, r = Rise(F, t, key, loc, 0, garbage, j)
  PROVE  Rises(r, t.nodes, lev, W, h, j, W[j][key], Above(W, key, h, j), P)
<1>1. PICK below, at, up, x : /\ below = F[j - 1] /\ at = W[j][key]
                              /\ up = Above(W, key, h, j) /\ x = W[j - 1][key]
  OBVIOUS
<1>2. PICK g \in Nat : g = j - 1
  OBVIOUS
<1>3. g < h /\ g # j /\ j > g
  BY <1>2
<1>4. Above(W, key, h, g) = at
  BY <1>1, <1>2, <1>3 DEF Above
<1>5. PICK lev1, W1 : Risen(below, lev1, W1, t.nodes, lev, W, h, g, x, at, P)
  BY <1>1, <1>2, <1>4 DEF Rises
<1>6. r = IF ~below.split THEN below
          ELSE Settle(below.nodes, at,
                      InternalInsert(below.nodes[at], below.promoted_key, below.right_child),
                      below.calls, 0, garbage)
  <2>1. TreeOK(t, lev, P) /\ find_leaf(t, key) # NULL /\ j \in 0..lev[t.root]
    BY OwnerPath DEF Searchable
  <2>2. Depth(t, key) = lev[t.root]
    BY <2>1, PathIs
  <2>3. OnPath(t, lev, key, j) = at
    BY <1>1, <2>1, OwnerPath
  <2>4. Descent(t, key)[Depth(t, key) + 1 - j] = at
    BY <2>2, <2>3 DEF OnPath
  <2> QED
    BY <1>1, <2>4 DEF Rise
<1>7. /\ Levelled(below.nodes, lev1, P) /\ Places(W1, lev1, h) /\ below.calls \in Nat
      /\ \A a \in DOMAIN lev : a \in DOMAIN lev1 /\ lev1[a] = lev[a]
      /\ \A a \in DOMAIN lev : lev[a] > g => below.nodes[a] = t.nodes[a]
      /\ \A a \in DOMAIN lev1 : lev1[a] <= h
      /\ \A a \in DOMAIN lev1 : (below.split /\ a = at) \/ Keyed(below.nodes[a], a, lev1[a], W1)
      /\ \A m \in Nat : m > g => W1[m] = W[m]
  BY <1>5 DEF Risen
<1>8. at \in DOMAIN lev /\ lev[at] = j
  <2>1. j \in 0..h
    OBVIOUS
  <2> QED
    BY <1>1, <2>1 DEF Searchable, Places
<1>9. \A m \in Nat : m > j => m > g /\ W1[m] = W[m]
  BY <1>3, <1>7
<1>10. W1[j] = W[j]
  BY <1>3, <1>7
<1>11. ASSUME NEW a \in DOMAIN lev, lev[a] > j PROVE below.nodes[a] = t.nodes[a]
  <2>1. lev[a] \in Nat
    BY DEF Searchable, TreeOK, Levelled
  <2>2. lev[a] > g
    BY <1>3, <1>11, <2>1
  <2> QED
    BY <1>7, <2>2
<1>12. CASE ~below.split
  <2>1. r = below
    BY <1>6, <1>12
  <2>2. \A a \in DOMAIN lev1 : Keyed(below.nodes[a], a, lev1[a], W1)
    BY <1>7, <1>12
  <2>3. Kept(W, W1, j)
    BY <1>10 DEF Kept
  <2>4. Risen(below, lev1, W1, t.nodes, lev, W, h, j, at, up, P)
    BY <1>7, <1>9, <1>11, <1>12, <2>2, <2>3 DEF Risen
  <2> QED
    BY <1>1, <2>1, <2>4 DEF Rises
<1>13. CASE below.split
  <2>1. PICK nodes, n, p, right, calls : /\ nodes = below.nodes /\ n = nodes[at]
                                         /\ p = below.promoted_key /\ right = below.right_child
                                         /\ calls = below.calls
    OBVIOUS
  <2>2. /\ right \in DOMAIN lev1 /\ right \notin DOMAIN lev /\ lev1[right] = g
        /\ p \in Int /\ W[g][p] = x /\ Moved(W, W1, g, x, p, right)
        /\ \E q \in Int : q < p /\ W[g][q] = x
    BY <1>5, <1>13, <2>1 DEF Risen
  <2>3. PICK q \in Int : q < p /\ W[g][q] = x
    BY <2>2
  <2>4. n = t.nodes[at] /\ at \in DOMAIN lev1 /\ lev1[at] = j
    BY <1>3, <1>7, <1>8, <2>1
  <2>5. Keyed(n, at, j, W) /\ n \in TreeNode(P) /\ Fits(n, j, lev) /\ DOMAIN lev = 1..Len(t.nodes)
    BY <1>8, <2>4 DEF Searchable, TreeOK, Levelled
  <2>6. DOMAIN lev1 = 1..Len(nodes) /\ Len(nodes) \in Nat /\ Levelled(nodes, lev1, P)
    BY <1>7, <2>1 DEF Levelled
  <2>7. right \in Nat /\ right # NULL
    BY <2>2, <2>6 DEF NULL
  <2>8. IsChild(n, x)
    <3>1. PICK ks \in Seq(Int) : ks = n.keys
      BY <2>5 DEF TreeNode
    <3>2. ChildIndex(n, key) \in 1..Len(ks) + 1
      BY <3>1, ChildIndexIs
    <3>3. W[g][key] = n.children[ChildIndex(n, key)]
      BY <1>1, <1>2, <2>5, <3>1, <3>2 DEF Keyed, Sound, Routes
    <3> QED
      BY <1>1, <1>2, <3>1, <3>2, <3>3 DEF IsChild
  <2>9. ~IsChild(n, right)
    <3>1. PICK ks \in Seq(Int) : ks = n.keys
      BY <2>5 DEF TreeNode
    <3>2. PICK cs \in Seq(Nat) : cs = n.children
      BY <2>5 DEF TreeNode
    <3>3. ~n.is_leaf
      BY <2>5 DEF Fits
    <3>4. Len(cs) = Len(ks) + 1 /\ \A i \in 1..Len(cs) : cs[i] # NULL => cs[i] \in DOMAIN lev
      BY <2>5, <3>1, <3>2, <3>3 DEF Fits
    <3> QED
      BY <2>2, <2>7, <3>1, <3>2, <3>4 DEF IsChild
  <2>10. Unused(W, g, right) /\ x \in DOMAIN lev /\ right # x
    <3>1. g \in 0..h
      BY <1>3
    <3>2. \A k \in Int : W[g][k] \in DOMAIN lev
      BY <3>1 DEF Searchable, Places
    <3> QED
      BY <1>1, <1>2, <2>2, <3>2 DEF Unused
  <2>11. Kept(W, W1, j)
    BY <1>10 DEF Kept
  <2>12. PICK m : m = InternalInsert(n, p, right)
    OBVIOUS
  <2>13. Sound(m, at, j, W1) /\ Len(m.keys) <= INDEX_ORDER
    <3>1. /\ W[j - 1][p] = x /\ W[j - 1][q] = x /\ Moved(W, W1, j - 1, x, p, right)
          /\ Unused(W, j - 1, right) /\ p \in Int
      BY <1>2, <2>2, <2>3, <2>10
    <3> QED
      BY <2>3, <2>5, <2>7, <2>8, <2>9, <2>10, <2>11, <2>12, <3>1, InternalSound
  <2>14. m \in TreeNode(P) /\ Fits(m, j, lev1)
    <3>1. Fits(n, j, lev1)
      BY <1>7, <2>5, FitsStill
    <3>2. right # NULL => right \in DOMAIN lev1 /\ lev1[right] = j - 1
      BY <1>2, <2>2
    <3> QED
      BY <2>2, <2>5, <2>7, <2>12, <3>1, <3>2, InternalFits
  <2>15. r = Settle(nodes, at, m, calls, 0, garbage) /\ calls \in Nat
    BY <1>6, <1>7, <1>13, <2>1, <2>12
  <2>16. \A a \in DOMAIN lev1 : a # at => Keyed(nodes[a], a, lev1[a], W1)
    BY <1>7, <2>1
  <2>17. W1[j][key] = at /\ (j < h => up = W1[j + 1][key])
    <3>1. j < h => j + 1 \in Nat /\ j + 1 > j
      OBVIOUS
    <3>2. j < h => W1[j + 1] = W[j + 1]
      BY <1>9, <3>1
    <3> QED
      BY <1>1, <1>10, <3>2 DEF Above
  <2>18. Rises(r, nodes, lev1, W1, h, j, at, up, P)
    <3>1. at \in DOMAIN lev1 /\ j = lev1[at] /\ Fits(m, lev1[at], lev1)
      BY <2>4, <2>14
    <3>2. Places(W1, lev1, h) /\ \A a \in DOMAIN lev1 : lev1[a] <= h
      BY <1>7
    <3> QED
      BY <2>6, <2>13, <2>14, <2>15, <2>16, <2>17, <3>1, <3>2, SettleRises
  <2>19. PICK lev2, W2 : Risen(r, lev2, W2, nodes, lev1, W1, h, j, at, up, P)
    BY <2>18 DEF Rises
  <2>20. /\ Levelled(r.nodes, lev2, P) /\ Places(W2, lev2, h) /\ r.calls \in Nat
         /\ \A a \in DOMAIN lev1 : a \in DOMAIN lev2 /\ lev2[a] = lev1[a]
         /\ \A a \in DOMAIN lev1 : lev1[a] > j => r.nodes[a] = nodes[a]
         /\ \A a \in DOMAIN lev2 : lev2[a] <= h
         /\ \A a \in DOMAIN lev2 : (r.split /\ a = up) \/ Keyed(r.nodes[a], a, lev2[a], W2)
         /\ \A m0 \in Nat : m0 > j => W2[m0] = W1[m0]
         /\ ~r.split => Kept(W1, W2, j)
    BY <2>19 DEF Risen
  <2>21. ASSUME NEW a \in DOMAIN lev
         PROVE  a \in DOMAIN lev2 /\ lev2[a] = lev[a] /\ (lev[a] > j => r.nodes[a] = t.nodes[a])
    BY <1>7, <1>11, <2>1, <2>20
  <2>22. \A k \in Nat : k > j => W2[k] = W[k]
    BY <1>9, <2>20
  <2>23. ~r.split => Kept(W, W2, j)
    BY <1>10, <2>20 DEF Kept
  <2>24. ASSUME r.split
         PROVE  /\ r.right_child \in DOMAIN lev2 /\ r.right_child \notin DOMAIN lev
                /\ lev2[r.right_child] = j
                /\ r.promoted_key \in Int /\ W[j][r.promoted_key] = at
                /\ \E k \in Int : k < r.promoted_key /\ W[j][k] = at
                /\ Moved(W, W2, j, at, r.promoted_key, r.right_child)
    <3>1. /\ r.right_child \in DOMAIN lev2 /\ r.right_child \notin DOMAIN lev1
          /\ lev2[r.right_child] = j
          /\ r.promoted_key \in Int /\ W1[j][r.promoted_key] = at
          /\ \E k \in Int : k < r.promoted_key /\ W1[j][k] = at
          /\ Moved(W1, W2, j, at, r.promoted_key, r.right_child)
      BY <2>19, <2>24 DEF Risen
    <3>2. r.right_child \notin DOMAIN lev
      BY <1>7, <3>1
    <3>3. Moved(W, W2, j, at, r.promoted_key, r.right_child)
      BY <1>10, <3>1 DEF Moved
    <3> QED
      BY <1>10, <3>1, <3>2, <3>3
  <2>25. Risen(r, lev2, W2, t.nodes, lev, W, h, j, at, up, P)
    BY <2>20, <2>21, <2>22, <2>23, <2>24 DEF Risen
  <2> QED
    BY <1>1, <2>25 DEF Rises
<1> QED
  BY <1>12, <1>13

\* All the calls, and so insert_recursive.
LEMMA InsertRises ==
  ASSUME NEW P, NEW t, NEW lev, NEW W, Searchable(t, lev, W, P), NEW key \in Int, NEW loc \in P,
         \A l : ~Has(t.nodes, key, l), NEW garbage, NEW h \in Nat, h = lev[t.root]
  PROVE  Rises(insert_recursive(t, key, loc, 0, garbage), t.nodes, lev, W, h, h,
               W[h][key], Above(W, key, h, h), P)
<1>1. TreeOK(t, lev, P) /\ find_leaf(t, key) # NULL
  <2>1. TreeOK(t, lev, P)
    BY DEF Searchable
  <2>2. find_leaf(t, key) # NULL
    BY OwnerPath
  <2> QED
    BY <2>1, <2>2
<1>2. Depth(t, key) = h
  BY <1>1, PathIs
<1>3. PICK F : /\ \A j \in 0..h : F[j] = Rise(F, t, key, loc, 0, garbage, j)
               /\ insert_recursive(t, key, loc, 0, garbage) = F[h]
  BY <1>2, RiseStep
<1> DEFINE Right(j) == Rises(F[j], t.nodes, lev, W, h, j, W[j][key], Above(W, key, h, j), P)
           T == {j \in Nat : j <= h /\ ~Right(j)}
<1>4. SUFFICES ASSUME T # {} PROVE FALSE
  <2>1. T = {} => Right(h)
    OBVIOUS
  <2> QED
    BY <1>3, <1>4, <2>1
<1>5. PICK m \in T : \A k \in T : m <= k
  <2> HIDE DEF Right
  <2> QED
    BY <1>4, LeastOf
<1>6. m \in Nat /\ m <= h /\ m \in 0..h
  <2> HIDE DEF Right
  <2> QED
    BY <1>5
<1>7. ~Right(m) /\ F[m] = Rise(F, t, key, loc, 0, garbage, m)
  <2> HIDE DEF Right
  <2> QED
    BY <1>3, <1>5, <1>6
<1>8. CASE m = 0
  <2>1. Right(0)
    BY <1>7, <1>8, RisesLeaf
  <2> QED
    BY <1>7, <1>8, <2>1
<1>9. CASE m # 0
  <2>1. m - 1 \in Nat /\ m - 1 <= h /\ ~(m <= m - 1)
    BY <1>6, <1>9
  <2>2. Right(m - 1)
    <3> HIDE DEF Right
    <3> QED
      BY <1>5, <2>1
  <2>3. Right(m)
    BY <1>6, <1>7, <1>9, <2>2, RisesInternal
  <2> QED
    BY <1>7, <2>3
<1> QED
  BY <1>8, <1>9

\* A node keeps its keys where its level and the one below keep theirs.
LEMMA KeyedKept ==
  ASSUME NEW P, NEW n \in TreeNode(P), NEW a, NEW l \in Nat, NEW W, NEW W2, Keyed(n, a, l, W),
         Kept(W, W2, l), l # 0 => Kept(W, W2, l - 1)
  PROVE  Keyed(n, a, l, W2)
<1>1. PICK ks \in Seq(Int) : ks = n.keys
  BY DEF TreeNode
<1>2. Owns(n, a, l, W2)
  <2>1. \A i \in 1..Len(ks) : W[l][ks[i]] = a /\ ks[i] \in Int
    BY <1>1 DEF Keyed, Sound, Owns
  <2>2. \A i \in 1..Len(ks) : W2[l][ks[i]] = a
    BY <2>1 DEF Kept
  <2> QED
    BY <1>1, <2>2 DEF Owns
<1>3. ASSUME l # 0 PROVE Routes(n, a, l, W2)
  BY <1>3 DEF Keyed, Sound, Routes, Kept
<1> QED
  BY <1>2, <1>3 DEF Keyed, Sound

\* The new root over the halves of the old one.
LEMMA RootKeyed ==
  ASSUME NEW P, NEW p \in Int, NEW root \in Nat, NEW right \in Nat, root # right,
         NEW n, n = Internal(<<p>>, <<root, right>>), NEW top, NEW g \in Nat, g # 0, NEW W,
         \A k \in Int : W[g][k] = top,
         \A k \in Int : W[g - 1][k] = IF k >= p THEN right ELSE root
  PROVE  Keyed(n, top, g, W)
<1>1. PICK ks \in Seq(Int) : ks = <<p>>
  <2>1. <<p>> \in Seq(Int)
    OBVIOUS
  <2> QED
    BY <2>1
<1>2. n.keys = ks /\ Len(ks) = 1 /\ ks[1] = p
  BY <1>1 DEF Internal
<1>3. n.children[1] = root /\ n.children[2] = right
  BY DEF Internal
<1>4. Ascending(ks)
  BY <1>2 DEF Ascending
<1>5. Owns(n, top, g, W)
  BY <1>2 DEF Owns
<1>6. ASSUME NEW i \in 1..2, NEW k \in Int
      PROVE  W[g - 1][k] = n.children[i] <=> W[g][k] = top /\ ChildIndex(n, k) = i
  <2>1. ChildIndex(n, k) = i <=> Between(ks, k, i)
    BY <1>2, <1>4, ChildBetween
  <2>2. CASE i = 1
    <3>1. Between(ks, k, i) <=> k < p
      BY <1>2, <2>2 DEF Between
    <3> QED
      BY <1>3, <2>1, <2>2, <3>1
  <2>3. CASE i = 2
    <3>1. Between(ks, k, i) <=> k >= p
      BY <1>2, <2>3 DEF Between
    <3> QED
      BY <1>3, <2>1, <2>3, <3>1
  <2> QED
    BY <2>2, <2>3
<1>7. Routes(n, top, g, W)
  <2>1. Len(ks) + 1 = 2 /\ ks = n.keys
    BY <1>2
  <2> QED
    BY <1>6, <2>1 DEF Routes
<1>8. 1 < INDEX_ORDER
  BY MidIs
<1> QED
  BY <1>2, <1>4, <1>5, <1>7, <1>8 DEF Keyed, Sound

(* With enough memory, and where the key has no entry yet, an insert leaves a   *)
(* tree that can be searched.                                               *)
THEOREM InsertSearchable ==
  ASSUME NEW P, NEW t, NEW lev, NEW W, Searchable(t, lev, W, P), NEW key \in Int, NEW loc \in P,
         \A l : ~Has(t.nodes, key, l), NEW garbage,
         NEW u, u = INDEX_insert(t, key, loc, 0, garbage)
  PROVE  \E lev2, W2 : Searchable(u, lev2, W2, P)
<1>1. PICK r : r = insert_recursive(t, key, loc, 0, garbage)
  OBVIOUS
<1>2. PICK h \in Nat : h = lev[t.root]
  BY DEF Searchable, TreeOK, Levelled
<1>3. PICK root : root = t.root
  OBVIOUS
<1>4. /\ t = [root |-> t.root, nodes |-> t.nodes] /\ root \in DOMAIN lev /\ lev[root] = h
      /\ DOMAIN lev = 1..Len(t.nodes) /\ Len(t.nodes) \in Nat /\ h < Len(t.nodes)
      /\ Places(W, lev, h) /\ \A k \in Int : W[h][k] = root
  BY <1>2, <1>3 DEF Searchable, TreeOK, Levelled
<1>5. Above(W, key, h, h) = NULL /\ W[h][key] = root
  BY <1>4 DEF Above
<1>6. PICK lev1, W1 : Risen(r, lev1, W1, t.nodes, lev, W, h, h, root, NULL, P)
  <2>1. Rises(insert_recursive(t, key, loc, 0, garbage), t.nodes, lev, W, h, h,
              W[h][key], Above(W, key, h, h), P)
    BY <1>2, InsertRises
  <2>2. Rises(r, t.nodes, lev, W, h, h, root, NULL, P)
    BY <1>1, <1>5, <2>1
  <2> QED
    BY <2>2 DEF Rises
<1>7. PICK nodes : nodes = r.nodes
  OBVIOUS
<1>8. /\ Levelled(nodes, lev1, P) /\ Places(W1, lev1, h) /\ r.calls \in Nat
      /\ \A a \in DOMAIN lev : a \in DOMAIN lev1 /\ lev1[a] = lev[a]
      /\ \A a \in DOMAIN lev1 : lev1[a] <= h
      /\ \A a \in DOMAIN lev1 : (r.split /\ a = NULL) \/ Keyed(nodes[a], a, lev1[a], W1)
      /\ ~r.split => Kept(W, W1, h)
  BY <1>6, <1>7 DEF Risen
<1>9. DOMAIN lev1 = 1..Len(nodes) /\ Len(nodes) \in Nat
  BY <1>8 DEF Levelled
<1>10. \A a \in DOMAIN lev1 : Keyed(nodes[a], a, lev1[a], W1)
  BY <1>8, <1>9 DEF NULL
<1>11. h < Len(nodes)
  <2>1. Len(t.nodes) \in DOMAIN lev
    BY <1>4
  <2>2. Len(t.nodes) \in 1..Len(nodes)
    BY <1>8, <1>9, <2>1
  <2> QED
    BY <1>4, <1>9, <2>2
<1>12. root \in DOMAIN lev1 /\ lev1[root] = h
  BY <1>4, <1>8
<1>13. 0 # r.calls + 1
  BY <1>8
<1>14. CASE ~r.split
  <2>1. u = [t EXCEPT !.nodes = nodes]
    BY <1>1, <1>7, <1>14 DEF INDEX_insert
  <2>2. u = [root |-> t.root, nodes |-> nodes]
    BY <1>4, <2>1, SameRoot
  <2>3. u.root = root /\ u.nodes = nodes
    BY <1>3, <2>2
  <2>4. TreeOK(u, lev1, P)
    BY <1>3, <1>8, <1>9, <1>11, <1>12, <2>2, <2>3 DEF TreeOK
  <2>5. \A k \in Int : W1[h][k] = root
    BY <1>4, <1>8, <1>14 DEF Kept
  <2>6. Searchable(u, lev1, W1, P)
    BY <1>8, <1>10, <1>12, <2>3, <2>4, <2>5 DEF Searchable
  <2> QED
    BY <2>6
<1>15. CASE r.split
  <2>1. PICK p, right : p = r.promoted_key /\ right = r.right_child
    OBVIOUS
  <2>2. right \in DOMAIN lev1 /\ right \notin DOMAIN lev /\ lev1[right] = h /\ p \in Int
        /\ Moved(W, W1, h, root, p, right)
    BY <1>6, <1>15, <2>1 DEF Risen
  <2>3. right \in Nat /\ root \in Nat /\ right # root
    BY <1>4, <1>9, <2>2
  <2>4. PICK n : n = Internal(<<p>>, <<root, right>>)
    OBVIOUS
  <2>5. n \in TreeNode(P) /\ ~n.is_leaf /\ n.keys = <<p>> /\ n.children = <<root, right>>
    <3>1. <<p>> \in Seq(Int) /\ <<root, right>> \in Seq(Nat) /\ <<>> \in Seq(P)
      BY <2>2, <2>3
    <3> QED
      BY <2>4, <3>1 DEF Internal, TreeNode
  <2>6. PICK g \in Nat : g = h + 1 /\ g # 0 /\ g - 1 = h /\ g > h
    OBVIOUS
  <2>7. Fits(n, g, lev1)
    <3>1. Len(n.children) = 2 /\ Len(n.keys) = 1 /\ n.children[1] = root /\ n.children[2] = right
      BY <2>5
    <3>2. \A i \in 1..2 : i = 1 \/ i = 2
      OBVIOUS
    <3> QED
      BY <1>12, <2>2, <2>5, <2>6, <3>1, <3>2 DEF Fits
  <2>8. PICK top \in Nat : top = Len(nodes) + 1
    BY <1>9
  <2>9. PICK new, lev2 : new = More(nodes, n) /\ lev2 = Levels(lev1, Len(nodes) + 1, g)
    OBVIOUS
  <2>10. u = [root |-> top, nodes |-> new]
    BY <1>1, <1>3, <1>7, <1>13, <1>15, <2>1, <2>4, <2>8, <2>9 DEF INDEX_insert, More
  <2>11. u.root = top /\ u.nodes = new
    BY <2>10
  <2>12. /\ Levelled(new, lev2, P) /\ Len(new) = top /\ new[top] = n
         /\ DOMAIN lev2 = 1..top /\ lev2[top] = g
         /\ \A a \in DOMAIN lev1 : new[a] = nodes[a] /\ a \in DOMAIN lev2 /\ lev2[a] = lev1[a]
    BY <1>8, <2>5, <2>7, <2>8, <2>9, Appended
  <2>13. \A a \in 1..top : a = top \/ a \in DOMAIN lev1
    BY <1>9, <2>8
  <2>14. \A a \in DOMAIN lev1 : lev1[a] \in Nat /\ lev1[a] < g
    BY <1>8, <2>6 DEF Levelled
  <2>15. TreeOK(u, lev2, P)
    <3>1. \A a \in 1..top : lev2[a] <= g
      BY <2>6, <2>12, <2>13, <2>14
    <3>2. g < top /\ top \in 1..top
      BY <1>9, <1>11, <2>6, <2>8
    <3> QED
      BY <2>10, <2>11, <2>12, <3>1, <3>2 DEF TreeOK
  <2>16. W1 \in Owners /\ \A l \in 0..h, k \in Int : W1[l][k] \in DOMAIN lev1 /\ lev1[W1[l][k]] = l
    BY <1>8 DEF Places
  <2>17. PICK W2 \in Owners : /\ \A k \in Int : W2[g][k] = top
                              /\ \A m \in Nat : m # g => W2[m] = W1[m]
    <3> DEFINE row == [k \in Int |-> top]
               V   == [m \in Nat |-> IF m = g THEN row ELSE W1[m]]
    <3>1. row \in [Int -> Nat] /\ \A k \in Int : row[k] = top
      OBVIOUS
    <3>2. \A m \in Nat : W1[m] \in [Int -> Nat]
      BY <2>16 DEF Owners
    <3>3. V \in Owners /\ V[g] = row /\ \A m \in Nat : m # g => V[m] = W1[m]
      <4> HIDE DEF row
      <4> QED
        BY <3>1, <3>2 DEF Owners
    <3>4. V \in Owners /\ (\A k \in Int : V[g][k] = top) /\ \A m \in Nat : m # g => V[m] = W1[m]
      <4> HIDE DEF row, V
      <4> QED
        BY <3>1, <3>3
    <3> HIDE DEF row, V
    <3> QED
      BY <3>4
  <2>18. Places(W2, lev2, g)
    <3>1. ASSUME NEW l \in 0..g, NEW k \in Int PROVE W2[l][k] \in DOMAIN lev2 /\ lev2[W2[l][k]] = l
      <4>1. CASE l = g
        <5>1. top \in 1..top
          BY <2>8, <1>9
        <5> QED
          BY <2>12, <2>17, <4>1, <5>1
      <4>2. CASE l # g
        <5>1. l \in 0..h /\ l \in Nat
          BY <2>6, <4>2
        <5>2. W2[l][k] = W1[l][k]
          BY <2>17, <4>2, <5>1
        <5> QED
          BY <2>12, <2>16, <5>1, <5>2
      <4> QED
        BY <4>1, <4>2
    <3> QED
      BY <3>1 DEF Places
  <2>19. Keyed(n, top, g, W2)
    <3>1. ASSUME NEW k \in Int PROVE W2[g - 1][k] = IF k >= p THEN right ELSE root
      <4>1. W1[h][k] = IF W[h][k] = root /\ k >= p THEN right ELSE W[h][k]
        BY <2>2 DEF Moved
      <4>2. W2[h] = W1[h] /\ W[h][k] = root
        BY <1>4, <2>6, <2>17
      <4> QED
        BY <2>6, <4>1, <4>2
    <3>2. \A k \in Int : W2[g][k] = top
      BY <2>17
    <3> QED
      BY <2>2, <2>3, <2>4, <2>6, <3>1, <3>2, RootKeyed
  <2>20. ASSUME NEW a \in DOMAIN lev1 PROVE Keyed(nodes[a], a, lev1[a], W2)
    <3>1. PICK l \in Nat : l = lev1[a] /\ l < g
      BY <2>14
    <3>2. nodes[a] \in TreeNode(P) /\ Keyed(nodes[a], a, l, W1)
      BY <1>8, <1>9, <1>10, <3>1 DEF Levelled
    <3>3. l # 0 => l - 1 \in Nat /\ l - 1 # g
      BY <2>6, <3>1
    <3>4. Kept(W1, W2, l) /\ (l # 0 => Kept(W1, W2, l - 1))
      BY <2>6, <2>17, <3>1, <3>3 DEF Kept
    <3>5. Keyed(nodes[a], a, l, W2)
      BY <3>2, <3>4, KeyedKept
    <3> QED
      BY <3>1, <3>5
  <2>21. \A a \in DOMAIN lev2 : Keyed(new[a], a, lev2[a], W2)
    BY <2>12, <2>13, <2>19, <2>20
  <2>22. Searchable(u, lev2, W2, P)
    BY <2>11, <2>12, <2>15, <2>17, <2>18, <2>21 DEF Searchable
  <2> QED
    BY <2>22
<1> QED
  BY <1>14, <1>15

-----------------------------------------------------------------------------
(* Search and deletion.                                                     *)

\* The first entry of a key in a leaf.
LEMMA FirstMatchIs ==
  ASSUME NEW n, NEW ks \in Seq(Int), ks = n.keys, NEW key
  PROVE  \/ FirstMatch(n, key) = 0 /\ \A i \in 1..Len(ks) : ks[i] # key
         \/ FirstMatch(n, key) \in 1..Len(ks) /\ ks[FirstMatch(n, key)] = key
<1> DEFINE hits == {i \in DOMAIN n.keys : n.keys[i] = key}
<1>1. hits = {i \in 1..Len(ks) : ks[i] = key}
  OBVIOUS
<1>2. FirstMatch(n, key) = IF hits = {} THEN 0 ELSE CHOOSE i \in hits : \A j \in hits : i <= j
  BY DEF FirstMatch
<1>3. CASE hits = {}
  BY <1>1, <1>2, <1>3
<1>4. CASE hits # {}
  <2>1. hits \subseteq Nat
    BY <1>1
  <2> HIDE DEF hits
  <2>2. \E m \in hits : \A j \in hits : m <= j
    BY <1>4, <2>1, LeastOf
  <2>3. (CHOOSE i \in hits : \A j \in hits : i <= j) \in hits
    BY <2>2
  <2>4. FirstMatch(n, key) \in hits
    BY <1>2, <1>4, <2>3
  <2> QED
    BY <1>1, <2>4
<1> QED
  BY <1>3, <1>4

\* What a search finds in the leaf it comes to.
LEMMA SearchIs ==
  ASSUME NEW t, NEW key, NEW n, n = t.nodes[find_leaf(t, key)], NEW i, i = FirstMatch(n, key), NEW l
  PROVE  l \in INDEX_search(t, key) <=> i # 0 /\ l = n.locations[i]
  BY DEF INDEX_search

(* Whatever allocation failed: a search that comes to a leaf finds only       *)
(* locations that were entered for the key.                                 *)
THEOREM SearchHas ==
  ASSUME NEW P, NEW t, NEW lev, TreeOK(t, lev, P), NEW key \in Int, find_leaf(t, key) # NULL,
         NEW l \in INDEX_search(t, key)
  PROVE  Has(t.nodes, key, l)
<1>1. PICK at : at = find_leaf(t, key)
  OBVIOUS
<1>2. at \in DOMAIN lev /\ lev[at] = 0
  <2>1. lev[t.root] \in Nat /\ 0 \in 0..lev[t.root]
    BY DEF TreeOK, Levelled
  <2>2. OnPath(t, lev, key, 0) = at
    BY <1>1, PathIs
  <2>3. \A j \in 0..lev[t.root] : OnPath(t, lev, key, j) \in DOMAIN lev /\ lev[OnPath(t, lev, key, j)] = j
    BY PathIs
  <2> QED
    BY <2>1, <2>2, <2>3
<1>3. PICK n : n = t.nodes[at]
  OBVIOUS
<1>4. n \in TreeNode(P) /\ Fits(n, 0, lev) /\ at \in 1..Len(t.nodes)
  BY <1>2, <1>3 DEF TreeOK, Levelled
<1>5. PICK ks \in Seq(Int) : ks = n.keys
  BY <1>4 DEF TreeNode
<1>6. PICK i : i = FirstMatch(n, key)
  OBVIOUS
<1>7. i # 0 /\ l = n.locations[i]
  BY <1>1, <1>3, <1>6, SearchIs
<1>8. i \in 1..Len(ks) /\ ks[i] = key
  BY <1>5, <1>6, <1>7, FirstMatchIs
<1>9. n.is_leaf
  BY <1>4 DEF Fits
<1>10. NodeHas(n, key, l)
  BY <1>5, <1>7, <1>8, <1>9 DEF NodeHas
<1> QED
  BY <1>3, <1>4, <1>10 DEF Has

\* An entry stands in the leaf its key belongs to, and there once.
LEMMA EntryAt ==
  ASSUME NEW P, NEW t, NEW lev, NEW W, Searchable(t, lev, W, P), NEW key \in Int,
         NEW n, n = t.nodes[find_leaf(t, key)]
  PROVE  /\ find_leaf(t, key) \in DOMAIN lev /\ lev[find_leaf(t, key)] = 0
         /\ n \in TreeNode(P) /\ Fits(n, 0, lev) /\ Keyed(n, find_leaf(t, key), 0, W)
         /\ \A l : Has(t.nodes, key, l) <=> NodeHas(n, key, l)
<1>1. PICK at : at = find_leaf(t, key)
  OBVIOUS
<1>2. at = W[0][key]
  BY <1>1, OwnerPath
<1>3. at \in DOMAIN lev /\ lev[at] = 0
  <2>1. 0 \in 0..lev[t.root]
    BY DEF Searchable, TreeOK, Levelled
  <2> QED
    BY <1>2, <2>1 DEF Searchable, Places
<1>4. PICK nodes : nodes = t.nodes
  OBVIOUS
<1>5. /\ nodes \in Seq(TreeNode(P)) /\ DOMAIN lev = 1..Len(nodes)
      /\ \A a \in DOMAIN lev : Fits(nodes[a], lev[a], lev) /\ Keyed(nodes[a], a, lev[a], W)
  BY <1>4 DEF Searchable, TreeOK, Levelled
<1>6. n = nodes[at] /\ n \in TreeNode(P) /\ Fits(n, 0, lev) /\ Keyed(n, at, 0, W)
  BY <1>1, <1>3, <1>4, <1>5
<1>7. ASSUME NEW a \in DOMAIN lev, NEW l, NodeHas(nodes[a], key, l) PROVE a = at
  <2>1. PICK x : x = nodes[a]
    OBVIOUS
  <2>2. Fits(x, lev[a], lev) /\ Keyed(x, a, lev[a], W) /\ NodeHas(x, key, l)
    BY <1>5, <1>7, <2>1
  <2>3. x.is_leaf /\ lev[a] = 0
    BY <2>2 DEF NodeHas, Fits
  <2>4. PICK i \in 1..Len(x.keys) : x.keys[i] = key
    BY <2>2 DEF NodeHas
  <2>5. W[0][x.keys[i]] = a
    BY <2>2, <2>3 DEF Keyed, Sound, Owns
  <2> QED
    BY <1>2, <2>4, <2>5
<1>8. ASSUME NEW l PROVE Has(nodes, key, l) <=> NodeHas(n, key, l)
  BY <1>3, <1>5, <1>6, <1>7 DEF Has
<1> QED
  BY <1>1, <1>3, <1>4, <1>6, <1>8

(* A search finds all the locations entered for its key.                    *)
THEOREM SearchFinds ==
  ASSUME NEW P, NEW t, NEW lev, NEW W, Searchable(t, lev, W, P), NEW key \in Int, NEW l
  PROVE  l \in INDEX_search(t, key) <=> Has(t.nodes, key, l)
<1>1. PICK n : n = t.nodes[find_leaf(t, key)]
  OBVIOUS
<1>2. n \in TreeNode(P) /\ Fits(n, 0, lev) /\ Ascending(n.keys)
  BY <1>1, EntryAt DEF Keyed, Sound
<1>3. Has(t.nodes, key, l) <=> NodeHas(n, key, l)
  BY <1>1, EntryAt
<1>4. PICK ks \in Seq(Int) : ks = n.keys
  BY <1>2 DEF TreeNode
<1>5. PICK i : i = FirstMatch(n, key)
  OBVIOUS
<1>6. l \in INDEX_search(t, key) <=> i # 0 /\ l = n.locations[i]
  BY <1>1, <1>5, SearchIs
<1>7. n.is_leaf
  BY <1>2 DEF Fits
<1>8. CASE i = 0
  <2>1. \A j \in 1..Len(ks) : ks[j] # key
    <3>1. \/ i = 0 /\ \A j \in 1..Len(ks) : ks[j] # key
          \/ i \in 1..Len(ks)
      BY <1>4, <1>5, FirstMatchIs
    <3>2. i \notin 1..Len(ks)
      BY <1>8
    <3> QED
      BY <3>1, <3>2, Zenon
  <2>2. ~NodeHas(n, key, l)
    BY <1>4, <2>1 DEF NodeHas
  <2> QED
    BY <1>3, <1>6, <1>8, <2>2
<1>9. CASE i # 0
  <2>1. i \in 1..Len(ks) /\ ks[i] = key
    BY <1>4, <1>5, <1>9, FirstMatchIs
  <2>2. \A a, b \in 1..Len(ks) : a < b => ks[a] < ks[b]
    BY <1>2, <1>4 DEF Ascending
  <2>3. ASSUME NEW j \in 1..Len(ks), ks[j] = key PROVE j = i
    <3>1. ks[j] \in Int /\ ks[i] = ks[j]
      BY <2>1, <2>3
    <3>2. ~(i < j) /\ ~(j < i)
      BY <2>1, <2>2, <3>1
    <3> QED
      BY <2>1, <3>2
  <2>4. NodeHas(n, key, l) <=> n.locations[i] = l
    BY <1>4, <1>7, <2>1, <2>3 DEF NodeHas
  <2> QED
    BY <1>3, <1>6, <1>9, <2>4
<1> QED
  BY <1>8, <1>9

\* Places that go round the place c keep their order.
LEMMA Passing ==
  ASSUME NEW len \in Nat, NEW c \in Nat, NEW a \in 1..len - 1, NEW b \in 1..len - 1, a < b,
         NEW a2 \in Nat, (a2 = a /\ a < c) \/ (a2 = a + 1 /\ a >= c),
         NEW b2 \in Nat, (b2 = b /\ b < c) \/ (b2 = b + 1 /\ b >= c)
  PROVE  a2 < b2
  OBVIOUS

\* u has the entries of t but for those of key.
Forgets(u, t, key) == \A k \in Int : \A l : Has(u.nodes, k, l) <=> Has(t.nodes, k, l) /\ k # key

(* A deletion takes away the entries of its key, and leaves the others.      *)
THEOREM DeleteSearchable ==
  ASSUME NEW P, NEW t, NEW lev, NEW W, Searchable(t, lev, W, P), NEW key \in Int,
         NEW u, u = INDEX_delete(t, key)
  PROVE  Searchable(u, lev, W, P) /\ Forgets(u, t, key)
<1> USE DEF Forgets
<1>1. PICK at : at = find_leaf(t, key)
  OBVIOUS
<1>2. PICK nodes : nodes = t.nodes
  OBVIOUS
<1>3. PICK n : n = nodes[at]
  OBVIOUS
<1>4. n = t.nodes[find_leaf(t, key)]
  BY <1>1, <1>2, <1>3
<1>5. /\ at \in DOMAIN lev /\ lev[at] = 0 /\ n \in TreeNode(P) /\ Fits(n, 0, lev) /\ Keyed(n, at, 0, W)
      /\ \A l : Has(nodes, key, l) <=> NodeHas(n, key, l)
  BY <1>1, <1>2, <1>4, EntryAt
<1>6. n.is_leaf /\ Len(n.locations) = Len(n.keys)
  BY <1>5 DEF Fits
<1>7. PICK ks \in Seq(Int) : ks = n.keys
  BY <1>5 DEF TreeNode
<1>8. PICK ls \in Seq(P) : ls = n.locations
  BY <1>5 DEF TreeNode
<1>9. /\ Ascending(ks) /\ Len(ks) < INDEX_ORDER /\ Len(ls) = Len(ks)
      /\ \A j \in 1..Len(ks) : W[0][ks[j]] = at
  BY <1>5, <1>6, <1>7, <1>8 DEF Keyed, Sound, Owns
<1>10. PICK i : i = FirstMatch(n, key)
  OBVIOUS
<1>11. \/ i = 0 /\ \A j \in 1..Len(ks) : ks[j] # key
       \/ i \in 1..Len(ks) /\ ks[i] = key
  BY <1>7, <1>10, FirstMatchIs
<1>12. CASE i = 0
  <2>1. u = t
    BY <1>1, <1>2, <1>3, <1>10, <1>12 DEF INDEX_delete
  <2>2. i \notin 1..Len(ks)
    BY <1>12
  <2>3. \A j \in 1..Len(ks) : ks[j] # key
    BY <1>11, <2>2, Zenon
  <2>4. \A l : ~Has(t.nodes, key, l)
    BY <1>2, <1>5, <1>7, <2>3 DEF NodeHas
  <2> QED
    BY <2>1, <2>4
<1>13. CASE i # 0
  <2>1. PICK c \in Nat : c = i /\ c \in 1..Len(ks) /\ ks[c] = key
    BY <1>11, <1>13
  <2>2. PICK m : m = Leaf(RemoveAt(n.keys, i), RemoveAt(n.locations, i))
    OBVIOUS
  <2>3. u = [t EXCEPT !.nodes[at] = m]
    BY <1>1, <1>2, <1>3, <1>10, <1>13, <2>2 DEF INDEX_delete
  <2>4. t = [root |-> t.root, nodes |-> t.nodes] /\ Levelled(nodes, lev, P)
    BY <1>2 DEF Searchable, TreeOK
  <2>5. PICK new : new = With(nodes, at, m)
    OBVIOUS
  <2>6. u = [root |-> t.root, nodes |-> new]
    BY <1>2, <2>3, <2>4, <2>5 DEF With
  <2>7. u.root = t.root /\ u.nodes = new
    BY <2>6
  <2>8. PICK kr \in Seq(Int) : /\ kr = RemoveAt(ks, c) /\ Len(kr) = Len(ks) - 1
                               /\ \A j \in 1..Len(ks) - 1 : kr[j] = IF j < c THEN ks[j] ELSE ks[j + 1]
    BY <2>1, Removed
  <2>9. PICK lr \in Seq(P) : /\ lr = RemoveAt(ls, c) /\ Len(lr) = Len(ls) - 1
                             /\ \A j \in 1..Len(ls) - 1 : lr[j] = IF j < c THEN ls[j] ELSE ls[j + 1]
    <3>1. c \in 1..Len(ls)
      BY <1>9, <2>1
    <3> QED
      BY <3>1, Removed
  <2>10. m = Leaf(kr, lr)
    BY <1>7, <1>8, <2>1, <2>2, <2>8, <2>9
  <2>11. m \in TreeNode(P) /\ m.is_leaf /\ m.keys = kr /\ m.locations = lr
    <3>1. <<>> \in Seq(Nat)
      OBVIOUS
    <3> QED
      BY <2>10, <3>1 DEF Leaf, TreeNode
  <2>12. PICK len \in Nat : len = Len(ks)
    OBVIOUS
  <2>13. Len(kr) = len - 1 /\ Len(lr) = len - 1 /\ c \in 1..len
    BY <1>9, <2>1, <2>8, <2>9, <2>12
  <2>14. \A j \in 1..len - 1 :
           /\ j < c => kr[j] = ks[j] /\ lr[j] = ls[j]
           /\ j >= c => kr[j] = ks[j + 1] /\ lr[j] = ls[j + 1]
    BY <1>9, <2>8, <2>9, <2>12
  <2>15. /\ \A a, b \in 1..len : a < b => ks[a] < ks[b]
         /\ \A a \in 1..len : ks[a] \in Int
    BY <1>9, <2>12 DEF Ascending
  <2>16. Ascending(kr)
    <3>1. ASSUME NEW a \in 1..len - 1, NEW b \in 1..len - 1, a < b PROVE kr[a] < kr[b]
      <4>1. PICK a2 \in Nat : a2 \in 1..len /\ kr[a] = ks[a2] /\ ((a2 = a /\ a < c) \/ (a2 = a + 1 /\ a >= c))
        <5>1. CASE a < c
          <6>1. a \in 1..len /\ a \in Nat
            OBVIOUS
          <6>2. kr[a] = ks[a]
            BY <2>14, <5>1
          <6> QED
            BY <5>1, <6>1, <6>2
        <5>2. CASE a >= c
          <6>1. a + 1 \in 1..len /\ a + 1 \in Nat
            OBVIOUS
          <6> QED
            BY <2>14, <5>2, <6>1
        <5> QED
          BY <2>13, <5>1, <5>2
      <4>2. PICK b2 \in Nat : b2 \in 1..len /\ kr[b] = ks[b2] /\ ((b2 = b /\ b < c) \/ (b2 = b + 1 /\ b >= c))
        <5>1. CASE b < c
          <6>1. b \in 1..len /\ b \in Nat
            OBVIOUS
          <6>2. kr[b] = ks[b]
            BY <2>14, <5>1
          <6> QED
            BY <5>1, <6>1, <6>2
        <5>2. CASE b >= c
          <6>1. b + 1 \in 1..len /\ b + 1 \in Nat
            OBVIOUS
          <6> QED
            BY <2>14, <5>2, <6>1
        <5> QED
          BY <2>13, <5>1, <5>2
      <4>3. a2 < b2
        BY <2>13, <3>1, <4>1, <4>2, Passing, Zenon
      <4> QED
        BY <2>15, <4>1, <4>2, <4>3
    <3> QED
      BY <2>13, <3>1 DEF Ascending
  <2>17. \A j \in 1..len - 1 : W[0][kr[j]] = at
    <3>1. ASSUME NEW j \in 1..len - 1 PROVE W[0][kr[j]] = at
      <4>1. j \in 1..len /\ j + 1 \in 1..len
        OBVIOUS
      <4>2. kr[j] = ks[j] \/ kr[j] = ks[j + 1]
        BY <2>13, <2>14
      <4> QED
        BY <1>9, <2>12, <4>1, <4>2
    <3> QED
      BY <3>1
  <2>18. Keyed(m, at, 0, W)
    <3>1. Len(kr) < INDEX_ORDER
      BY <1>9, <2>12, <2>13, MidIs
    <3> QED
      BY <2>11, <2>13, <2>16, <2>17, <3>1 DEF Keyed, Sound, Owns
  <2>19. Fits(m, lev[at], lev)
    BY <1>5, <2>11, <2>13 DEF Fits
  <2>20. /\ Levelled(new, lev, P) /\ Len(new) = Len(nodes) /\ new[at] = m
         /\ \A a \in DOMAIN lev \ {at} : new[a] = nodes[a]
    BY <1>5, <2>4, <2>5, <2>11, <2>19, Replaced
  <2>21. Searchable(u, lev, W, P)
    <3>1. TreeOK(u, lev, P)
      BY <1>2, <2>6, <2>7, <2>20 DEF Searchable, TreeOK
    <3>2. \A a \in DOMAIN lev : Keyed(new[a], a, lev[a], W)
      BY <1>2, <1>5, <2>18, <2>20 DEF Searchable
    <3> QED
      BY <2>7, <3>1, <3>2 DEF Searchable
  <2>22. ASSUME NEW k, NEW l PROVE NodeHas(m, k, l) <=> NodeHas(n, k, l) /\ k # key
    <3>1. NodeHas(m, k, l) <=> \E j \in 1..len - 1 : kr[j] = k /\ lr[j] = l
      BY <2>11, <2>13 DEF NodeHas
    <3>2. NodeHas(n, k, l) <=> \E j \in 1..len : ks[j] = k /\ ls[j] = l
      BY <1>6, <1>7, <1>8, <2>12 DEF NodeHas
    <3>3. ASSUME NEW j \in 1..len, ks[j] = key PROVE j = c
      <4>1. ~(j < c) /\ ~(c < j)
        BY <2>1, <2>13, <2>15, <3>3
      <4> QED
        BY <2>13, <4>1
    <3>4. ASSUME NEW j \in 1..len - 1, kr[j] = k, lr[j] = l
          PROVE  k # key /\ \E i2 \in 1..len : ks[i2] = k /\ ls[i2] = l
      <4>1. j \in 1..len /\ j + 1 \in 1..len /\ j \in Int
        OBVIOUS
      <4>2. CASE j < c
        <5>1. ks[j] = k /\ ls[j] = l
          BY <2>14, <3>4, <4>2
        <5>2. j # c
          BY <2>13, <4>2
        <5>3. ks[j] # key
          BY <3>3, <4>1, <5>2
        <5> QED
          BY <4>1, <5>1, <5>3
      <4>3. CASE j >= c
        <5>1. ks[j + 1] = k /\ ls[j + 1] = l
          BY <2>14, <3>4, <4>3
        <5>2. j + 1 # c
          BY <2>13, <4>3
        <5>3. ks[j + 1] # key
          BY <3>3, <4>1, <5>2
        <5> QED
          BY <4>1, <5>1, <5>3
      <4> QED
        BY <2>13, <4>2, <4>3
    <3>5. ASSUME NEW j \in 1..len, ks[j] = k, ls[j] = l, k # key
          PROVE  \E i2 \in 1..len - 1 : kr[i2] = k /\ lr[i2] = l
      <4>1. j # c
        BY <2>1, <3>5
      <4>2. CASE j < c
        <5>1. j \in 1..len - 1
          BY <2>13, <4>2
        <5> QED
          BY <2>14, <3>5, <4>2, <5>1
      <4>3. CASE j > c
        <5>1. PICK b \in Nat : b = j - 1 /\ b \in 1..len - 1 /\ b >= c /\ b + 1 = j
          BY <2>13, <4>3
        <5> QED
          BY <2>14, <3>5, <5>1
      <4> QED
        BY <2>13, <4>1, <4>2, <4>3
    <3> QED
      BY <3>1, <3>2, <3>4, <3>5
  <2>23. ASSUME NEW k \in Int, NEW l PROVE Has(new, k, l) <=> Has(nodes, k, l) /\ k # key
    <3>1. DOMAIN lev = 1..Len(nodes)
      BY <2>4 DEF Levelled
    <3>2. Has(new, k, l) <=> NodeHas(m, k, l) \/ \E a \in DOMAIN lev \ {at} : NodeHas(nodes[a], k, l)
      BY <1>5, <2>20, <3>1 DEF Has
    <3>3. Has(nodes, k, l) <=> NodeHas(n, k, l) \/ \E a \in DOMAIN lev \ {at} : NodeHas(nodes[a], k, l)
      BY <1>3, <1>5, <3>1 DEF Has
    <3>4. ASSUME NEW a \in DOMAIN lev \ {at}, NodeHas(nodes[a], k, l) PROVE k # key
      <4>1. PICK x : x = nodes[a]
        OBVIOUS
      <4>2. Fits(x, lev[a], lev) /\ Keyed(x, a, lev[a], W) /\ NodeHas(x, k, l)
        BY <1>2, <2>4, <3>1, <3>4, <4>1 DEF Levelled, Searchable
      <4>3. lev[a] = 0
        BY <4>2 DEF NodeHas, Fits
      <4>4. W[0][k] = a
        BY <4>2, <4>3 DEF Keyed, Sound, Owns, NodeHas
      <4>5. W[0][key] = at
        BY <1>1, OwnerPath
      <4> QED
        BY <4>4, <4>5
    <3> QED
      BY <2>22, <3>2, <3>3, <3>4
  <2> QED
    BY <1>2, <2>7, <2>21, <2>23
<1> QED
  BY <1>12, <1>13

(* The tree a table starts with has no entry and can be searched.            *)
THEOREM CreateSearchable ==
  ASSUME NEW P
  PROVE  /\ \E lev, W : Searchable(INDEX_create, lev, W, P)
         /\ \A k, l : ~Has(INDEX_create.nodes, k, l)
<1>1. PICK n : n = Leaf(<<>>, <<>>)
  OBVIOUS
<1>2. PICK ks \in Seq(Int) : ks = <<>> /\ Len(ks) = 0
  <2>1. <<>> \in Seq(Int) /\ Len(<<>>) = 0
    OBVIOUS
  <2> QED
    BY <2>1, Zenon
<1>3. n \in TreeNode(P) /\ n.is_leaf /\ n.keys = ks /\ Len(n.locations) = 0
  <2>1. <<>> \in Seq(Int) /\ <<>> \in Seq(P) /\ <<>> \in Seq(Nat)
    OBVIOUS
  <2> QED
    BY <1>1, <1>2, <2>1 DEF Leaf, TreeNode
<1>4. PICK nodes \in Seq(TreeNode(P)) : nodes = <<n>> /\ Len(nodes) = 1 /\ nodes[1] = n
  <2>1. n \in TreeNode(P)
    BY <1>3
  <2>2. <<n>> \in Seq(TreeNode(P)) /\ Len(<<n>>) = 1 /\ <<n>>[1] = n
    <3> HIDE DEF TreeNode
    <3> QED
      BY <2>1
  <2> QED
    BY <2>2, Zenon
<1>5. INDEX_create.root = 1 /\ INDEX_create.nodes = nodes /\ INDEX_create = [root |-> 1, nodes |-> nodes]
  BY <1>1, <1>4 DEF INDEX_create
<1>6. PICK lev \in [1..1 -> Nat] : lev = [a \in 1..1 |-> 0]
  OBVIOUS
<1>7. lev[1] = 0 /\ DOMAIN lev = 1..1 /\ \A a \in 1..1 : a = 1
  BY <1>6
<1>8. Fits(n, 0, lev)
  BY <1>2, <1>3 DEF Fits
<1>9. Levelled(nodes, lev, P)
  BY <1>4, <1>7, <1>8 DEF Levelled
<1>10. TreeOK(INDEX_create, lev, P)
  BY <1>4, <1>5, <1>7, <1>9 DEF TreeOK
<1>11. PICK W \in Owners : \A l \in Nat, k \in Int : W[l][k] = 1
  <2> DEFINE row == [k \in Int |-> 1]
             V   == [m \in Nat |-> row]
  <2>1. row \in [Int -> Nat] /\ \A k \in Int : row[k] = 1
    OBVIOUS
  <2>2. V \in Owners /\ \A m \in Nat : V[m] = row
    <3> HIDE DEF row
    <3> QED
      BY <2>1 DEF Owners
  <2>3. V \in Owners /\ \A l \in Nat, k \in Int : V[l][k] = 1
    <3> HIDE DEF row, V
    <3> QED
      BY <2>1, <2>2
  <2> HIDE DEF row, V
  <2> QED
    BY <2>3
<1>12. Places(W, lev, 0)
  BY <1>7, <1>11 DEF Places
<1>13. Keyed(n, 1, 0, W)
  <2>1. 0 < INDEX_ORDER
    BY MidIs
  <2>2. Ascending(ks)
    BY <1>2 DEF Ascending
  <2>3. Owns(n, 1, 0, W)
    BY <1>2, <1>3 DEF Owns
  <2> QED
    BY <1>2, <1>3, <2>1, <2>2, <2>3 DEF Keyed, Sound
<1>14. Searchable(INDEX_create, lev, W, P)
  BY <1>4, <1>5, <1>7, <1>10, <1>11, <1>12, <1>13 DEF Searchable
<1>15. ASSUME NEW k, NEW l PROVE ~Has(nodes, k, l)
  BY <1>2, <1>3, <1>4 DEF Has, NodeHas
<1> QED
  BY <1>5, <1>14, <1>15
=============================================================================
