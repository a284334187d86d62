------------------------------ MODULE BPlusTree ------------------------------
(***************************************************************************)
(* The B+ tree of src/index/index.c, as operators on trees.  A tree is its  *)
(* root and the sequence of the nodes allocated so far; a pointer is an     *)
(* index of that sequence, and NULL is 0.  Nodes are only freed with the    *)
(* whole tree.  An allocation may fail: failAt is the node_alloc call of an  *)
(* INDEX_insert that returns NULL (0: none), and garbage is what the        *)
(* uninitialised new_key of the split then holds.                          *)
(***************************************************************************)
EXTENDS Integers, FiniteSets, SequencesExt

CONSTANT INDEX_ORDER   \* keys of a full node, 4

ASSUME OrderAssumption == INDEX_ORDER \in Nat /\ INDEX_ORDER > 2

NULL == 0
mid  == INDEX_ORDER \div 2

\* Leaf chaining (next) is used by INDEX_print_leaves only and left out.
Leaf(keys, locs)     == [is_leaf |-> TRUE, keys |-> keys, locations |-> locs, children |-> <<>>]
Internal(keys, kids) == [is_leaf |-> FALSE, keys |-> keys, locations |-> <<>>, children |-> kids]

INDEX_create == [root |-> 1, nodes |-> <<Leaf(<<>>, <<>>)>>]

-----------------------------------------------------------------------------
(* The descent.                                                             *)

\* Mutant: an equal key goes to the left of its separator.
ChildIndex_Strict(n, key) ==
  1 + Cardinality({i \in DOMAIN n.keys : \A j \in 1..i : key > n.keys[j]})

\* The child a key belongs to: the loop stops at the first separator above it.
ChildIndex(n, key) ==
  1 + Cardinality({i \in DOMAIN n.keys : \A j \in 1..i : key >= n.keys[j]})

\* One step down; it stays at a leaf or at NULL.
Down(t, key) == [a \in 0..Len(t.nodes) |->
  IF a = NULL THEN NULL
  ELSE IF t.nodes[a].is_leaf THEN a
  ELSE t.nodes[a].children[ChildIndex(t.nodes[a], key)]]

\* The nodes from the root to the leaf of key, which is repeated.
Descent(t, key) ==
  LET down == Down(t, key)
      path[d \in 1..Len(t.nodes)] == IF d = 1 THEN t.root ELSE down[path[d - 1]]
  IN path

find_leaf(t, key) == Descent(t, key)[Len(t.nodes)]

\* Nodes above the leaf.
Depth(t, key) == Cardinality({d \in 1..Len(t.nodes) : Descent(t, key)[d] # find_leaf(t, key)})

-----------------------------------------------------------------------------
(* Insertion into a node.  keys stay sorted; an equal key goes behind.      *)

Position(keys, key) ==
  1 + Cardinality({i \in DOMAIN keys : \E j \in i..Len(keys) : keys[j] <= key})

LeafInsert(n, key, loc) ==
  LET at == Position(n.keys, key)
  IN Leaf(InsertAt(n.keys, at, key), InsertAt(n.locations, at, loc))

InternalInsert(n, key, right) ==
  LET at == Position(n.keys, key)
  IN Internal(InsertAt(n.keys, at, key), InsertAt(n.children, at + 1, right))

-----------------------------------------------------------------------------
(* Splitting a full node: the halves and the key that goes up.              *)

LowerLeaf(n) == Leaf(SubSeq(n.keys, 1, mid), SubSeq(n.locations, 1, mid))
UpperLeaf(n) == Leaf(SubSeq(n.keys, mid + 1, Len(n.keys)),
                     SubSeq(n.locations, mid + 1, Len(n.locations)))

LowerInternal(n) == Internal(SubSeq(n.keys, 1, mid), SubSeq(n.children, 1, mid + 1))
UpperInternal(n) == Internal(SubSeq(n.keys, mid + 2, Len(n.keys)),
                             SubSeq(n.children, mid + 2, Len(n.children)))

Lower(n) == IF n.is_leaf THEN LowerLeaf(n) ELSE LowerInternal(n)
Upper(n) == IF n.is_leaf THEN UpperLeaf(n) ELSE UpperInternal(n)

\* split_leaf sends up a copy of the first upper key; split_internal moves
\* the middle key.
Promoted(n) == n.keys[mid + 1]

-----------------------------------------------------------------------------
(* insert_recursive, from the leaf up.  An InsertResult, with the nodes     *)
(* and the number of node_alloc calls so far.                               *)

Whole(nodes, calls) == [nodes |-> nodes, split |-> FALSE, promoted_key |-> 0,
                        right_child |-> NULL, calls |-> calls]

\* Mutant: a node is cut in half before there is one for the upper half.
Settle_CutsFirst(nodes, at, n, calls, failAt, garbage) ==
  IF Len(n.keys) # INDEX_ORDER THEN Whole([nodes EXCEPT ![at] = n], calls)
  ELSE IF failAt = calls + 1
       THEN [nodes |-> [nodes EXCEPT ![at] = Lower(n)], split |-> TRUE,
             promoted_key |-> garbage, right_child |-> NULL, calls |-> calls + 1]
       ELSE [nodes |-> Append([nodes EXCEPT ![at] = Lower(n)], Upper(n)), split |-> TRUE,
             promoted_key |-> Promoted(n), right_child |-> Len(nodes) + 1, calls |-> calls + 1]

\* A node that became full is split; when node_alloc fails it stays full, but
\* res.split is set all the same.
Settle(nodes, at, n, calls, failAt, garbage) ==
  IF Len(n.keys) # INDEX_ORDER THEN Whole([nodes EXCEPT ![at] = n], calls)
  ELSE IF failAt = calls + 1
       THEN [nodes |-> [nodes EXCEPT ![at] = n], split |-> TRUE,
             promoted_key |-> garbage, right_child |-> NULL, calls |-> calls + 1]
       ELSE [nodes |-> Append([nodes EXCEPT ![at] = Lower(n)], Upper(n)), split |-> TRUE,
             promoted_key |-> Promoted(n), right_child |-> Len(nodes) + 1, calls |-> calls + 1]

insert_recursive(t, key, loc, failAt, garbage) ==
  LET path == Descent(t, key)
      h    == Depth(t, key)
      leaf == find_leaf(t, key)
      \* res[j]: what the call j levels above the leaf returns
      res[j \in 0..h] ==
        IF j = 0
        THEN Settle(t.nodes, leaf, LeafInsert(t.nodes[leaf], key, loc), 0, failAt, garbage)
        ELSE LET below == res[j - 1]
                 at    == path[h + 1 - j]
             IN IF ~below.split THEN below
                ELSE Settle(below.nodes, at,
                            InternalInsert(below.nodes[at], below.promoted_key, below.right_child),
                            below.calls, failAt, garbage)
  IN res[h]

\* A split root gets a new root above it; if that allocation fails,
\* INDEX_ERROR, the right half hangs on nothing.
INDEX_insert(t, key, loc, failAt, garbage) ==
  LET res == insert_recursive(t, key, loc, failAt, garbage)
  IN IF ~res.split \/ failAt = res.calls + 1
     THEN [t EXCEPT !.nodes = res.nodes]
     ELSE [root  |-> Len(res.nodes) + 1,
           nodes |-> Append(res.nodes,
                            Internal(<<res.promoted_key>>, <<t.root, res.right_child>>))]

\* The node_alloc calls an insert makes, the last one for the root if it splits.
Allocations(t, key, loc) ==
  LET res == insert_recursive(t, key, loc, 0, 0)
  IN IF res.split THEN res.calls + 1 ELSE res.calls

\* This failing call is the one for the new root.
RootFails(t, key, loc, failAt) ==
  LET res == insert_recursive(t, key, loc, failAt, 0)
  IN res.split /\ failAt = res.calls + 1

\* A node that could not be split has been written past its end.
Overrun(t) == \E i \in DOMAIN t.nodes : Len(t.nodes[i].keys) > INDEX_ORDER

-----------------------------------------------------------------------------
(* Lookup and deletion, in the leaf find_leaf comes to.                     *)

\* The first entry with the key in that leaf; 0: none.
FirstMatch(n, key) ==
  LET hits == {i \in DOMAIN n.keys : n.keys[i] = key}
  IN IF hits = {} THEN 0 ELSE CHOOSE i \in hits : \A j \in hits : i <= j

\* INDEX_search: the locations found, none or one.
INDEX_search(t, key) ==
  LET n == t.nodes[find_leaf(t, key)]
      i == FirstMatch(n, key)
  IN IF i = 0 THEN {} ELSE {n.locations[i]}

INDEX_delete(t, key) ==
  LET leaf == find_leaf(t, key)
      n    == t.nodes[leaf]
      i    == FirstMatch(n, key)
  IN IF i = 0 THEN t
     ELSE [t EXCEPT !.nodes[leaf] = Leaf(RemoveAt(n.keys, i), RemoveAt(n.locations, i))]
=============================================================================
