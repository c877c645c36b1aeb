------------------------------ MODULE TreeMap ------------------------------
(***************************************************************************)
(* The AVL map of the contract SDK, kept in contract storage               *)
(* (crates/sdk-rs/src/storage/tree_map.rs).  Its nodes live in a pool (a   *)
(* DynArray) and are named by 1-based indices, 0 being "no node"; removed  *)
(* nodes go to a free list that is itself in storage.  Nothing is ever     *)
(* erased: a popped or recycled slot keeps its old bytes until init_node   *)
(* overwrites them, so the model keeps them too.                           *)
(*                                                                         *)
(*   t.root   root_idx                     t.pool  every node ever written *)
(*   t.len    the stored length of slots   t.free  free_slots, as 0-based  *)
(*                                                 slot numbers            *)
(*                                                                         *)
(* Every operation of the API is a call that runs to its end inside one    *)
(* contract call, so each is one action.  dict is a history variable: the  *)
(* map the calls should have built.                                        *)
(***************************************************************************)
EXTENDS Integers, Sequences, FiniteSets, SequencesExt

CONSTANTS
  Few,      \* the keys of a contract that starts with an empty map: integers,
            \* the order of K being all the map knows of them
  Stored,   \* the keys of a map stored earlier, in the order of their insertion
  Values,   \* the values a contract gives to each key
  MaxOps    \* bound: calls made on the map stored earlier

\* The value an entry has before it is given one, and what get has for a key that is absent
Zero == 0
Absent == -1

ASSUME KeysAssumption == Few \subseteq Int /\ Range(Stored) \subseteq Int /\ MaxOps \in Nat
ASSUME ValuesAssumption ==
  /\ Few \cup Range(Stored) \subseteq DOMAIN Values
  /\ \A k \in DOMAIN Values : Values[k] # {} /\ Values[k] \cap {Zero, Absent} = {}

VARIABLES t, dict, left
vars == <<t, dict, left>>

Unbounded == -1

Opposite == [left |-> "right", right |-> "left"]
Sign == [left |-> -1, right |-> 1]
EmptyTree == [root |-> 0, pool |-> <<>>, len |-> 0, free |-> <<>>]
Untouched == [key |-> 0, value |-> Zero, left |-> 0, right |-> 0, balance |-> 0]

\* DynArray::index asserts its bound: an index outside it has no value here.
Node(tree, idx) ==
  CASE idx - 1 \in 0 .. tree.len - 1 -> tree.pool[idx]

(*----- helpers -----------------------------------------------------------*)

\* The indices from the root to k (0 last if k is absent) and the side taken last.
RECURSIVE Walk(_, _, _, _)
Walk(tree, k, path, side) ==
  LET cur == Last(path) IN
  IF cur = 0 THEN [path |-> path, side |-> side]
  ELSE LET node == Node(tree, cur) IN
       CASE k < node.key -> Walk(tree, k, Append(path, node.left), "left")
         [] node.key < k -> Walk(tree, k, Append(path, node.right), "right")
         [] OTHER        -> [path |-> path, side |-> side]

find_path(tree, k) == Walk(tree, k, <<tree.root>>, "left")

\* The node's index, and the tree in which its slot is taken, with its old bytes: those of
\* a slot no node had before are zero.
alloc_slot(tree) ==
  IF tree.free # <<>>
  THEN [idx |-> Last(tree.free) + 1, tree |-> [tree EXCEPT !.free = Front(@)]]
  ELSE [idx  |-> tree.len + 1,
        tree |-> [tree EXCEPT !.len = @ + 1,
                              !.pool = IF tree.len < Len(@) THEN @ ELSE Append(@, Untouched)]]

free_slot(tree, idx) ==
  IF idx = tree.len THEN [tree EXCEPT !.len = @ - 1]
                    ELSE [tree EXCEPT !.free = Append(@, idx - 1)]

init_node(tree, idx, k) ==
  [tree EXCEPT !.pool[idx].key = k, !.pool[idx].left = 0, !.pool[idx].right = 0,
               !.pool[idx].balance = 0]

(*----- rotations ---------------------------------------------------------*)

\* Mutant: a rotation always evens the two nodes out, as after an insertion.
Rotate_Even(tree, par, cur, side) ==
  LET c == Node(tree, cur)
  IN [tree EXCEPT !.pool[par] = [@ EXCEPT ![Opposite[side]] = c[side], !.balance = 0],
                  !.pool[cur] = [@ EXCEPT ![side] = par, !.balance = 0]]

\* cur, a child of par, takes its place; par goes down to the given side.
Rotate(tree, par, cur, side) ==
  LET c == Node(tree, cur)
      b == IF c.balance = 0 THEN Sign[Opposite[side]] ELSE 0
  IN [tree EXCEPT !.pool[par] = [@ EXCEPT ![Opposite[side]] = c[side], !.balance = b],
                  !.pool[cur] = [@ EXCEPT ![side] = par, !.balance = -b]]

rot_left(tree, par, cur) == Rotate(tree, par, cur, "left")
rot_right(tree, par, cur) == Rotate(tree, par, cur, "right")

\* cur, a grandchild of gpar on the inner side, takes its place; par was its
\* parent, and gpar goes down to the given side.
RotateTwice(tree, gpar, par, cur, side) ==
  LET c == Node(tree, cur)
      o == Opposite[side]
      Bal(heavy) == IF c.balance = Sign[heavy] THEN -Sign[heavy] ELSE 0
  IN [tree EXCEPT
       !.pool[gpar] = [@ EXCEPT ![o] = c[side], !.balance = Bal(o)],
       !.pool[par]  = [@ EXCEPT ![side] = c[o], !.balance = Bal(side)],
       !.pool[cur]  = [@ EXCEPT ![side] = gpar, ![o] = par, !.balance = 0]]

rot_right_left(tree, gpar, par, cur) == RotateTwice(tree, gpar, par, cur, "left")
rot_left_right(tree, gpar, par, cur) == RotateTwice(tree, gpar, par, cur, "right")

\* seq holds the path; the element under its depth-th becomes new_child.
replace_child(tree, seq, depth, old_child, new_child) ==
  IF depth = 0 THEN [tree EXCEPT !.root = new_child]
  ELSE LET gp == Node(tree, seq[depth]) IN
       [tree EXCEPT !.pool[seq[depth]] =
          [@ EXCEPT ![IF gp.left = old_child THEN "left" ELSE "right"] = new_child]]

\* The rotation at par, too deep on the side of its child: the tree, and par's replacement.
Straighten(tree, par, child, deep) ==
  LET c == Node(tree, child)
      inner == c[Opposite[deep]]
  IN IF c.balance = -Sign[deep]
     THEN [top |-> inner,
           tree |-> IF deep = "left" THEN rot_left_right(tree, par, child, inner)
                                     ELSE rot_right_left(tree, par, child, inner)]
     ELSE [top |-> child,
           tree |-> IF deep = "left" THEN rot_right(tree, par, child)
                                     ELSE rot_left(tree, par, child)]

\* Both rebalancing loops end by making the first element of the path the root.
SetRoot(tree, seq) == [tree EXCEPT !.root = seq[1]]

\* The path after the rotation at its last but one element, and the tree.
Turn(tree, seq, child, deep) ==
  LET par  == seq[Len(seq) - 1]
      turn == Straighten(tree, par, child, deep)
      path == Append(SubSeq(seq, 1, Len(seq) - 2), turn.top)
  IN [path |-> path, tree |-> replace_child(turn.tree, path, Len(seq) - 2, par, turn.top)]

(*----- insert ------------------------------------------------------------*)

RECURSIVE RebalanceInsert(_, _)
RebalanceInsert(tree, seq) ==
  IF Len(seq) < 2 THEN SetRoot(tree, seq)
  ELSE LET cur   == Last(seq)
           par   == seq[Len(seq) - 1]
           side  == IF cur = Node(tree, par).left THEN "left" ELSE "right"
           new_b == Node(tree, par).balance + Sign[side]
           set   == [tree EXCEPT !.pool[par].balance = new_b]
       IN CASE new_b \in {-2, 2} ->
                 LET r == Turn(tree, seq, cur, IF new_b = -2 THEN "left" ELSE "right")
                 IN SetRoot(r.tree, r.path)
            [] new_b = 0 -> SetRoot(set, seq)
            [] OTHER     -> RebalanceInsert(set, Front(seq))

insert(tree, k, v) ==
  LET f    == find_path(tree, k)
      seq  == f.path
      new  == alloc_slot(tree)
      up   == seq[Len(seq) - 1]
      init == [init_node(new.tree, new.idx, k) EXCEPT !.pool[new.idx].value = v]
  IN CASE Last(seq) # 0 -> [tree EXCEPT !.pool[Last(seq)].value = v]
       [] Len(seq) = 1  -> [init EXCEPT !.root = new.idx]
       [] OTHER         -> RebalanceInsert([init EXCEPT !.pool[up] = [@ EXCEPT ![f.side] = new.idx]],
                                           Append(Front(seq), new.idx))

(*----- remove ------------------------------------------------------------*)

\* special is the code's special_null: the removed node had at most one child,
\* and side then says where the path went.
RECURSIVE RebalanceRemove(_, _, _, _)
RebalanceRemove(tree, seq, special, side) ==
  IF Len(seq) < 2 THEN SetRoot(tree, seq)
  ELSE LET par   == seq[Len(seq) - 1]
           node  == Node(tree, par)
           short == IF special THEN side
                    ELSE IF Last(seq) = node.left THEN "left" ELSE "right"
           new_b == node.balance - Sign[short]
           deep  == IF new_b = -2 THEN "left" ELSE "right"
           set   == [tree EXCEPT !.pool[par].balance = new_b]
       IN CASE new_b \in {-2, 2} ->
                 LET r == Turn(tree, seq, node[deep], deep)
                 IN IF Node(tree, node[deep]).balance = 0 THEN SetRoot(r.tree, r.path)
                    ELSE RebalanceRemove(r.tree, r.path, FALSE, side)
            [] new_b \in {-1, 1} -> SetRoot(set, seq)
            [] OTHER -> RebalanceRemove(set, Front(seq), FALSE, side)

\* The path down to the in-order successor.
RECURSIVE LeftMost(_, _)
LeftMost(tree, path) ==
  LET lft == Node(tree, Last(path)).left
  IN IF lft = 0 THEN path ELSE LeftMost(tree, Append(path, lft))

\* Mutant: the successor, found further down, keeps its own right subtree.
MoveSuccessor_KeepsRight(tree, seq, at, del) ==
  LET path == LeftMost(tree, Append(seq, del.right))
      rep  == Last(path)
      n    == Len(path)
      rest == Node(tree, rep).right
      tied == [tree EXCEPT !.pool[rep].left = del.left]
  IN [path |-> [path EXCEPT ![at] = rep, ![n] = rest],
      tree |-> IF at + 1 = n THEN tied
               ELSE [tied EXCEPT !.pool[path[n - 1]].left = rest]]

\* The deleted node's place in the path (at) is taken by its successor; the last
\* element of the path becomes what replaces the successor.
MoveSuccessor(tree, seq, at, del) ==
  LET path == LeftMost(tree, Append(seq, del.right))
      rep  == Last(path)
      n    == Len(path)
      rest == Node(tree, rep).right
      tied == [tree EXCEPT !.pool[rep].left = del.left]
  IN [path |-> [path EXCEPT ![at] = rep, ![n] = rest],
      tree |-> IF at + 1 = n THEN tied
               ELSE [tied EXCEPT !.pool[path[n - 1]].left = rest, !.pool[rep].right = del.right]]

remove(tree, k) ==
  LET f     == find_path(tree, k)
      at    == Len(f.path)
      del   == Node(tree, f.path[at])
      freed == free_slot(tree, f.path[at])
      special == del.left = 0 \/ del.right = 0
      moved == IF special
               THEN [tree |-> freed,
                     path |-> [f.path EXCEPT ![at] = IF del.left = 0 THEN del.right ELSE del.left]]
               ELSE MoveSuccessor(freed, f.path, at, del)
      rep   == moved.path[at]
      linked == IF at > 1
                THEN [moved.tree EXCEPT !.pool[moved.path[at - 1]] = [@ EXCEPT ![f.side] = rep]]
                ELSE [moved.tree EXCEPT !.root = rep]
      patched == IF rep = 0 THEN linked
                 ELSE [linked EXCEPT !.pool[rep].balance = IF special THEN 0 ELSE del.balance]
  IN IF Last(f.path) = 0 THEN tree
     ELSE RebalanceRemove(patched, moved.path, special, f.side)

(*----- queries -----------------------------------------------------------*)

len(tree) == tree.len - Len(tree.free)

get(tree, k) ==
  LET last == Last(find_path(tree, k).path)
  IN IF last = 0 THEN Absent ELSE Node(tree, last).value

\* The nodes in the order for_each visits them.
RECURSIVE visit_impl(_, _)
visit_impl(tree, idx) ==
  IF idx = 0 THEN <<>>
  ELSE visit_impl(tree, Node(tree, idx).left) \o <<idx>> \o visit_impl(tree, Node(tree, idx).right)

for_each(tree) ==
  LET order == visit_impl(tree, tree.root)
  IN [i \in DOMAIN order |-> <<Node(tree, order[i]).key, Node(tree, order[i]).value>>]

clear(tree) == [tree EXCEPT !.root = 0, !.len = 0, !.free = <<>>]

(*----- the map as its contract uses it -----------------------------------*)

AnyValue(k) == CHOOSE v \in Values[k] : TRUE

TreeInit(tree, keys, calls) ==
  /\ t = tree
  /\ dict = [k \in keys |-> get(tree, k)]
  /\ left = calls

Init ==
  \/ TreeInit(EmptyTree, Few, Unbounded)
  \/ TreeInit(FoldLeft(LAMBDA tree, k : insert(tree, k, AnyValue(k)), EmptyTree, Stored),
              Range(Stored), MaxOps)

Keys == DOMAIN dict

Call ==
  \/ left = Unbounded /\ UNCHANGED left
  \/ left # Unbounded /\ left > 0 /\ left' = left - 1

InsertKey(k, v) == Call /\ t' = insert(t, k, v) /\ dict' = [dict EXCEPT ![k] = v]
RemoveKey(k) == Call /\ t' = remove(t, k) /\ dict' = [dict EXCEPT ![k] = Absent]
ClearMap == Call /\ t' = clear(t) /\ dict' = [k \in Keys |-> Absent]

Next ==
  \/ \E k \in Keys : (\E v \in Values[k] : InsertKey(k, v)) \/ RemoveKey(k)
  \/ ClearMap

Spec == Init /\ [][Next]_vars

(*----- properties --------------------------------------------------------*)

RECURSIVE Height(_, _)
Height(tree, idx) ==
  IF idx = 0 THEN 0
  ELSE LET l == Height(tree, Node(tree, idx).left)
           r == Height(tree, Node(tree, idx).right)
       IN 1 + IF l < r THEN r ELSE l

\* Whatever calls built the map and recycled its slots, looking a key up, iterating
\* and counting all see exactly the entries the calls put there, in key order.
AnswersAsTheMap ==
  LET entries == for_each(t)
      present == {k \in Keys : dict[k] # Absent}
  IN /\ \A k \in Keys : get(t, k) = dict[k]
     /\ Range(entries) = {<<k, dict[k]>> : k \in present}
     /\ \A i \in 1 .. Len(entries) - 1 : entries[i][1] < entries[i + 1][1]
     /\ len(t) = Cardinality(present) /\ len(t) = Len(entries)

\* Every stored balance is the difference of the two heights, and no subtree is
\* more than one deeper than its sibling: rotations, on insertion and at several
\* levels on removal, leave an AVL tree, so a lookup stays logarithmic.
BalancesAreHeights ==
  \A idx \in Range(visit_impl(t, t.root)) :
    LET n == Node(t, idx)
    IN /\ n.balance = Height(t, n.right) - Height(t, n.left)
       /\ n.balance \in -1 .. 1

\* Every slot of the pool is one node of the tree or one entry of the free list,
\* never both and never lost: storage that was paid for is reused.
NoSlotLostOrShared ==
  LET used == visit_impl(t, t.root)
      free == [i \in DOMAIN t.free |-> t.free[i] + 1]
  IN IsInjective(used \o free) /\ Range(used \o free) = 1 .. t.len

\* What is in storage after any calls is an AVL tree and a free list that share the pool.
TreeSound == BalancesAreHeights /\ NoSlotLostOrShared
=============================================================================
