--------------------------- MODULE MCGuestStorage ---------------------------
(***************************************************************************)
(* The SDK's storage types and its map, in one run: an initial state is    *)
(* either of a contract that uses the typed layout or of one that uses a   *)
(* TreeMap, and the variables of the other part keep their initial values. *)
(***************************************************************************)
EXTENDS TreeMap, StorageTypes

VARIABLE part

\* Twelve keys, inserted so that the tree is as unbalanced as an AVL tree may be:
\* removing from its shallow side rotates at two levels.
MCStored == <<8, 5, 11, 3, 7, 10, 12, 2, 4, 6, 9, 1>>

\* No two keys are given the same value, so that a node that keeps the value of the one
\* its slot had before shows; two keys are given either of two, so that an update does.
MCValues == [k \in 1 .. 12 |-> IF k \in {2, 5} THEN {k, 100 + k} ELSE {k}]

\* A number, a boolean between two others, a list of strings and a byte array, two floats.
MCContract ==
  RecTy(<<IntTy(2), BoolTy, DynTy(StrTy), BytesTy, ArrayTy(FloatTy(4), 2)>>)
MCStrings == {<<>>, <<7>>, <<8, 9>>}

MCInit ==
  \/ part = "map" /\ Init /\ LayoutInit
  \/ part = "layout" /\ TreeInit(EmptyTree, {}, 0) /\ LayoutInit

MCNext ==
  \/ part = "map" /\ Next /\ UNCHANGED <<layoutVars, part>>
  \/ part = "layout" /\ LayoutNext /\ UNCHANGED <<vars, part>>

MCSpec == MCInit /\ [][MCNext]_<<vars, layoutVars, part>>

\* States that differ only in the old bytes of slots no node uses count as one:
\* the code writes every field of a slot it allocates before it reads any.
LiveView ==
  <<t.root, t.len, t.free, dict, left, [i \in Range(visit_impl(t, t.root)) |-> t.pool[i]],
    layoutVars, part>>
=============================================================================
