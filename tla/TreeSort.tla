------------------------------ MODULE TreeSort -------------------------------
(***************************************************************************)
(* algorithm/treesort: the values are added to a binary search tree and    *)
(* read back from left to right.                                           *)
(***************************************************************************)
EXTENDS Integers, Sequences

NoTree == [val |-> "NULL"]
Node(val, l, r) == [val |-> <<val>>, l |-> l, r |-> r]

\* Slip: a value that is there already is not added again.
RECURSIVE add_Once(_, _)
add_Once(t, val) ==
  IF t = NoTree THEN Node(val, NoTree, NoTree)
  ELSE IF val < t.val[1] THEN [t EXCEPT !.l = add_Once(@, val)]
  ELSE IF val = t.val[1] THEN t ELSE [t EXCEPT !.r = add_Once(@, val)]
RECURSIVE add(_, _)
add(t, val) ==
  IF t = NoTree THEN Node(val, NoTree, NoTree)
  ELSE IF val < t.val[1] THEN [t EXCEPT !.l = add(@, val)]
  ELSE [t EXCEPT !.r = add(@, val)]

RECURSIVE toarr(_)
toarr(t) == IF t = NoTree THEN <<>> ELSE toarr(t.l) \o t.val \o toarr(t.r)

RECURSIVE AddAll(_, _)
AddAll(t, arr) == IF arr = <<>> THEN t ELSE AddAll(add(t, Head(arr)), Tail(arr))

Bintree_sort(arr) == toarr(AddAll(NoTree, arr))
=============================================================================
