-------------------------------- MODULE LIFO --------------------------------
(* What a caller of adt/stack is promised: a bounded stack.  Elements are     *)
(* only added and taken at the top; Stack_reset replaces one in place and     *)
(* Stack_movesp takes several or brings back what lies above the top.         *)
EXTENDS Naturals, Sequences

CONSTANTS Vals, Cap

VARIABLE stack   \* bottom first

Push(e) == Len(stack) < Cap /\ stack' = Append(stack, e)
Pop == stack # <<>> /\ stack' = SubSeq(stack, 1, Len(stack) - 1)
\* A full stack cannot be reset (stack.c:77).
Replace(i, e) ==
  i \in DOMAIN stack /\ Len(stack) < Cap /\ stack' = [stack EXCEPT ![i] = e]
Drop(k) == k \in 1..Len(stack) /\ stack' = SubSeq(stack, 1, Len(stack) - k)
\* The top cell of a full array is not reached this way.
Reveal(above) == Len(stack) + Len(above) < Cap /\ stack' = stack \o above

Init == stack = <<>>
Next ==
  \/ Pop
  \/ \E e \in Vals : Push(e)
  \/ \E e \in Vals, i \in 1..Cap : Replace(i, e)
  \/ \E k \in 1..Cap : Drop(k)
  \/ \E n \in 1..Cap : \E above \in [1..n -> Vals] : Reveal(above)

Spec == Init /\ [][Next]_stack
=============================================================================
