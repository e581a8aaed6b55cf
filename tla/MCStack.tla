------------------------------ MODULE MCStack -------------------------------
(* Instances of Stack for TLC: an array of three cells that callers fill with *)
(* three integers, two of them negative or zero.                             *)
EXTENDS Stack

SmallVals == {-1, 0, 1}
Zeros == [i \in 0..Cap - 1 |-> 0]
\* Stacks without a validator and with int_rang see every call; the ordered ones
\* are pushed and popped.
AnyCall == [v \in Validators |-> IF v \in {"none", "rang"} THEN {-1, 1} ELSE {}]
AnyMove ==
  [v \in Validators |-> IF v \in {"none", "rang"} THEN {-2, -1, 0, 1, 2} ELSE {-1}]
=============================================================================
