------------------------------- MODULE Stack --------------------------------
(***************************************************************************)
(* The stack of adt/stack over the caller's array, with the validators of  *)
(* validator.c, two of which remember the last value they accepted.        *)
(* `data' is kept beside `top' as in struct Stack: every operation has to  *)
(* move both.  A cell keeps its value when the stack shrinks below it.     *)
(***************************************************************************)
EXTENDS Integers, Sequences

CONSTANTS
  Vals,      \* the integers callers push
  Cap,       \* s->size
  Array,     \* what the caller's array holds before
  Validators,  \* of "none", "rang", "greater", "smaller": those stacks are made with
  RangMin, RangMax,
  Resets,    \* Resets[v]: the values callers pass to Stack_reset of a stack with v
  Moves      \* Moves[v]: the steps they pass to Stack_movesp

ASSUME ValsAssumption == Vals \subseteq Int
ASSUME ArrayAssumption == Cap \in Nat /\ Array \in [0..Cap - 1 -> Vals]
ASSUME CallersAssumption ==
  Resets \in [Validators -> SUBSET Vals] /\ Moves \in [Validators -> SUBSET Int]
ASSUME ValidatorsAssumption ==
  /\ Validators \subseteq {"none", "rang", "greater", "smaller"}
  /\ RangMin \in Int /\ RangMax \in Int

VARIABLES
  cells,   \* the array
  data,    \* s->data, as an index into cells
  top,     \* s->top
  validator,
  prev,    \* the validator's prev->val
  ret      \* what the last call returned; FALSE and NULL are Refused

vars == <<cells, data, top, validator, prev, ret>>

Refused == <<"refused">>
Done == <<"done">>
Got(v) == <<"got", v>>

Init ==
  /\ cells = Array /\ data = 0 /\ top = 0
  /\ validator \in Validators /\ prev \in Vals /\ ret = Done

is_full == top = Cap
Accepts(e) ==
  CASE validator = "none" -> TRUE
    [] validator = "rang" -> RangMin <= e /\ e <= RangMax
    [] validator = "greater" -> e >= prev
    [] validator = "smaller" -> e <= prev
\* Slip: the last accepted value is not stored.
Remember_Never(e) == UNCHANGED <<validator, prev>>
Remember(e) ==
  /\ prev' = IF validator \in {"greater", "smaller"} THEN e ELSE prev
  /\ UNCHANGED validator

Refuse == ret' = Refused /\ UNCHANGED <<cells, data, top, validator, prev>>

Stack_push(e) ==
  IF is_full \/ ~Accepts(e) THEN Refuse
  ELSE /\ cells' = [cells EXCEPT ![data] = e]
       /\ data' = data + 1
       /\ top' = top + 1
       /\ Remember(e)
       /\ ret' = Done

Stack_pop ==
  IF top = 0 THEN Refuse
  ELSE /\ top' = top - 1
       /\ data' = data - 1
       /\ ret' = Got(cells[data - 1])
       /\ UNCHANGED <<cells, validator, prev>>

\* Slip: the end of a full stack is reset as any other element.
Stack_reset_OnFull(idx, new) ==
  IF top <= idx \/ idx < 0 \/ ~Accepts(new) THEN Refuse
  ELSE /\ ret' = Got(cells[data - top + idx])
       /\ cells' = [cells EXCEPT ![data - top + idx] = new]
       /\ Remember(new)
       /\ UNCHANGED <<data, top>>
\* ret is *old.
Stack_reset(idx, new) ==
  IF top < idx \/ idx < 0 \/ is_full \/ ~Accepts(new) THEN Refuse
  ELSE LET pos == data - top + idx
       IN  /\ ret' = Got(cells[pos])
           /\ cells' = [cells EXCEPT ![pos] = new]
           /\ Remember(new)
           /\ IF top = idx THEN data' = data + 1 /\ top' = top + 1
                           ELSE UNCHANGED <<data, top>>

\* top + steps is compared with a size_t: a negative sum is larger than any size.
Stack_movesp(steps) ==
  IF top + steps >= Cap \/ top + steps < 0 THEN Refuse
  ELSE /\ data' = data + steps
       /\ top' = top + steps
       /\ ret' = Got(cells[data + steps])
       /\ UNCHANGED <<cells, validator, prev>>

Next ==
  \/ \E e \in Vals : Stack_push(e)
  \/ Stack_pop
  \/ \E new \in Resets[validator], idx \in 0..Cap : Stack_reset(idx, new)
  \/ \E steps \in Moves[validator] : Stack_movesp(steps)

Spec == Init /\ [][Next]_vars

------------------------------------------------------------------------------
(* Stack_top and Stack_bottom, which only read.                             *)

Stack_top == IF top = 0 THEN Refused ELSE Got(cells[data - 1])
Stack_bottom == IF top = 0 THEN Refused ELSE Got(cells[data - top])

Contents == [i \in 1..top |-> cells[i - 1]]

TypeOK ==
  /\ cells \in [0..Cap - 1 -> Vals]
  /\ top \in 0..Cap /\ validator \in Validators /\ prev \in Vals
  /\ (ret \in {Done, Refused} \/ \E v \in Vals : ret = Got(v))

\* The pointer and the counter agree after any calls, so that no operation
\* touches the array outside its bounds and the two ends of the stack are its
\* first and last cell (stack.c:28-30, 40-41, 88-94, 110-111).
DataFollowsTop ==
  /\ data = top
  /\ top > 0 => Stack_top = Got(Contents[top]) /\ Stack_bottom = Got(Contents[1])

\* The array stack does what LIFO promises, whatever calls are made.
L == INSTANCE LIFO WITH stack <- Contents
Implements == L!Spec

\* What the validators are for (main.c:19, 24).  A stack with int_rang over an
\* array in range holds values in range only, also after its top was moved up
\* over cells that were popped.  One with int_greater or int_smaller that is only
\* pushed and popped stays ordered, because the validator remembers the last
\* value accepted and not the top; Stack_reset below the top checks the new
\* value against that memory alone and breaks the order.
OnlyPushedAndPopped == Moves[validator] \subseteq {-1} /\ Resets[validator] = {}
ContentsValidated ==
  /\ (validator = "rang" /\ \A k \in 0..Cap - 1 : Array[k] \in RangMin..RangMax) =>
       \A i \in 1..top : Contents[i] \in RangMin..RangMax
  /\ OnlyPushedAndPopped =>
       \A i, j \in 1..top : i <= j =>
         /\ validator = "greater" => Contents[i] <= Contents[j] /\ Contents[j] <= prev
         /\ validator = "smaller" => Contents[i] >= Contents[j] /\ Contents[j] >= prev
=============================================================================
