------------------------------- MODULE Queue --------------------------------
(***************************************************************************)
(* algorithm/queue: a queue made of two stacks of adt/stack, used through  *)
(* what LIFO promises of them.  Queue_push wants everything in s1, the     *)
(* oldest at the bottom; Queue_pop wants everything in s2, the oldest on   *)
(* top.  Each first moves what lies on the other side, one element per     *)
(* round of its loop, ignoring what Stack_push returns.                    *)
(***************************************************************************)
EXTENDS Integers, Sequences

CONSTANTS
  Vals,   \* the integers callers push
  Cap     \* QUEUE_MAX

ASSUME CapPositive == Cap \in Nat \ {0}
ASSUME ValsAreInts == Vals \subseteq Int

VARIABLES
  s1, s2,
  pc,      \* "idle", "spill" (the loop of Queue_pop) or "refill" (Queue_push's)
  arg,     \* what Queue_push was called with
  result   \* what the last call returned

vars == <<s1, s2, pc, arg, result>>

S1 == INSTANCE LIFO WITH stack <- s1
S2 == INSTANCE LIFO WITH stack <- s2
TopOf(s) == s[Len(s)]

Init == s1 = <<>> /\ s2 = <<>> /\ pc = "idle" /\ arg = -1 /\ result = <<>>

PushAndReturn(e) ==
  \/ S1!Push(e) /\ result' = <<"push", TRUE>>
  \/ Len(s1) = Cap /\ UNCHANGED s1 /\ result' = <<"push", FALSE>>

Queue_pop ==
  /\ pc = "idle"
  /\ \/ S2!Pop /\ result' = <<"pop", TopOf(s2)>> /\ UNCHANGED <<s1, pc, arg>>
     \/ s2 = <<>> /\ s1 = <<>> /\ result' = <<"pop", -1>> /\ UNCHANGED <<s1, s2, pc, arg>>
     \/ s2 = <<>> /\ s1 # <<>> /\ pc' = "spill" /\ UNCHANGED <<s1, s2, arg, result>>

\* An element that Stack_push refused would be lost.
Spill ==
  /\ pc = "spill" /\ Len(s1) # 1
  /\ S1!Pop
  /\ IF Len(s2) = Cap THEN UNCHANGED s2 ELSE S2!Push(TopOf(s1))
  /\ UNCHANGED <<pc, arg, result>>

PopLast ==
  /\ pc = "spill" /\ Len(s1) = 1
  /\ S1!Pop /\ result' = <<"pop", TopOf(s1)>>
  /\ pc' = "idle"
  /\ UNCHANGED <<s2, arg>>

\* Slip: new elements go to s1 whatever s2 holds.
Queue_push_NoRefill(e) ==
  /\ pc = "idle" /\ PushAndReturn(e) /\ UNCHANGED <<s2, pc, arg>>
Queue_push(e) ==
  /\ pc = "idle"
  /\ \/ s1 # <<>> /\ PushAndReturn(e) /\ UNCHANGED <<pc, arg>>
     \/ s1 = <<>> /\ pc' = "refill" /\ arg' = e /\ UNCHANGED <<s1, result>>
  /\ UNCHANGED s2

Refill ==
  /\ pc = "refill"
  /\ S2!Pop
  /\ IF Len(s1) = Cap THEN UNCHANGED s1 ELSE S1!Push(TopOf(s2))
  /\ UNCHANGED <<pc, arg, result>>

PushLast ==
  /\ pc = "refill" /\ s2 = <<>>
  /\ PushAndReturn(arg)
  /\ pc' = "idle"
  /\ UNCHANGED <<s2, arg>>

\* What a call that has begun still does.
Goes == Spill \/ PopLast \/ Refill \/ PushLast

Next == Queue_pop \/ Goes \/ \E e \in Vals : Queue_push(e)

Spec == Init /\ [][Next]_vars

------------------------------------------------------------------------------
Backwards(s) == [i \in 1..Len(s) |-> s[Len(s) + 1 - i]]

Results == {<<>>} \cup ({"push"} \X BOOLEAN) \cup ({"pop"} \X (Vals \cup {-1}))

TypeOK ==
  /\ s1 \in Seq(Vals) /\ s2 \in Seq(Vals)
  /\ Len(s1) <= Cap /\ Len(s2) <= Cap
  /\ pc \in {"idle", "spill", "refill"}
  /\ arg \in Vals \cup {-1}
  /\ result \in Results

\* Between calls everything is in one stack, and the two together never hold
\* more than one can: that is why moving never meets a full stack.
OneSideHoldsAll ==
  /\ pc = "idle" => s1 = <<>> \/ s2 = <<>>
  /\ pc = "spill" => s1 # <<>>
  /\ pc = "refill" => arg \in Vals /\ Len(s1) + Len(s2) < Cap
  /\ Len(s1) + Len(s2) <= Cap /\ Len(s2) < Cap

\* Calls take and give elements in the order of a queue of QUEUE_MAX elements,
\* with no element lost, repeated or overtaken by a move: the queue is s1 from
\* its bottom up, then s2 from its top down (queue.c:13-43).
F == INSTANCE FIFO WITH queue <- s1 \o Backwards(s2)
ImplementsFIFO == F!Spec
=============================================================================
