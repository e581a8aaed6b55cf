-------------------------------- MODULE FIFO --------------------------------
(* What algorithm/queue promises: a bounded first-in first-out queue.         *)
EXTENDS Integers, Sequences

CONSTANTS Vals, Cap

VARIABLES
  queue,   \* oldest first
  result   \* what the last call returned

Init == queue = <<>> /\ result = <<>>

Enqueue(v) ==
  \/ Len(queue) < Cap /\ queue' = Append(queue, v) /\ result' = <<"push", TRUE>>
  \/ Len(queue) = Cap /\ UNCHANGED queue /\ result' = <<"push", FALSE>>

Dequeue ==
  \/ queue # <<>> /\ result' = <<"pop", Head(queue)>> /\ queue' = Tail(queue)
  \/ queue = <<>> /\ result' = <<"pop", -1>> /\ UNCHANGED queue

Next == Dequeue \/ \E v \in Vals : Enqueue(v)
Spec == Init /\ [][Next]_<<queue, result>>
=============================================================================
