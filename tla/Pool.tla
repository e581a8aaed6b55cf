-------------------------------- MODULE Pool --------------------------------
(* What algorithm/allocator promises its callers: a block is memory of its    *)
(* own, large enough, from Alloc_malloc to Alloc_free.                         *)
EXTENDS Integers

CONSTANTS Units, Requests, HeaderSize

VARIABLE used   \* blocks handed out: [block : address, units : length, bytes : asked for]

Apart(b, c) == b.block + b.units <= c.block \/ c.block + c.units <= b.block

Get(b) ==
  /\ b.block \in Units /\ b.block + b.units - 1 \in Units
  \* The first unit of a block is its header.
  /\ b.bytes <= (b.units - 1) * HeaderSize
  /\ \A c \in used : Apart(b, c)
  /\ used' = used \cup {b}
Put(b) == used' = used \ {b}

Init == used = {}
Next ==
  \/ \E at \in Units, n \in Units, bytes \in Requests :
       Get([block |-> at, units |-> n, bytes |-> bytes])
  \/ \E b \in used : Put(b)
Spec == Init /\ [][Next]_used
=============================================================================
