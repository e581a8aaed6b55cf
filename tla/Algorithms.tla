----------------------------- MODULE Algorithms ------------------------------
(***************************************************************************)
(* The functions of PureFunctions, and the two sorts, called the same way. *)
(***************************************************************************)
EXTENDS PureFunctions, HeapSort, TreeSort, SequencesExt

CONSTANT Arrays   \* arrays to sort

\* Numbers below 1000 and above -1000, so that these are guards.
ASSUME ArraysAssumption == \A x \in Arrays : \A i \in DOMAIN x : x[i] \in -999..999

Cells(x) == [i \in 0..Len(x) - 1 |-> x[i + 1]]   \* a C array

AlgorithmsInit ==
  /\ \/ MakesCall
     \/ \E x \in Arrays :
          \/ \E kind \in {"max", "min"} : call = [f |-> "Heap_sort", kind |-> kind, arr |-> x]
          \/ call = [f |-> "Bintree_sort", arr |-> x]
  /\ answered = FALSE /\ reply = NoCall

\* The guard in x[0] is the caller's.
CallHeapSort ==
  /\ Called("Heap_sort")
  /\ LET guard == IF call.kind = "max" THEN 1000 ELSE -1000
         x == Cells(<<guard>> \o call.arr)
         y == Heap_sort(call.kind, x, Len(call.arr) + 1)
     IN  reply' = [i \in 1..Len(call.arr) |-> y[i]]
CallTreeSort == Called("Bintree_sort") /\ reply' = Bintree_sort(call.arr)

AlgorithmsNext == PureNext \/ CallHeapSort \/ CallTreeSort

------------------------------------------------------------------------------
Ordered(kind, x) ==
  \A i \in 1..Len(x) - 1 : IF kind = "max" THEN x[i] <= x[i + 1] ELSE x[i] >= x[i + 1]
SameValues(x, y) ==
  /\ Len(x) = Len(y)
  /\ \A i \in DOMAIN x :
       Cardinality({k \in DOMAIN x : x[k] = x[i]}) = Cardinality({k \in DOMAIN y : y[k] = x[i]})

\* The sorts order.  The tree keeps every value, however often it comes
\* (bintree_sort.c:31-69).  The heap does not: from three values on, an element that
\* sinks to a child it beats is stored over it (maxheap.c:25-30, minheap.c:25-30), so
\* all that can be said is that nothing comes out that was not put in, and that
\* arrays of two are sorted.
SortsOrder ==
  /\ Returned("Heap_sort") =>
       /\ Ordered(call.kind, reply)
       /\ ToSet(reply) \subseteq ToSet(call.arr)
       /\ Len(call.arr) <= 2 => SameValues(call.arr, reply)
  /\ Returned("Bintree_sort") => Ordered("max", reply) /\ SameValues(call.arr, reply)
=============================================================================
