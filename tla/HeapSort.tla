------------------------------ MODULE HeapSort -------------------------------
(***************************************************************************)
(* algorithm/heapsort: a heap in x[1..n-1], above a guard in x[0] that no  *)
(* element beats.  A heap is "max" (maxheap.c) or "min" (minheap.c); the   *)
(* two files differ in the direction of their comparisons only.            *)
(***************************************************************************)
EXTENDS Integers

Beats(kind, a, b) == IF kind = "max" THEN a > b ELSE a < b

\* x[last] rises past every parent it beats.
RECURSIVE siftup(_, _, _, _)
siftup(kind, x, i, t) ==
  IF Beats(kind, t, x[i \div 2]) THEN siftup(kind, [x EXCEPT ![i] = x[i \div 2]], i \div 2, t)
  ELSE [x EXCEPT ![i] = t]

\* The child of p that beats the other.
\* Slip: the left child is taken whatever the right one is.
Child_Left(kind, x, p, last) == 2 * p
Child(kind, x, p, last) ==
  IF 2 * p + 1 <= last /\ Beats(kind, x[2 * p + 1], x[2 * p]) THEN 2 * p + 1 ELSE 2 * p

\* t sinks from p, which is also the loop's c.  When no child beats t, t is stored
\* in the child c that was looked at last, and not in p; t was in the last leaf and
\* beats that child, which is lost.
RECURSIVE siftdown(_, _, _, _, _)
siftdown(kind, x, p, t, last) ==
  IF 2 * p > last THEN [x EXCEPT ![p] = t]
  ELSE LET c == Child(kind, x, p, last)
       IN  IF ~Beats(kind, x[c], t) THEN [x EXCEPT ![c] = t]
           ELSE siftdown(kind, [x EXCEPT ![p] = x[c]], c, t, last)

swap(x, i, j) == [x EXCEPT ![i] = x[j], ![j] = x[i]]
extract(kind, x, n) ==
  IF n <= 1 THEN x
  ELSE LET y == swap(x, 1, n) IN siftdown(kind, y, 1, y[1], n - 1)

RECURSIVE Build(_, _, _, _), Unload(_, _, _)
Build(kind, x, i, n) == IF i < n THEN Build(kind, siftup(kind, x, i, x[i]), i + 1, n) ELSE x
Unload(kind, x, i) == IF i >= 1 THEN Unload(kind, extract(kind, x, i), i - 1) ELSE x
\* Heap_ascendingsort of a max heap, Heap_descendingsort of a min heap.
Heap_sort(kind, x, n) == Unload(kind, Build(kind, x, 1, n), n - 1)
=============================================================================
