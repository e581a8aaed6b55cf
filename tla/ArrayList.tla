------------------------------ MODULE ArrayList ------------------------------
(***************************************************************************)
(* adt/arraylist: a list in an array of fixed size, indexed from either    *)
(* end.  A failed assertion aborts the program.                            *)
(***************************************************************************)
EXTENDS Integers, Sequences, SequencesExt

CONSTANTS Elements, NoElement, cap

ASSUME CapAssumption == cap \in Nat \ {0} /\ NoElement \notin Elements

VARIABLES
  data, size,   \* the array and what of it is in use
  aborted,
  kept          \* history: the list as a caller thinks of it

listVars == <<data, size, aborted, kept>>

IDX(idx) == IF idx < 0 THEN idx + size ELSE idx
Indices == -cap - 1..cap + 1

\* data after memmove(data+to, data+from, n), with what is written beyond the array.
Memmove(to, from, n) ==
  [k \in DOMAIN data \cup to..to + n - 1 |->
     IF k \in to..to + n - 1 THEN data[k - to + from] ELSE data[k]]

Passes(condition) == ~aborted /\ condition /\ UNCHANGED aborted
Fails(condition) == ~aborted /\ ~condition /\ aborted' = TRUE /\ UNCHANGED <<data, size, kept>>

ArrayList_new ==
  /\ data = [k \in 0..cap - 1 |-> NoElement] /\ size = 0
  /\ aborted = FALSE /\ kept = <<>>

ArrayList_put(e) ==
  \/ Fails(size < cap)
  \/ /\ Passes(size < cap)
     /\ data' = [data EXCEPT ![size] = e] /\ size' = size + 1
     /\ kept' = Append(kept, e)

\* The element it returns is ElementAt(i).
ArrayList_get(i) ==
  LET idx == IDX(i) IN
  \/ Fails(idx \in 0..size - 1)
  \/ Passes(idx \in 0..size - 1) /\ UNCHANGED <<data, size, kept>>
ElementAt(i) == data[IDX(i)]

ArrayList_remove(i) ==
  LET idx == IDX(i) IN
  \/ Fails(idx \in 0..size - 1)
  \/ /\ Passes(idx \in 0..size - 1)
     /\ data' = Memmove(idx, idx + 1, size - (idx + 1)) /\ size' = size - 1
     /\ kept' = RemoveAt(kept, idx + 1)

ArrayList_replace(i, e) ==
  LET idx == IDX(i) IN
  \/ Fails(idx \in 0..size - 1)
  \/ /\ Passes(idx \in 0..size - 1)
     /\ data' = [data EXCEPT ![idx] = e] /\ UNCHANGED size
     /\ kept' = ReplaceAt(kept, idx + 1, e)

\* Slip: the element behind the last one is moved too.
ArrayList_insert_at_Long(i, e) ==
  LET idx == IDX(i) IN
  \/ Fails(size < cap /\ idx \in 0..size)
  \/ /\ Passes(size < cap /\ idx \in 0..size)
     /\ data' = [Memmove(idx + 1, idx, size - idx + 1) EXCEPT ![idx] = e] /\ size' = size + 1
     /\ kept' = InsertAt(kept, idx + 1, e)
\* An index from the end is one of the list before the call: -1 inserts before the
\* last element, and nothing but size appends.
ArrayList_insert_at(i, e) ==
  LET idx == IDX(i) IN
  \/ Fails(size < cap /\ idx \in 0..size)
  \/ /\ Passes(size < cap /\ idx \in 0..size)
     /\ data' = [Memmove(idx + 1, idx, size - idx) EXCEPT ![idx] = e] /\ size' = size + 1
     /\ kept' = InsertAt(kept, idx + 1, e)

ListNext ==
  \E e \in Elements, i \in Indices :
    \/ ArrayList_put(e) \/ ArrayList_get(i) \/ ArrayList_remove(i)
    \/ ArrayList_replace(i, e) \/ ArrayList_insert_at(i, e)
ListSpec == ArrayList_new /\ [][ListNext]_listVars

ArrayList_indexof(e) ==
  LET found == {k \in 0..size - 1 : data[k] = e}
  IN  IF found = {} THEN -1 ELSE CHOOSE k \in found : \A l \in found : k <= l

------------------------------------------------------------------------------
\* Whatever has been put, inserted, replaced and removed, from either end, the array
\* holds the list in order, and reading it by an index or looking for an element
\* gives what it would in the list (arraylist.c:34-107): the moves shift the elements
\* behind the index, no more and no fewer, and never beyond the array.
ArrayHoldsList ==
  /\ size = Len(kept) /\ size <= cap /\ DOMAIN data = 0..cap - 1
  /\ \A i \in 1..size : data[i - 1] = kept[i] /\ ElementAt(i - 1 - size) = kept[i]
  /\ \A e \in Elements :
       LET k == ArrayList_indexof(e)
       IN  IF k = -1 THEN e \notin ToSet(kept)
           ELSE kept[k + 1] = e /\ e \notin ToSet(SubSeq(kept, 1, k))
=============================================================================
