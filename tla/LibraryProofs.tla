---------------------------- MODULE LibraryProofs ----------------------------
(***************************************************************************)
(* Theorems about what other programs would take from the repository: the  *)
(* stack, for every array, set of values and validator, and the functions  *)
(* of PureFunctions (parse_url, pack and unpack, the two checksums and     *)
(* maxcomsubstr), for every input.  What those compute for a longer input  *)
(* from what they do for a shorter one is followed with ByStep.            *)
(***************************************************************************)
EXTENDS Stack, PureFunctions, SequenceTheorems, FunctionTheorems, FiniteSetTheorems,
        NaturalsInduction, WellFoundedInduction, TLAPS

------------------------------------------------------------------------------
(* The stack.                                                               *)

\* The type of every reachable state, with the pointer where the counter is.
StackInv == TypeOK /\ data = top

LEMMA StackInvInit == Init => StackInv
<1> SUFFICES ASSUME Init PROVE StackInv
  OBVIOUS
<1>1. cells \in [0..Cap - 1 -> Vals] /\ top \in 0..Cap /\ data = top
  BY ArrayAssumption DEF Init
<1>2. validator \in Validators /\ prev \in Vals /\ ret = Done
  BY DEF Init
<1> QED
  BY <1>1, <1>2 DEF StackInv, TypeOK

\* What is returned is refusal, success, or a value of the array.
LEMMA StackInvKept == StackInv /\ [Next]_vars => StackInv'
<1> SUFFICES ASSUME StackInv, [Next]_vars PROVE StackInv'
  OBVIOUS
<1> USE DEF StackInv, TypeOK
<1>1. Cap \in Nat
  BY ArrayAssumption
<1>2. ASSUME Refuse PROVE StackInv'
  BY <1>2 DEF Refuse
<1>3. ASSUME NEW e \in Vals, Stack_push(e), ~Refuse PROVE StackInv'
  <2>1. /\ cells' = [cells EXCEPT ![data] = e]
        /\ data' = data + 1 /\ top' = top + 1 /\ top # Cap
        /\ Remember(e) /\ ret' = Done
    BY <1>3 DEF Stack_push, is_full
  <2>2. prev' \in Vals /\ validator' \in Validators
    BY <2>1 DEF Remember
  <2> QED
    BY <1>1, <2>1, <2>2
<1>4. ASSUME Stack_pop, ~Refuse PROVE StackInv'
  <2>1. /\ top # 0 /\ top' = top - 1 /\ data' = data - 1
        /\ ret' = Got(cells[data - 1])
        /\ UNCHANGED <<cells, validator, prev>>
    BY <1>4 DEF Stack_pop
  <2>2. cells[data - 1] \in Vals
    BY <1>1, <2>1
  <2> QED
    BY <1>1, <2>1, <2>2
<1>5. ASSUME NEW idx \in 0..Cap, NEW new \in Vals, Stack_reset(idx, new), ~Refuse
      PROVE  StackInv'
  <2>1. /\ ~(top < idx) /\ top # Cap /\ Remember(new)
        /\ ret' = Got(cells[data - top + idx])
        /\ cells' = [cells EXCEPT ![data - top + idx] = new]
        /\ IF top = idx THEN data' = data + 1 /\ top' = top + 1 ELSE UNCHANGED <<data, top>>
    BY <1>5 DEF Stack_reset, is_full
  <2>2. data - top + idx = idx /\ idx \in 0..Cap - 1
    BY <1>1, <2>1
  <2>3. prev' \in Vals /\ validator' \in Validators
    BY <2>1 DEF Remember
  <2>4. cells[idx] \in Vals /\ cells' \in [0..Cap - 1 -> Vals] /\ ret' = Got(cells[idx])
    BY <2>1, <2>2
  <2>5. top' \in 0..Cap /\ data' = top'
    BY <1>1, <2>1
  <2> QED
    BY <2>3, <2>4, <2>5
<1>6. ASSUME NEW steps \in Int, Stack_movesp(steps), ~Refuse PROVE StackInv'
  <2>1. /\ ~(top + steps >= Cap) /\ ~(top + steps < 0)
        /\ data' = data + steps /\ top' = top + steps
        /\ ret' = Got(cells[data + steps])
        /\ UNCHANGED <<cells, validator, prev>>
    BY <1>6 DEF Stack_movesp
  <2>2. top + steps \in 0..Cap - 1
    BY <1>1, <2>1
  <2>3. cells[data + steps] \in Vals
    BY <2>2
  <2> QED
    BY <1>1, <2>1, <2>2, <2>3
<1>7. CASE UNCHANGED vars
  BY <1>7 DEF vars
<1>8. /\ \A new \in Resets[validator] : new \in Vals
      /\ \A steps \in Moves[validator] : steps \in Int
  BY CallersAssumption
<1> QED
  BY <1>2, <1>3, <1>4, <1>5, <1>6, <1>7, <1>8 DEF Next

LEMMA StackInvHolds == Spec => []StackInv
BY StackInvInit, StackInvKept, PTL DEF Spec

\* No call touches the array outside its bounds or returns what is not in it
\* (stack.c:28-30, 40-41, 82-111).
THEOREM TypeCorrect == Spec => []TypeOK
<1>1. StackInv => TypeOK
  BY DEF StackInv
<1> QED
  BY StackInvHolds, <1>1, PTL

\* Pointer and counter move together, so that both ends of the stack are found from
\* either (stack.c:40-41, 52-67).
THEOREM PointerFollows == Spec => []DataFollowsTop
<1>1. StackInv => DataFollowsTop
  <2> SUFFICES ASSUME StackInv PROVE DataFollowsTop
    OBVIOUS
  <2>1. ASSUME top > 0
        PROVE  Stack_top = Got(Contents[top]) /\ Stack_bottom = Got(Contents[1])
    <3>1. top \in 1..top /\ 1 \in 1..top /\ data - 1 = top - 1 /\ data - top = 0 /\ top # 0
      BY <2>1, ArrayAssumption DEF StackInv, TypeOK
    <3>2. Contents[top] = cells[top - 1] /\ Contents[1] = cells[0]
      BY <3>1 DEF Contents
    <3> QED
      BY <3>1, <3>2 DEF Stack_top, Stack_bottom
  <2> QED
    BY <2>1 DEF StackInv, DataFollowsTop
<1> QED
  BY StackInvHolds, <1>1, PTL

------------------------------------------------------------------------------
(* The array as a sequence.                                                 *)

LEMMA FunctionIsSeq ==
  ASSUME NEW m \in Nat, NEW f \in [1..m -> Vals]
  PROVE  f \in Seq(Vals) /\ Len(f) = m
OBVIOUS

\* The first n cells.
Held(c, n) == [i \in 1..n |-> c[i - 1]]
Arrays == [0..Cap - 1 -> Vals]

LEMMA CutSeq ==
  ASSUME NEW c \in Arrays, NEW n \in 0..Cap
  PROVE  /\ Held(c, n) \in Seq(Vals) /\ Len(Held(c, n)) = n
         /\ \A i \in 1..n : Held(c, n)[i] = c[i - 1]
<1>1. n \in Nat /\ \A i \in 1..n : i - 1 \in 0..Cap - 1
  BY ArrayAssumption
<1>2. \A i \in 1..n : c[i - 1] \in Vals
  BY <1>1 DEF Arrays
<1>3. Held(c, n) \in [1..n -> Vals]
  BY <1>2 DEF Held
<1>4. Held(c, n) \in Seq(Vals) /\ Len(Held(c, n)) = n
  BY <1>1, <1>3
<1> QED
  BY <1>4 DEF Held

LEMMA CutPush ==
  ASSUME NEW c \in Arrays, NEW n \in 0..Cap - 1, NEW e \in Vals
  PROVE  Held([c EXCEPT ![n] = e], n + 1) = Append(Held(c, n), e)
<1> DEFINE d == [c EXCEPT ![n] = e]
           s == Held(d, n + 1)
           t == Append(Held(c, n), e)
<1>1. d \in Arrays /\ n + 1 \in 0..Cap /\ n \in 0..Cap /\ n \in Nat
  BY ArrayAssumption DEF Arrays
<1>2. d[n] = e /\ \A i \in 0..n - 1 : d[i] = c[i]
  BY <1>1 DEF Arrays
<1>3. s \in Seq(Vals) /\ Len(s) = n + 1 /\ \A i \in 1..n + 1 : s[i] = d[i - 1]
  BY <1>1, CutSeq
<1>4. Held(c, n) \in Seq(Vals) /\ Len(Held(c, n)) = n /\ \A i \in 1..n : Held(c, n)[i] = c[i - 1]
  BY <1>1, CutSeq
<1>5. /\ t \in Seq(Vals) /\ Len(t) = n + 1 /\ t[n + 1] = e
      /\ \A i \in 1..n : t[i] = c[i - 1]
  BY <1>4, AppendProperties
<1> HIDE DEF d, s, t
<1>6. \A i \in 1..n + 1 : s[i] = t[i]
  <2> TAKE i \in 1..n + 1
  <2>1. CASE i = n + 1
    BY <1>1, <1>2, <1>3, <1>5, <2>1
  <2>2. CASE i \in 1..n
    <3>1. i - 1 \in 0..n - 1
      BY <1>1, <2>2
    <3> QED
      BY <1>2, <1>3, <1>5, <2>2, <3>1
  <2> QED
    BY <1>1, <2>1, <2>2
<1>7. s = t
  BY <1>3, <1>5, <1>6, SeqEqual
<1> QED
  BY <1>7 DEF d, s, t

LEMMA CutReplace ==
  ASSUME NEW c \in Arrays, NEW n \in 0..Cap, NEW k \in 0..n - 1, NEW e \in Vals
  PROVE  Held([c EXCEPT ![k] = e], n) = [Held(c, n) EXCEPT ![k + 1] = e]
<1>1. \A i \in 1..n : i - 1 \in 0..Cap - 1 /\ (i - 1 = k <=> i = k + 1)
  BY ArrayAssumption
<1>2. k \in 0..Cap - 1 /\ k + 1 \in 1..n
  BY ArrayAssumption
<1> QED
  BY <1>1, <1>2 DEF Held, Arrays

LEMMA CutDrop ==
  ASSUME NEW c \in Arrays, NEW n \in 0..Cap, NEW m \in 0..n
  PROVE  Held(c, m) = SubSeq(Held(c, n), 1, m)
<1>1. m \in 0..Cap /\ m \in Nat /\ n \in Nat /\ \A i \in 1..m : i \in 1..n
  BY ArrayAssumption
<1>2. /\ Held(c, n) \in Seq(Vals) /\ Held(c, m) \in Seq(Vals) /\ Len(Held(c, m)) = m
      /\ Len(Held(c, n)) = n
      /\ \A i \in 1..n : Held(c, n)[i] = c[i - 1]
      /\ \A i \in 1..m : Held(c, m)[i] = c[i - 1]
  BY <1>1, CutSeq
<1> DEFINE t == SubSeq(Held(c, n), 1, m)
<1>3. \A i \in 1..m : Held(c, n)[i] \in Vals
  BY <1>1, <1>2, ElementOfSeq
<1>4. /\ t \in Seq(Vals) /\ Len(t) = m
      /\ \A i \in 1..m : t[i] = Held(c, n)[i]
  <2>1. /\ t \in Seq(Vals)
        /\ Len(t) = IF 1 <= m THEN m - 1 + 1 ELSE 0
        /\ \A i \in 1..m - 1 + 1 : t[i] = Held(c, n)[1 + i - 1]
    BY <1>1, <1>3, SubSeqProperties
  <2> QED
    BY <1>1, <2>1
<1> QED
  BY <1>1, <1>2, <1>4, SeqEqual

LEMMA CutReveal ==
  ASSUME NEW c \in Arrays, NEW n \in Nat, NEW m \in Nat \ {0}, n + m <= Cap
  PROVE  \E above \in [1..m -> Vals] : Held(c, n + m) = Held(c, n) \o above
<1> DEFINE above == [j \in 1..m |-> c[n + j - 1]]
           s == Held(c, n + m)
           t == Held(c, n) \o above
<1>1. n \in 0..Cap /\ n + m \in 0..Cap /\ \A j \in 1..m : n + j - 1 \in 0..Cap - 1
  BY ArrayAssumption
<1>2. above \in [1..m -> Vals]
  BY <1>1 DEF Arrays
<1>3. above \in Seq(Vals) /\ Len(above) = m
  BY <1>2, FunctionIsSeq
<1>4. /\ Held(c, n) \in Seq(Vals) /\ Len(Held(c, n)) = n /\ s \in Seq(Vals) /\ Len(s) = n + m
      /\ \A i \in 1..n : Held(c, n)[i] = c[i - 1]
      /\ \A i \in 1..n + m : s[i] = c[i - 1]
  BY <1>1, CutSeq
<1>5. /\ t \in Seq(Vals) /\ Len(t) = n + m
      /\ \A i \in 1..n + m : t[i] = IF i <= n THEN Held(c, n)[i] ELSE above[i - n]
  BY <1>3, <1>4, ConcatProperties
<1>6. \A j \in 1..m : above[j] = c[n + j - 1]
  OBVIOUS
<1> HIDE DEF above, s, t
<1>7. \A i \in 1..n + m : s[i] = t[i]
  <2> TAKE i \in 1..n + m
  <2>1. CASE i <= n
    <3>1. i \in 1..n
      BY <2>1
    <3> QED
      BY <1>4, <1>5, <2>1, <3>1
  <2>2. CASE ~(i <= n)
    <3>1. i - n \in 1..m /\ n + (i - n) - 1 = i - 1
      BY <2>2
    <3> QED
      BY <1>4, <1>5, <1>6, <2>2, <3>1
  <2> QED
    BY <2>1, <2>2
<1>8. s = t
  BY <1>4, <1>5, <1>7, SeqEqual
<1>9. Held(c, n + m) = Held(c, n) \o above
  BY <1>8 DEF s, t
<1> QED
  BY <1>2, <1>9

------------------------------------------------------------------------------
(* The array stack is a bounded stack.                                      *)

LEMMA ContentsAreHeld == Contents = Held(cells, top) /\ Contents' = Held(cells', top')
BY DEF Contents, Held

LEMMA ContentsSeq ==
  StackInv => /\ cells \in Arrays /\ top \in 0..Cap /\ top \in Nat
              /\ Contents \in Seq(Vals) /\ Len(Contents) = top
BY CutSeq, ContentsAreHeld, ArrayAssumption DEF StackInv, TypeOK, Arrays

LEMMA PushRefines ==
  ASSUME StackInv, NEW e \in Vals, top # Cap,
         cells' = [cells EXCEPT ![top] = e], top' = top + 1
  PROVE  L!Push(e)
<1>1. top \in 0..Cap - 1
  BY ContentsSeq, ArrayAssumption
<1>2. Contents' = Append(Contents, e)
  BY <1>1, ContentsSeq, ContentsAreHeld, CutPush
<1>3. Len(Contents) < Cap
  BY <1>1, ContentsSeq, ArrayAssumption
<1> QED
  BY <1>2, <1>3 DEF L!Push

LEMMA DropRefines ==
  ASSUME StackInv, NEW k \in 1..top, cells' = cells, top' = top - k
  PROVE  Contents' = SubSeq(Contents, 1, Len(Contents) - k)
<1>1. top - k \in 0..top
  BY ContentsSeq
<1> QED
  BY <1>1, ContentsSeq, ContentsAreHeld, CutDrop

LEMMA StackStep == StackInv /\ [Next]_vars => [L!Next]_Contents
<1> SUFFICES ASSUME StackInv, [Next]_vars PROVE L!Next \/ Contents' = Contents
  OBVIOUS
<1>1. cells \in Arrays /\ top \in 0..Cap /\ top \in Nat /\ Cap \in Nat /\ data = top
  BY ContentsSeq, ArrayAssumption DEF StackInv
<1>2. ASSUME Refuse \/ UNCHANGED vars PROVE Contents' = Contents
  BY <1>2 DEF Refuse, vars, Contents
<1>3. ASSUME NEW e \in Vals, Stack_push(e), ~Refuse PROVE L!Next
  <2>1. top # Cap /\ cells' = [cells EXCEPT ![top] = e] /\ top' = top + 1
    BY <1>1, <1>3 DEF Stack_push, is_full
  <2>2. L!Push(e)
    BY <2>1, PushRefines
  <2> QED
    BY <2>2 DEF L!Next
<1>4. ASSUME Stack_pop, ~Refuse PROVE L!Next
  <2>1. 1 \in 1..top /\ cells' = cells /\ top' = top - 1
    BY <1>1, <1>4 DEF Stack_pop
  <2>2. Contents' = SubSeq(Contents, 1, Len(Contents) - 1)
    BY <2>1, DropRefines
  <2>3. Contents # <<>>
    BY <1>1, <2>1, ContentsSeq
  <2> QED
    BY <2>2, <2>3 DEF L!Next, L!Pop
<1>5. ASSUME NEW idx \in 0..Cap, NEW new \in Vals, Stack_reset(idx, new), ~Refuse
      PROVE  L!Next
  <2>1. /\ ~(top < idx) /\ top # Cap
        /\ cells' = [cells EXCEPT ![data - top + idx] = new]
        /\ IF top = idx THEN data' = data + 1 /\ top' = top + 1 ELSE UNCHANGED <<data, top>>
    BY <1>5 DEF Stack_reset, is_full
  <2>2. cells' = [cells EXCEPT ![idx] = new]
    <3>1. data - top + idx = idx
      BY <1>1
    <3> QED
      BY <2>1, <3>1
  <2>3. CASE top = idx
    <3>1. L!Push(new)
      BY <2>1, <2>2, <2>3, PushRefines
    <3> QED
      BY <3>1 DEF L!Next
  <2>4. CASE top # idx
    <3>1. idx \in 0..top - 1 /\ top' = top
      BY <1>1, <2>1, <2>4
    <3>2. Contents' = [Contents EXCEPT ![idx + 1] = new]
      <4>1. Contents' = Held([cells EXCEPT ![idx] = new], top)
        BY <2>2, <3>1, ContentsAreHeld
      <4>2. Held([cells EXCEPT ![idx] = new], top) = [Held(cells, top) EXCEPT ![idx + 1] = new]
        BY <1>1, <3>1, CutReplace
      <4> QED
        BY <4>1, <4>2, ContentsAreHeld
    <3>3. idx + 1 \in DOMAIN Contents /\ idx + 1 \in 1..Cap /\ Len(Contents) < Cap
      BY <1>1, <2>1, <3>1, ContentsSeq DEF Contents
    <3>4. L!Replace(idx + 1, new)
      BY <3>2, <3>3 DEF L!Replace
    <3> QED
      BY <3>3, <3>4 DEF L!Next
  <2> QED
    BY <2>3, <2>4
<1>6. ASSUME NEW steps \in Int, Stack_movesp(steps), ~Refuse
      PROVE  L!Next \/ Contents' = Contents
  <2>1. /\ top + steps < Cap /\ top + steps >= 0
        /\ cells' = cells /\ top' = top + steps
    BY <1>1, <1>6 DEF Stack_movesp
  <2>2. CASE steps = 0
    BY <1>1, <2>1, <2>2, ContentsAreHeld
  <2>3. CASE steps < 0
    <3>1. PICK k \in 1..top : k = -steps
      BY <1>1, <2>1, <2>3
    <3>2. top' = top - k /\ k \in 1..Cap
      BY <1>1, <2>1, <3>1
    <3>3. Contents' = SubSeq(Contents, 1, Len(Contents) - k)
      BY <2>1, <3>2, DropRefines
    <3>4. k \in 1..Len(Contents)
      BY ContentsSeq
    <3>5. L!Drop(k)
      BY <3>3, <3>4 DEF L!Drop
    <3> QED
      BY <3>2, <3>5 DEF L!Next
  <2>4. CASE steps > 0
    <3>1. steps \in Nat \ {0} /\ steps \in 1..Cap /\ top + steps <= Cap
      BY <1>1, <2>1, <2>4
    <3>2. PICK above \in [1..steps -> Vals] : Held(cells, top + steps) = Held(cells, top) \o above
      BY <1>1, <3>1, CutReveal
    <3>3. Contents' = Contents \o above
      BY <2>1, <3>2, ContentsAreHeld
    <3>4. Len(above) = steps
      BY <3>1, <3>2
    <3>5. L!Reveal(above)
      BY <1>1, <2>1, <3>3, <3>4, ContentsSeq DEF L!Reveal
    <3> QED
      BY <3>1, <3>5 DEF L!Next
  <2> QED
    BY <2>2, <2>3, <2>4
<1>8. /\ \A new \in Resets[validator] : new \in Vals
      /\ \A steps \in Moves[validator] : steps \in Int
  BY CallersAssumption DEF StackInv, TypeOK
<1> QED
  BY <1>2, <1>3, <1>4, <1>5, <1>6, <1>8 DEF Next

\* Whatever calls are made, the array stack does what LIFO promises.
THEOREM IsBoundedStack == Spec => Implements
<1>1. Init => L!Init
  BY DEF Init, L!Init, Contents
<1> QED
  BY <1>1, StackStep, StackInvHolds, PTL DEF Spec, Implements, L!Spec

------------------------------------------------------------------------------
(* What validators are for.                                                 *)

\* The whole array stays in range, the cells above the top included, because a call
\* can bring them back.
InRange ==
  (validator = "rang" /\ \A k \in 0..Cap - 1 : Array[k] \in RangMin..RangMax) =>
    \A k \in 0..Cap - 1 : cells[k] \in RangMin..RangMax
\* The cells below the top are in order, and none of them has passed the value the
\* validator remembers.
Ordered ==
  OnlyPushedAndPopped =>
    \A j, k \in 0..top - 1 : j <= k =>
      /\ validator = "greater" => cells[j] <= cells[k] /\ cells[k] <= prev
      /\ validator = "smaller" => cells[j] >= cells[k] /\ cells[k] >= prev

LEMMA ValidatedInit == Init => InRange /\ Ordered
<1> SUFFICES ASSUME Init PROVE InRange /\ Ordered
  OBVIOUS
<1>1. top = 0 /\ cells = Array
  BY DEF Init
<1>2. 0..top - 1 = {}
  BY <1>1
<1> QED
  BY <1>1, <1>2 DEF InRange, Ordered

\* Every call puts at most one value into the array, which the validator accepts.
LEMMA OneValue ==
  ASSUME StackInv, [Next]_vars
  PROVE  /\ validator' = validator
         /\ \/ cells' = cells
            \/ \E k \in 0..Cap - 1, e \in Vals : Accepts(e) /\ cells' = [cells EXCEPT ![k] = e]
<1> USE DEF StackInv, TypeOK
<1>1. ASSUME NEW e \in Vals, Stack_push(e), ~Refuse
      PROVE  /\ validator' = validator
             /\ \E k \in 0..Cap - 1 : Accepts(e) /\ cells' = [cells EXCEPT ![k] = e]
  <2>1. data \in 0..Cap - 1
    BY <1>1, ArrayAssumption DEF Stack_push, is_full
  <2>2. Accepts(e) /\ validator' = validator /\ cells' = [cells EXCEPT ![data] = e]
    BY <1>1 DEF Stack_push, Remember
  <2> QED
    BY <2>1, <2>2
<1>2. ASSUME NEW idx \in 0..Cap, NEW new \in Vals, Stack_reset(idx, new), ~Refuse
      PROVE  /\ validator' = validator
             /\ \E k \in 0..Cap - 1 : Accepts(new) /\ cells' = [cells EXCEPT ![k] = new]
  <2>1. ~(top < idx) /\ top # Cap /\ Accepts(new) /\ validator' = validator
        /\ cells' = [cells EXCEPT ![data - top + idx] = new]
    BY <1>2 DEF Stack_reset, Remember, is_full
  <2>2. data - top + idx \in 0..Cap - 1
    BY <2>1, ArrayAssumption
  <2> QED
    BY <2>1, <2>2
<1>3. ASSUME \/ Refuse \/ Stack_pop \/ UNCHANGED vars
             \/ \E steps \in Moves[validator] : Stack_movesp(steps)
      PROVE  validator' = validator /\ cells' = cells
  BY <1>3 DEF Refuse, Stack_pop, Stack_movesp, vars
<1>4. \A new \in Resets[validator] : new \in Vals
  BY CallersAssumption
<1> QED
  BY <1>1, <1>2, <1>3, <1>4 DEF Next

LEMMA RangeKept == StackInv /\ InRange /\ [Next]_vars => InRange'
<1> SUFFICES ASSUME StackInv, InRange, [Next]_vars,
                    validator' = "rang", \A k \in 0..Cap - 1 : Array[k] \in RangMin..RangMax
             PROVE  \A k \in 0..Cap - 1 : cells'[k] \in RangMin..RangMax
  BY DEF InRange
<1>1. validator = "rang" /\ cells \in Arrays
  BY OneValue DEF StackInv, TypeOK, Arrays
<1>2. \A k \in 0..Cap - 1 : cells[k] \in RangMin..RangMax
  BY <1>1 DEF InRange
<1>3. \A e \in Vals : Accepts(e) => e \in RangMin..RangMax
  BY <1>1, ValsAssumption, ValidatorsAssumption DEF Accepts
<1>4. ASSUME NEW k \in 0..Cap - 1, NEW e \in Vals, Accepts(e), cells' = [cells EXCEPT ![k] = e]
      PROVE  \A j \in 0..Cap - 1 : cells'[j] \in RangMin..RangMax
  BY <1>1, <1>2, <1>3, <1>4 DEF Arrays
<1> QED
  BY <1>2, <1>4, OneValue

LEMMA Below ==
  ASSUME NEW m \in Int, NEW n \in Int, m <= n, NEW a \in 0..m - 1
  PROVE  a \in 0..n - 1
OBVIOUS

LEMMA OrderKept == StackInv /\ Ordered /\ [Next]_vars => Ordered'
<1> SUFFICES ASSUME StackInv, Ordered, [Next]_vars, OnlyPushedAndPopped',
                    NEW j \in 0..top' - 1, NEW k \in 0..top' - 1, j <= k
             PROVE  /\ validator' = "greater" => cells'[j] <= cells'[k] /\ cells'[k] <= prev'
                    /\ validator' = "smaller" => cells'[j] >= cells'[k] /\ cells'[k] >= prev'
  BY DEF Ordered
<1> USE DEF StackInv, TypeOK
<1>1. validator' = validator /\ OnlyPushedAndPopped
  BY OneValue DEF OnlyPushedAndPopped
<1>2. /\ Resets[validator] = {} /\ Moves[validator] \subseteq {-1}
      /\ \A a, b \in 0..top - 1 : a <= b =>
           /\ validator = "greater" => cells[a] <= cells[b] /\ cells[b] <= prev
           /\ validator = "smaller" => cells[a] >= cells[b] /\ cells[b] >= prev
  BY <1>1 DEF Ordered, OnlyPushedAndPopped
<1>3. CASE UNCHANGED <<cells, prev>> /\ top' <= top /\ top' \in Nat
  <2>1. j \in 0..top - 1 /\ k \in 0..top - 1
    <3>1. top \in Int /\ top' \in Int
      BY <1>3, ArrayAssumption
    <3> QED
      BY <1>3, <3>1, Below
  <2> QED
    BY <1>1, <1>2, <1>3, <2>1
<1>4. ASSUME Refuse \/ Stack_pop \/ UNCHANGED vars
      PROVE  UNCHANGED <<cells, prev>> /\ top' <= top /\ top' \in Nat
  BY <1>4, ArrayAssumption DEF Refuse, Stack_pop, vars
<1>5. ASSUME Stack_movesp(-1)
      PROVE  UNCHANGED <<cells, prev>> /\ top' <= top /\ top' \in Nat
  <2>1. CASE Refuse
    BY <1>4, <2>1
  <2>2. CASE ~Refuse
    BY <1>5, <2>2, ArrayAssumption DEF Stack_movesp
  <2> QED
    BY <2>1, <2>2
<1>6. ASSUME NEW e \in Vals, Stack_push(e), ~Refuse,
             validator \in {"greater", "smaller"}
      PROVE  /\ validator = "greater" => cells'[j] <= cells'[k] /\ cells'[k] <= prev'
             /\ validator = "smaller" => cells'[j] >= cells'[k] /\ cells'[k] >= prev'
  <2>1. /\ cells' = [cells EXCEPT ![top] = e] /\ top' = top + 1 /\ top # Cap
        /\ Accepts(e) /\ prev' = e
    BY <1>6 DEF Stack_push, Remember, is_full
  <2>2. /\ top \in 0..Cap - 1 /\ e \in Int /\ prev \in Int
        /\ \A a \in 0..Cap - 1 : cells[a] \in Int
    <3>1. top \in 0..Cap - 1
      BY <2>1, ArrayAssumption
    <3>2. \A a \in 0..Cap - 1 : cells[a] \in Vals
      OBVIOUS
    <3> QED
      BY <3>1, <3>2, ValsAssumption
  <2>3. /\ validator = "greater" => prev <= e
        /\ validator = "smaller" => prev >= e
    BY <2>1, <2>2 DEF Accepts
  <2>4. /\ cells'[top] = e
        /\ \A a \in 0..top - 1 : cells'[a] = cells[a] /\ cells[a] \in Int
    <3>1. \A a \in 0..top - 1 : a \in 0..Cap - 1 /\ a # top
      BY <2>2, ArrayAssumption
    <3>2. cells'[top] = e /\ \A a \in 0..Cap - 1 : a # top => cells'[a] = cells[a]
      BY <2>1, <2>2
    <3> QED
      BY <2>2, <3>1, <3>2
  <2>5. \A a \in 0..top - 1 :
          /\ validator = "greater" => cells[a] <= e
          /\ validator = "smaller" => cells[a] >= e
    <3> TAKE a \in 0..top - 1
    <3>1. a <= a
      BY <2>2
    <3>2. /\ validator = "greater" => cells[a] <= prev
          /\ validator = "smaller" => cells[a] >= prev
      BY <1>2, <3>1
    <3> QED
      BY <2>2, <2>3, <2>4, <3>2
  <2>6. CASE k = top
    <3>1. j = top \/ j \in 0..top - 1
      BY <2>2, <2>6
    <3> QED
      BY <2>1, <2>2, <2>4, <2>5, <2>6, <3>1
  <2>7. CASE k # top
    <3>1. j \in 0..top - 1 /\ k \in 0..top - 1
      BY <2>1, <2>2, <2>7
    <3> QED
      BY <1>2, <2>1, <2>4, <2>5, <3>1
  <2> QED
    BY <2>6, <2>7
<1>7. \/ Refuse \/ Stack_pop \/ UNCHANGED vars \/ Stack_movesp(-1)
      \/ \E e \in Vals : Stack_push(e) /\ ~Refuse
  BY <1>2 DEF Next
<1> QED
  BY <1>1, <1>3, <1>4, <1>5, <1>6, <1>7

\* A stack with int_rang holds values in range only; one with int_greater or
\* int_smaller that is only pushed and popped stays ordered (validator.c:3-35).
THEOREM Validated == Spec => []ContentsValidated
<1>1. StackInv /\ InRange /\ Ordered => ContentsValidated
  <2> SUFFICES ASSUME StackInv, InRange, Ordered PROVE ContentsValidated
    OBVIOUS
  <2>1. \A i \in 1..top : i - 1 \in 0..top - 1 /\ i - 1 \in 0..Cap - 1 /\ Contents[i] = cells[i - 1]
    BY ArrayAssumption DEF StackInv, TypeOK, Contents
  <2>2. \A i, j \in 1..top : i <= j => i - 1 <= j - 1
    BY ArrayAssumption DEF StackInv, TypeOK
  <2> QED
    BY <2>1, <2>2 DEF InRange, Ordered, ContentsValidated
<1> QED
  BY <1>1, StackInvHolds, StackInvKept, StackInvInit, ValidatedInit, RangeKept, OrderKept, PTL
  DEF Spec

------------------------------------------------------------------------------
(* Taking a url apart.                                                      *)

\* The two parts of a sequence that was put together.
LEMMA PutTogether ==
  ASSUME NEW S, NEW a \in Seq(S), NEW b \in Seq(S)
  PROVE  SubSeq(a \o b, 1, Len(a)) = a /\ From(a \o b, Len(a) + 1) = b
  <1> DEFINE s == a \o b
  <1>1. /\ Len(a) \in Nat /\ Len(b) \in Nat
        /\ \A i \in 1..Len(a) : a[i] \in S
        /\ \A i \in 1..Len(b) : b[i] \in S
    OBVIOUS
  <1>2. /\ s \in Seq(S) /\ Len(s) = Len(a) + Len(b)
        /\ \A i \in 1..Len(a) + Len(b) : s[i] = IF i <= Len(a) THEN a[i] ELSE b[i - Len(a)]
    BY ConcatProperties
  <1>3. \A i \in 1..Len(s) : s[i] \in S
    BY <1>2
  <1> HIDE DEF s
  <1>4. SubSeq(s, 1, Len(a)) = a
    <2> DEFINE t == SubSeq(s, 1, Len(a))
    <2>1. /\ t \in Seq(S) /\ Len(t) = IF 1 <= Len(a) THEN Len(a) - 1 + 1 ELSE 0
          /\ \A i \in 1..Len(a) - 1 + 1 : t[i] = s[1 + i - 1]
      <3>1. 1 \in Int /\ Len(a) \in Int /\ \A i \in 1..Len(a) : s[i] \in S
        BY <1>1, <1>2, <1>3
      <3> QED
        BY <3>1, SubSeqProperties
    <2> HIDE DEF t
    <2>2. Len(t) = Len(a)
      BY <1>1, <2>1
    <2>3. ASSUME NEW i \in 1..Len(t) PROVE t[i] = a[i]
      <3>1. t[i] = s[1 + i - 1] /\ 1 + i - 1 = i /\ i <= Len(a) /\ i \in 1..Len(a) + Len(b)
        BY <1>1, <2>1, <2>2
      <3> QED
        BY <1>2, <3>1
    <2>4. t = a
      BY <2>1, <2>2, <2>3, SeqEqual
    <2> QED
      BY <2>4 DEF t
  <1>5. From(s, Len(a) + 1) = b
    <2> DEFINE m == Len(a) + 1
               t == SubSeq(s, m, Len(s))
    <2>0. m \in Int /\ Len(s) \in Int /\ m = Len(a) + 1
      BY <1>1, <1>2
    <2>1. /\ t \in Seq(S) /\ Len(t) = IF m <= Len(s) THEN Len(s) - m + 1 ELSE 0
          /\ \A i \in 1..Len(s) - m + 1 : t[i] = s[m + i - 1]
      <3>1. \A i \in m..Len(s) : s[i] \in S
        BY <1>1, <1>2, <1>3
      <3> HIDE DEF m
      <3> QED
        BY <2>0, <3>1, SubSeqProperties
    <2> HIDE DEF t, m
    <2>2. Len(t) = Len(b)
      BY <1>1, <1>2, <2>0, <2>1
    <2>3. ASSUME NEW i \in 1..Len(t) PROVE t[i] = b[i]
      <3>1. i \in 1..Len(s) - m + 1
        BY <1>1, <1>2, <2>0, <2>2
      <3>2. t[i] = s[m + i - 1]
        BY <2>1, <3>1
      <3>3. /\ m + i - 1 \in 1..Len(a) + Len(b) /\ ~(m + i - 1 <= Len(a))
            /\ (m + i - 1) - Len(a) = i
        BY <1>1, <2>0, <2>2
      <3> QED
        BY <1>2, <3>2, <3>3
    <2>4. t = b
      BY <2>1, <2>2, <2>3, SeqEqual
    <2> QED
      BY <2>4 DEF t, m, From
  <1> QED
    BY <1>4, <1>5 DEF s

\* Where the first x is.
LEMMA FirstIs ==
  ASSUME NEW S, NEW s \in Seq(S), NEW x, NEW i \in 1..Len(s) + 1,
         i <= Len(s) => s[i] = x, \A j \in 1..i - 1 : s[j] # x
  PROVE  First(s, x) = i
  <1> DEFINE Is(k) == (k <= Len(s) => s[k] = x) /\ \A j \in 1..k - 1 : s[j] # x
  <1>1. Is(i)
    OBVIOUS
  <1>2. Len(s) \in Nat
    OBVIOUS
  <1>3. \A k \in 1..Len(s) + 1 : Is(k) => k = i
    <2> SUFFICES ASSUME NEW k \in 1..Len(s) + 1, Is(k), k # i PROVE FALSE
      OBVIOUS
    <2>1. CASE k < i
      <3>1. k \in 1..i - 1 /\ k <= Len(s)
        BY <1>2, <2>1
      <3> QED
        BY <3>1
    <2>2. CASE i < k
      <3>1. i \in 1..k - 1 /\ i <= Len(s)
        BY <1>2, <2>2
      <3> QED
        BY <3>1
    <2> QED
      BY <2>1, <2>2
  <1>4. First(s, x) = CHOOSE k \in 1..Len(s) + 1 : Is(k)
    BY DEF First
  <1> HIDE DEF Is
  <1> QED
    BY <1>1, <1>3, <1>4

LEMMA FirstAfter ==
  ASSUME NEW S, NEW a \in Seq(S), NEW b \in Seq(S), NEW x \in S, ~Has(a, x)
  PROVE  /\ First(a \o <<x>> \o b, x) = Len(a) + 1
         /\ First(a, x) = Len(a) + 1
  <1> DEFINE s == a \o <<x>> \o b
  <1>1. /\ s \in Seq(S) /\ Len(s) = Len(a) + 1 + Len(b) /\ Len(a) \in Nat /\ Len(b) \in Nat
        /\ \A i \in 1..Len(a) : s[i] = a[i]
        /\ s[Len(a) + 1] = x
    <2>1. /\ a \o <<x>> \in Seq(S) /\ Len(a \o <<x>>) = Len(a) + 1
          /\ \A i \in 1..Len(a) : (a \o <<x>>)[i] = a[i]
          /\ (a \o <<x>>)[Len(a) + 1] = x
      OBVIOUS
    <2> DEFINE t == a \o <<x>>
    <2> HIDE DEF t
    <2>2. t \in Seq(S) /\ Len(t) = Len(a) + 1 /\ Len(a) \in Nat /\ Len(b) \in Nat
      BY <2>1 DEF t
    <2>3. /\ t \o b \in Seq(S) /\ Len(t \o b) = Len(t) + Len(b)
          /\ \A i \in 1..Len(t) + Len(b) : (t \o b)[i] = IF i <= Len(t) THEN t[i] ELSE b[i - Len(t)]
      BY <2>2, ConcatProperties
    <2>4. \A i \in 1..Len(t) : (t \o b)[i] = t[i]
      BY <2>2, <2>3
    <2>5. (t \o b)[Len(a) + 1] = x /\ \A i \in 1..Len(a) : (t \o b)[i] = a[i]
      BY <2>1, <2>2, <2>4 DEF t
    <2> QED
      BY <2>2, <2>3, <2>5 DEF t
  <1> HIDE DEF s
  <1>2. \A i \in 1..Len(a) : a[i] # x
    BY DEF Has
  <1>3. First(s, x) = Len(a) + 1
    <2>1. ASSUME NEW i, i = Len(a) + 1 PROVE First(s, x) = i
      <3>1. i \in 1..Len(s) + 1 /\ \A j \in 1..i - 1 : s[j] # x
        BY <1>1, <1>2, <2>1
      <3>2. s \in Seq(S) /\ (i <= Len(s) => s[i] = x)
        BY <1>1, <2>1
      <3> QED
        BY <3>1, <3>2, FirstIs
    <2> QED
      BY <2>1
  <1>4. First(a, x) = Len(a) + 1
    <2>1. /\ Len(a) + 1 \in 1..Len(a) + 1 /\ (Len(a) + 1 <= Len(a) => a[Len(a) + 1] = x)
          /\ \A j \in 1..(Len(a) + 1) - 1 : a[j] # x
      BY <1>1, <1>2
    <2> HIDE DEF s
    <2> QED
      BY <2>1, FirstIs
  <1> QED
    BY <1>3, <1>4 DEF s

LEMMA BeginsWith ==
  ASSUME NEW S, NEW q \in Seq(S), q # <<>>
  PROVE  Tail(q) \in Seq(S) /\ q[1] \in S /\ q = <<q[1]>> \o Tail(q)
  <1>1. Len(q) \in Nat /\ 1 \in 1..Len(q) /\ Len(q) \in 1..Len(q) /\ Tail(q) \in Seq(S)
        /\ q[1] \in S
    BY EmptySeq, HeadTailProperties
  <1>2. SubSeq(q, 1, Len(q)) = <<q[1]>> \o SubSeq(q, 2, Len(q))
    <2>1. SubSeq(q, 1, Len(q)) = <<q[1]>> \o SubSeq(q, 1 + 1, Len(q))
      BY <1>1, SubSeqRecursiveFirst
    <2> QED
      BY <2>1
  <1>3. SubSeq(q, 1, Len(q)) = q /\ Tail(q) = SubSeq(q, 2, Len(q))
    BY SubSeqFull, TailIsSubSeq
  <1> QED
    BY <1>1, <1>2, <1>3

\* A url with a port, from its hostname on.
LEMMA PortFound ==
  ASSUME NEW S, ":" \in S, "/" \in S,
         NEW h \in Seq(S), NEW q \in Seq(S), NEW n \in S,
         ~Has(h, ":"), n # "/", q = <<>> \/ q[1] = "/"
  PROVE  /\ Has(h \o <<":", n>> \o q, ":")
         /\ WithPort(h \o <<":", n>> \o q) = Parts(h, <<n>>, q)
  <1> DEFINE c == <<":">>
             nn == <<n>>
             after == nn \o q
             s == h \o c \o after
  <1>0. /\ c \in Seq(S) /\ nn \in Seq(S) /\ <<":", n>> = c \o nn
        /\ Len(c) = 1 /\ Len(nn) = 1 /\ Len(h) \in Nat /\ after \in Seq(S)
    OBVIOUS
  <1>1. h \o <<":", n>> \o q = s
    <2> HIDE DEF c, nn
    <2>1. /\ h \o c \in Seq(S) /\ h \o (c \o nn) = (h \o c) \o nn
      BY <1>0, ConcatAssociative, ConcatProperties
    <2>2. ((h \o c) \o nn) \o q = (h \o c) \o (nn \o q)
      BY <1>0, <2>1, ConcatAssociative
    <2> QED
      BY <1>0, <2>1, <2>2
  <1>2. First(s, ":") = Len(h) + 1
    <2> HIDE DEF after
    <2> QED
      BY <1>0, FirstAfter
  <1>3. SubSeq(s, 1, Len(h)) = h
    <2> HIDE DEF c, after
    <2>1. c \o after \in Seq(S)
      BY <1>0, ConcatProperties
    <2>2. (h \o c) \o after = h \o (c \o after)
      BY SMTT(30), <1>0, ConcatAssociative
    <2>3. SubSeq(h \o (c \o after), 1, Len(h)) = h
      BY <2>1, PutTogether
    <2> QED
      BY <2>2, <2>3
  <1>4. From(s, Len(h) + 2) = after
    <2> HIDE DEF after, c
    <2>1. h \o c \in Seq(S) /\ Len(h \o c) = Len(h) + 1
      BY <1>0, ConcatProperties
    <2>2. From(s, Len(h \o c) + 1) = after
      BY <1>0, <2>1, PutTogether
    <2>3. Len(h \o c) + 1 = Len(h) + 2
      BY <1>0, <2>1
    <2> QED
      BY <2>2, <2>3
  <1>5. First(after, "/") = 2
    <2>1. ~Has(nn, "/")
      BY DEF Has
    <2>2. CASE q = <<>>
      <3>1. after = nn
        BY <1>0, <2>2, ConcatEmptySeq
      <3>2. <<>> \in Seq(S) /\ "/" \in S
        OBVIOUS
      <3> HIDE DEF nn, after
      <3>3. First(nn, "/") = Len(nn) + 1
        BY <1>0, <2>1, <3>2, FirstAfter
      <3> QED
        BY <1>0, <3>1, <3>3
    <2>3. CASE q # <<>>
      <3>1. q = <<"/">> \o Tail(q) /\ Tail(q) \in Seq(S)
        BY <2>3, BeginsWith
      <3>2. <<"/">> \in Seq(S) /\ "/" \in S
        OBVIOUS
      <3> HIDE DEF nn
      <3>3. after = nn \o <<"/">> \o Tail(q)
        BY <1>0, <3>1, <3>2, ConcatAssociative
      <3> HIDE DEF after
      <3>4. First(nn \o <<"/">> \o Tail(q), "/") = Len(nn) + 1
        BY <1>0, <2>1, <3>1, <3>2, FirstAfter
      <3> QED
        BY <1>0, <3>3, <3>4
    <2> QED
      BY <2>2, <2>3
  <1>6. SubSeq(after, 1, 1) = nn /\ From(after, 2) = q
    <2> HIDE DEF nn
    <2>1. SubSeq(after, 1, Len(nn)) = nn /\ From(after, Len(nn) + 1) = q
      BY <1>0, PutTogether
    <2> QED
      BY <1>0, <2>1
  <1>7. Has(s, ":")
    <2> HIDE DEF after, c
    <2>1. h \o c \in Seq(S) /\ Len(h \o c) = Len(h) + 1 /\ (h \o c)[Len(h) + 1] = ":"
      BY <1>0 DEF c
    <2> DEFINE hc == h \o c
    <2> HIDE DEF hc
    <2>2. /\ Len(hc \o after) = Len(hc) + Len(after) /\ Len(after) \in Nat
          /\ \A i \in 1..Len(hc) + Len(after) :
               (hc \o after)[i] = IF i <= Len(hc) THEN hc[i] ELSE after[i - Len(hc)]
      <3>1. hc \in Seq(S) /\ after \in Seq(S)
        BY <1>0, <2>1 DEF hc
      <3> QED
        BY <3>1, ConcatProperties
    <2>3. Len(h) + 1 \in 1..Len(s) /\ s[Len(h) + 1] = ":"
      BY <1>0, <2>1, <2>2 DEF hc
    <2> QED
      BY <2>3 DEF Has
  <1> HIDE DEF s, after
  <1>8. WithPort(s) = Parts(h, nn, q)
    <2>1. /\ First(s, ":") + 1 = Len(h) + 2 /\ First(s, ":") - 1 = Len(h)
      BY <1>0, <1>2
    <2>2. From(s, First(s, ":") + 1) = after /\ SubSeq(s, 1, First(s, ":") - 1) = h
      BY <1>3, <1>4, <2>1
    <2>3. SubSeq(after, 1, First(after, "/") - 1) = nn
      BY <1>5, <1>6
    <2>4. From(after, First(after, "/")) = q /\ First(after, "/") # 1
      BY <1>5, <1>6
    <2> QED
      BY <2>2, <2>3, <2>4 DEF WithPort
  <1> QED
    BY <1>1, <1>7, <1>8

\* One without.
LEMMA PortMissing ==
  ASSUME NEW S, ":" \in S, "/" \in S, NEW h \in Seq(S), NEW q \in Seq(S),
         ~Has(h, ":"), ~Has(h, "/"), ~Has(q, ":"), q = <<>> \/ q[1] = "/"
  PROVE  /\ ~Has(h \o <<>> \o q, ":")
         /\ q = <<>> => WithoutPort(h \o <<>> \o q) = Parts(<<"0">>, <<>>, <<>>)
         /\ q # <<>> => WithoutPort(h \o <<>> \o q) = Parts(h, DefaultPort, q)
  <1> DEFINE s == h \o q
  <1>1. h \o <<>> \o q = s
    BY ConcatEmptySeq
  <1>2. /\ Len(h) \in Nat /\ Len(q) \in Nat /\ Len(s) = Len(h) + Len(q)
        /\ \A i \in 1..Len(h) + Len(q) : s[i] = IF i <= Len(h) THEN h[i] ELSE q[i - Len(h)]
    BY ConcatProperties
  <1>3. SubSeq(s, 1, Len(h)) = h /\ From(s, Len(h) + 1) = q
    BY PutTogether
  <1>4. q = <<>> => s = h
    BY ConcatEmptySeq
  <1>5. q # <<>> => First(s, "/") = Len(h) + 1
    <2> SUFFICES ASSUME q # <<>> PROVE First(s, "/") = Len(h) + 1
      OBVIOUS
    <2>1. q = <<"/">> \o Tail(q) /\ Tail(q) \in Seq(S)
      BY BeginsWith
    <2>2. <<"/">> \in Seq(S) /\ "/" \in S
      OBVIOUS
    <2>3. s = h \o <<"/">> \o Tail(q)
      BY <2>1, <2>2, ConcatAssociative
    <2>4. First(h \o <<"/">> \o Tail(q), "/") = Len(h) + 1
      BY <2>1, FirstAfter
    <2> QED
      BY <2>3, <2>4
  <1> HIDE DEF s
  <1>6. ASSUME NEW i \in 1..Len(s), s[i] = ":" PROVE FALSE
    <2>1. CASE i <= Len(h)
      BY <1>2, <1>6, <2>1 DEF Has
    <2>2. CASE ~(i <= Len(h))
      <3>1. i - Len(h) \in 1..Len(q) /\ s[i] = q[i - Len(h)]
        BY <1>2, <2>2
      <3> QED
        BY <1>6, <3>1 DEF Has
    <2> QED
      BY <2>1, <2>2
  <1>7. CASE q = <<>>
    BY <1>1, <1>4, <1>6, <1>7 DEF Has, WithoutPort
  <1>8. CASE q # <<>>
    <2>1. Has(s, "/")
      <3>1. Len(h) + 1 \in 1..Len(s) /\ s[Len(h) + 1] = q[1]
        BY <1>2, <1>8, EmptySeq
      <3> QED
        BY <1>8, <3>1 DEF Has
    <2>2. First(s, "/") - 1 = Len(h)
      BY <1>2, <1>5, <1>8
    <2>3. WithoutPort(s) = Parts(h, DefaultPort, q)
      BY <1>3, <1>5, <1>8, <2>1, <2>2 DEF WithoutPort
    <2> QED
      BY <1>1, <1>6, <1>8, <2>3 DEF Has
  <1> QED
    BY <1>7, <1>8

\* "://" by its three parts.
LEMMA ThreeParts ==
  ASSUME NEW S, NEW s \in Seq(S), NEW i \in 1..Len(s) - 2
  PROVE  SubSeq(s, i, i + 2) = <<":", "/", "/">> <=>
           s[i] = ":" /\ s[i + 1] = "/" /\ s[i + 2] = "/"
  <1> DEFINE t == SubSeq(s, i, i + 2)
             n == i + 2
  <1>1. /\ t \in Seq(S) /\ Len(t) = 3 /\ t[1] = s[i] /\ t[2] = s[i + 1] /\ t[3] = s[i + 2]
    <2>1. /\ i \in Int /\ n \in Int /\ n = i + 2 /\ Len(s) \in Nat
          /\ \A j \in i..n : s[j] \in S
      OBVIOUS
    <2> HIDE DEF n
    <2>2. /\ SubSeq(s, i, n) \in Seq(S)
          /\ Len(SubSeq(s, i, n)) = IF i <= n THEN n - i + 1 ELSE 0
          /\ \A j \in 1..n - i + 1 : SubSeq(s, i, n)[j] = s[i + j - 1]
      BY <2>1, SubSeqProperties
    <2>3. n - i + 1 = 3 /\ i <= n /\ i + 1 - 1 = i /\ i + 2 - 1 = i + 1 /\ i + 3 - 1 = i + 2
      BY <2>1
    <2> QED
      BY SMTT(30), <2>2, <2>3 DEF n
  <1> HIDE DEF t
  <1>2. ASSUME t[1] = ":", t[2] = "/", t[3] = "/" PROVE t = <<":", "/", "/">>
    BY <1>1, <1>2
  <1>3. ASSUME t = <<":", "/", "/">> PROVE t[1] = ":" /\ t[2] = "/" /\ t[3] = "/"
    BY ONLY <1>3
  <1>4. t = <<":", "/", "/">> <=> s[i] = ":" /\ s[i + 1] = "/" /\ s[i + 2] = "/"
    <2> HIDE DEF n
    <2> QED
      BY <1>1, <1>2, <1>3
  <1> QED
    BY <1>4 DEF t

\* What is at each place of a hostname, a port and a query.
LEMMA Places ==
  ASSUME NEW S, NEW h \in Seq(S), NEW p \in Seq(S), NEW q \in Seq(S)
  PROVE  /\ h \o p \o q \in Seq(S) /\ Len(h \o p \o q) = Len(h) + Len(p) + Len(q)
         /\ Len(h) \in Nat /\ Len(p) \in Nat /\ Len(q) \in Nat
         /\ \A i \in 1..Len(h) + Len(p) + Len(q) :
              (h \o p \o q)[i] = IF i <= Len(h) THEN h[i]
                                 ELSE IF i <= Len(h) + Len(p) THEN p[i - Len(h)]
                                 ELSE q[i - (Len(h) + Len(p))]
  <1> DEFINE t == h \o p
  <1>1. /\ t \in Seq(S) /\ Len(t) = Len(h) + Len(p)
        /\ \A i \in 1..Len(h) + Len(p) : t[i] = IF i <= Len(h) THEN h[i] ELSE p[i - Len(h)]
    BY ConcatProperties
  <1> HIDE DEF t
  <1>2. /\ t \o q \in Seq(S) /\ Len(t \o q) = Len(t) + Len(q)
        /\ \A i \in 1..Len(t) + Len(q) : (t \o q)[i] = IF i <= Len(t) THEN t[i] ELSE q[i - Len(t)]
    <2>1. t \in Seq(S)
      BY <1>1
    <2> QED
      BY <2>1, ConcatProperties
  <1>3. Len(h) \in Nat /\ Len(p) \in Nat /\ Len(q) \in Nat
    OBVIOUS
  <1>4. ASSUME NEW i \in 1..Len(h) + Len(p) + Len(q)
        PROVE  (t \o q)[i] = IF i <= Len(h) THEN h[i]
                             ELSE IF i <= Len(h) + Len(p) THEN p[i - Len(h)]
                             ELSE q[i - (Len(h) + Len(p))]
    <2>1. CASE i <= Len(h) + Len(p)
      BY <1>1, <1>2, <1>3, <2>1
    <2>2. CASE ~(i <= Len(h) + Len(p))
      BY <1>1, <1>2, <1>3, <2>2
    <2> QED
      BY <2>1, <2>2
  <1> QED
    BY <1>1, <1>2, <1>3, <1>4 DEF t

\* Without a scheme "://" is found only in the query.
LEMMA NoScheme ==
  ASSUME NEW S, NEW h \in Seq(S), NEW p \in Seq(S), NEW q \in Seq(S), ~Has(h, ":"),
         p = <<>> \/ (Len(p) = 2 /\ p[2] # ":" /\ p[2] # "/"), ~HasScheme(q)
  PROVE  ~HasScheme(h \o p \o q)
  <1> DEFINE s == h \o p \o q
             k == Len(h) + Len(p)
  <1>1. /\ s \in Seq(S) /\ Len(s) = k + Len(q)
        /\ Len(h) \in Nat /\ Len(p) \in Nat /\ Len(q) \in Nat /\ k \in Nat
        /\ \A i \in 1..k + Len(q) :
             s[i] = IF i <= Len(h) THEN h[i] ELSE IF i <= k THEN p[i - Len(h)] ELSE q[i - k]
    BY Places
  <1>2. k = Len(h) + Len(p)
    OBVIOUS
  <1>3. p = <<>> => Len(p) = 0
    OBVIOUS
  <1> HIDE DEF s, k
  <1> SUFFICES ASSUME NEW i \in 1..Len(s) - 2, SubSeq(s, i, i + 2) = <<":", "/", "/">>
               PROVE  FALSE
    BY DEF HasScheme, s
  <1>4. s[i] = ":" /\ s[i + 1] = "/" /\ s[i + 2] = "/"
    BY <1>1, ThreeParts
  <1>5. CASE i <= Len(h)
    <2>1. i \in 1..k + Len(q) /\ i \in 1..Len(h)
      BY <1>1, <1>2, <1>5
    <2>2. s[i] = h[i]
      BY <1>1, <1>5, <2>1
    <2> QED
      BY <1>4, <2>1, <2>2 DEF Has
  <1>6. CASE ~(i <= Len(h)) /\ i <= k
    <2>1. Len(p) = 2 /\ p[2] # ":" /\ p[2] # "/"
      BY <1>1, <1>2, <1>3, <1>6
    <2>2. i = Len(h) + 1 \/ i = Len(h) + 2
      BY <1>1, <1>2, <1>6, <2>1
    <2>3. CASE i = Len(h) + 1
      <3>1. /\ i + 1 \in 1..k + Len(q) /\ ~(i + 1 <= Len(h)) /\ i + 1 <= k
            /\ (i + 1) - Len(h) = 2
        BY <1>1, <1>2, <2>1, <2>3
      <3>2. s[i + 1] = p[2]
        BY <1>1, <3>1
      <3> QED
        BY <1>4, <2>1, <3>2
    <2>4. CASE i = Len(h) + 2
      <3>1. i \in 1..k + Len(q) /\ i - Len(h) = 2
        BY <1>1, <1>2, <2>1, <2>4
      <3>2. s[i] = p[2]
        BY <1>1, <1>6, <3>1
      <3> QED
        BY <1>4, <2>1, <3>2
    <2> QED
      BY <2>2, <2>3, <2>4
  <1>7. CASE ~(i <= k)
    <2> DEFINE j == i - k
    <2>1. /\ j \in 1..Len(q) - 2 /\ i \in 1..k + Len(q) /\ i + 1 \in 1..k + Len(q)
          /\ i + 2 \in 1..k + Len(q) /\ ~(i <= Len(h)) /\ ~(i + 1 <= Len(h))
          /\ ~(i + 2 <= Len(h)) /\ ~(i + 1 <= k) /\ ~(i + 2 <= k)
          /\ (i + 1) - k = j + 1 /\ (i + 2) - k = j + 2
      BY <1>1, <1>2, <1>7
    <2>2. s[i] = q[j] /\ s[i + 1] = q[j + 1] /\ s[i + 2] = q[j + 2]
      BY <1>1, <1>7, <2>1
    <2> HIDE DEF j
    <2>3. SubSeq(q, j, j + 2) = <<":", "/", "/">>
      BY SMTT(30), <1>4, <2>1, <2>2, ThreeParts
    <2> QED
      BY <2>1, <2>3 DEF HasScheme
  <1> QED
    BY <1>5, <1>6, <1>7

\* With a scheme before it, the rest of a url begins at its fifth part.
LEMMA SchemeFound ==
  ASSUME NEW S, NEW c \in Seq(S), NEW rest \in Seq(S),
         Len(c) = 4, Tail(c) = <<":", "/", "/">>
  PROVE  /\ HasScheme(c \o rest) /\ From(c \o rest, 5) = rest
         /\ IsHttp(c \o rest) <=> c[1] = "http"
  <1> DEFINE s == c \o rest
  <1>1. /\ s \in Seq(S) /\ Len(s) = 4 + Len(rest) /\ Len(rest) \in Nat
        /\ \A i \in 1..4 : s[i] = c[i]
    <2>1. /\ s \in Seq(S) /\ Len(s) = Len(c) + Len(rest)
          /\ \A i \in 1..Len(c) + Len(rest) :
               s[i] = IF i <= Len(c) THEN c[i] ELSE rest[i - Len(c)]
      BY ConcatProperties
    <2>2. Len(rest) \in Nat
      OBVIOUS
    <2> QED
      BY <2>1, <2>2
  <1>2. c[2] = ":" /\ c[3] = "/" /\ c[4] = "/"
    <2>1. \A i \in 1..3 : Tail(c)[i] = c[i + 1]
      OBVIOUS
    <2> DEFINE t == Tail(c)
    <2>2. t = <<":", "/", "/">>
      OBVIOUS
    <2>3. t[1] = ":" /\ t[2] = "/" /\ t[3] = "/"
      <3> HIDE DEF t
      <3> QED
        BY ONLY <2>2
    <2> HIDE DEF t
    <2>4. \A i \in 1..3 : t[i] = c[i + 1]
      BY <2>1 DEF t
    <2>5. t[1] = c[1 + 1] /\ t[2] = c[2 + 1] /\ t[3] = c[3 + 1]
      BY <2>4
    <2> QED
      BY <2>3, <2>5
  <1>3. SubSeq(s, 1, 4) = c /\ From(s, 5) = rest
    <2>1. SubSeq(s, 1, Len(c)) = c /\ From(s, Len(c) + 1) = rest
      BY PutTogether
    <2> QED
      BY <2>1
  <1> HIDE DEF s
  <1>4. HasScheme(s)
    <2>1. 2 \in 1..Len(s) - 2
      BY <1>1
    <2>2. s[2] = ":" /\ s[2 + 1] = "/" /\ s[2 + 2] = "/"
      BY <1>1, <1>2
    <2>3. SubSeq(s, 2, 2 + 2) = <<":", "/", "/">>
      BY <1>1, <2>1, <2>2, ThreeParts
    <2> QED
      BY <2>1, <2>3 DEF HasScheme
  <1>5. c[1] = "http" => c = <<"http", ":", "/", "/">>
    BY <1>2
  <1>6. IsHttp(s) <=> c[1] = "http"
    <2>1. IsHttp(s) <=> c = <<"http", ":", "/", "/">>
      <3>1. Len(s) >= 4
        BY <1>1
      <3>2. SubSeq(s, 1, 4) = c
        BY <1>3
      <3> HIDE DEF s
      <3> QED
        BY <3>1, <3>2, ZenonT(30) DEF IsHttp
    <2> QED
      BY <1>5, <2>1
  <1> QED
    BY <1>3, <1>4, <1>6 DEF s

\* Every url is taken apart as UrlParsed says.
LEMMA UrlTakenApart == \A u \in Addresses : TakenApart(u, parse_url(Url(u)))
  <1> SUFFICES ASSUME NEW u \in Addresses PROVE TakenApart(u, parse_url(Url(u)))
    OBVIOUS
  <1> DEFINE S == STRING \cup {":", "/"}
             c == u.scheme
             h == u.hostname
             p == u.port
             q == u.query
             rest == h \o p \o q
             Known == (Has(q, ":") => p # <<>>) /\ (HasScheme(q) => c # <<>>)
             Parsed == IF Has(rest, ":") THEN WithPort(rest) ELSE WithoutPort(rest)
  <1>1. /\ c = <<>> \/ (Len(c) = 4 /\ Tail(c) = <<":", "/", "/">> /\ c \in Seq(S))
        /\ h \in Seq(S) /\ ~Has(h, ":") /\ ~Has(h, "/")
        /\ p = <<>> \/ (/\ Len(p) = 2 /\ p[1] = ":" /\ p \in Seq(S)
                        /\ p[2] # ":" /\ p[2] # "/" /\ p[2] \in S)
        /\ q \in Seq(S) /\ (q = <<>> \/ q[1] = "/")
        /\ ":" \in S /\ "/" \in S
    <2>1. \A s \in Seq(STRING) : s \in Seq(S)
      OBVIOUS
    <2>2. <<>> \in Seq(S)
      OBVIOUS
    <2> HIDE DEF S
    <2>3. /\ c = <<>> \/ (Len(c) = 4 /\ Tail(c) = <<":", "/", "/">> /\ c \in Seq(S))
          /\ h \in Seq(S) /\ ~Has(h, ":") /\ ~Has(h, "/")
          /\ q \in Seq(S) /\ (q = <<>> \/ q[1] = "/")
      BY <2>1, <2>2, AddressesAssumption
    <2>4. p = <<>> \/ (/\ Len(p) = 2 /\ p[1] = ":" /\ p \in Seq(S)
                       /\ p[2] # ":" /\ p[2] # "/")
      BY <2>1, AddressesAssumption
    <2>5. ASSUME p # <<>> PROVE p[2] \in S
      BY <2>4, <2>5
    <2>6. ":" \in S /\ "/" \in S
      BY DEF S
    <2> QED
      BY <2>3, <2>4, <2>5, <2>6
  <1> HIDE DEF S, c, h, p, q
  <1>2. /\ q = <<>> => Parsed.query = <<>> /\ (p = <<>> => Parsed.hostname = <<"0">>)
        /\ q # <<>> /\ (Has(q, ":") => p # <<>>) =>
             /\ Parsed.hostname = h /\ Parsed.query = q
             /\ Parsed.port = IF p = <<>> THEN DefaultPort ELSE Tail(p)
    <2>1. CASE p # <<>>
      <3> DEFINE n == p[2]
      <3>1. p = <<":", n>> /\ n \in S /\ n # "/"
        BY <1>1, <2>1
      <3>2. Tail(p) = <<n>>
        <4> HIDE DEF n
        <4>1. Tail(<<":", n>>) = <<n>>
          OBVIOUS
        <4> QED
          BY <3>1, <4>1
      <3> HIDE DEF n
      <3>3. Has(h \o <<":", n>> \o q, ":") /\ WithPort(h \o <<":", n>> \o q) = Parts(h, <<n>>, q)
        BY <1>1, <3>1, PortFound
      <3>4. Parsed = Parts(h, <<n>>, q)
        BY <3>1, <3>3
      <3> HIDE DEF Parsed
      <3> QED
        BY <2>1, <3>2, <3>4 DEF Parts
    <2>2. CASE p = <<>> /\ ~Has(q, ":")
      <3>1. /\ ~Has(h \o <<>> \o q, ":")
            /\ q = <<>> => WithoutPort(h \o <<>> \o q) = Parts(<<"0">>, <<>>, <<>>)
            /\ q # <<>> => WithoutPort(h \o <<>> \o q) = Parts(h, DefaultPort, q)
        <4>1. /\ ":" \in S /\ "/" \in S /\ h \in Seq(S) /\ q \in Seq(S)
              /\ ~Has(h, ":") /\ ~Has(h, "/") /\ (q = <<>> \/ q[1] = "/")
          BY <1>1
        <4> QED
          BY <2>2, <4>1, PortMissing
      <3>2. /\ q = <<>> => Parsed = Parts(<<"0">>, <<>>, <<>>)
            /\ q # <<>> => Parsed = Parts(h, DefaultPort, q)
        BY <2>2, <3>1
      <3> HIDE DEF Parsed
      <3> QED
        BY <2>2, <3>2 DEF Parts
    <2>3. q = <<>> => ~Has(q, ":")
      BY DEF Has
    <2> HIDE DEF Parsed
    <2> QED
      BY <2>1, <2>2, <2>3
  <1>3. Url(u) = c \o rest /\ (c = <<>> => Url(u) = rest) /\ c \in Seq(S) /\ p \in Seq(S)
        /\ rest \in Seq(S)
    <2>0. <<>> \in Seq(S)
      OBVIOUS
    <2>1. c \in Seq(S) /\ p \in Seq(S) /\ h \in Seq(S) /\ q \in Seq(S)
      BY <1>1, <2>0
    <2>2. Url(u) = ((c \o h) \o p) \o q
      BY DEF Url, c, h, p, q
    <2>3. /\ c \o h \in Seq(S) /\ h \o p \in Seq(S) /\ (h \o p) \o q \in Seq(S)
      BY <2>1, ConcatProperties
    <2>4. (c \o h) \o p = c \o (h \o p)
      BY SMTT(30), <2>1, ConcatAssociative
    <2>5. (c \o (h \o p)) \o q = c \o ((h \o p) \o q)
      BY SMTT(30), <2>1, <2>3, ConcatAssociative
    <2>6. c = <<>> => c \o rest = rest
      BY <2>3, ConcatEmptySeq
    <2> QED
      BY <2>1, <2>2, <2>3, <2>4, <2>5, <2>6
  <1>4. c = <<>> /\ ~HasScheme(q) => ~HasScheme(rest)
    BY <1>1, <1>3, NoScheme
  <1>5. q = <<>> => ~HasScheme(q)
    BY DEF HasScheme
  <1>6. c # <<>> => /\ HasScheme(Url(u)) /\ From(Url(u), 5) = rest
                    /\ IsHttp(Url(u)) <=> c[1] = "http"
    <2> HIDE DEF rest
    <2> SUFFICES ASSUME c # <<>>
                 PROVE  /\ HasScheme(c \o rest) /\ From(c \o rest, 5) = rest
                        /\ IsHttp(c \o rest) <=> c[1] = "http"
      BY <1>3
    <2>1. Len(c) = 4 /\ Tail(c) = <<":", "/", "/">>
      BY <1>1
    <2> QED
      BY <1>3, <2>1, SchemeFound
  <1> HIDE DEF rest
  <1>7. CASE c # <<>> /\ c[1] # "http"
    <2>1. parse_url(Url(u)) = Parts(<<>>, <<>>, <<>>)
      BY <1>6, <1>7 DEF parse_url
    <2>2. parse_url(Url(u)).hostname = <<>> /\ parse_url(Url(u)).query = <<>>
      BY <2>1 DEF Parts
    <2> QED
      BY <1>7, <2>2 DEF TakenApart, c
  <1>8. CASE (c = <<>> /\ ~HasScheme(rest)) \/ (c # <<>> /\ c[1] = "http")
    <2>1. parse_url(Url(u)) = Parsed
      BY <1>3, <1>6, <1>8 DEF parse_url
    <2> HIDE DEF Parsed
    <2> QED
      BY <1>2, <1>8, <2>1 DEF TakenApart, c, h, p, q
  <1>9. CASE c = <<>> /\ HasScheme(q) /\ q # <<>>
    BY <1>9 DEF TakenApart, c, q
  <1> QED
    BY <1>4, <1>5, <1>7, <1>8, <1>9

------------------------------------------------------------------------------
(* Functions that are computed from one number to the next.                 *)

\* A set of naturals has a least one.
LEMMA LeastOf ==
  ASSUME NEW N \in Nat, NEW T, T \subseteq 0..N, T # {}
  PROVE  \E k \in T : \A j \in T : k <= j
  <1>1. T \subseteq Nat
    OBVIOUS
  <1>2. \E x \in T : \A y \in T : ~ (<<y, x>> \in OpToRel(<, Nat))
    BY <1>1, NatLessThanWellFounded, WFMin, Zenon
  <1>3. \A x, y \in T : ~ (<<y, x>> \in OpToRel(<, Nat)) => x <= y
    BY <1>1 DEF OpToRel
  <1> QED
    BY <1>2, <1>3

\* What holds at first, and after each step if it did before, holds throughout.
LEMMA ByStep ==
  ASSUME NEW N \in Nat, NEW S, 0 \in S, \A k \in 1..N : k - 1 \in S => k \in S
  PROVE  \A k \in 0..N : k \in S
  <1> DEFINE T == {k \in 0..N : k \notin S}
  <1> SUFFICES ASSUME T # {} PROVE FALSE
    OBVIOUS
  <1>1. PICK k \in T : \A j \in T : k <= j
    <2>1. T \subseteq 0..N
      OBVIOUS
    <2> HIDE DEF T
    <2> QED
      BY <2>1, LeastOf
  <1>2. k \in 1..N /\ k - 1 \in 0..N /\ k - 1 \notin T
    BY <1>1
  <1> QED
    BY <1>1, <1>2

\* There is a function that starts at z and takes each step.
Takes(w, D, z, step, N) ==
  w \in [0..N -> D] /\ w[0] = z /\ \A k \in 1..N : w[k] = step[k][w[k - 1]]

LEMMA CanBeTaken ==
  ASSUME NEW N \in Nat, NEW D, NEW z \in D, NEW step \in [1..N -> [D -> D]]
  PROVE  \E w : Takes(w, D, z, step, N)
  <1> DEFINE Taken(m) ==
               \E w \in [0..m -> D] : w[0] = z /\ \A k \in 1..m : w[k] = step[k][w[k - 1]]
             T == {m \in 0..N : Taken(m)}
  <1>1. 0 \in T
    <2>1. /\ [k \in 0..0 |-> z] \in [0..0 -> D] /\ [k \in 0..0 |-> z][0] = z
          /\ \A k \in 1..0 : [i \in 0..0 |-> z][k] = step[k][[i \in 0..0 |-> z][k - 1]]
      OBVIOUS
    <2>2. Taken(0)
      BY <2>1
    <2> QED
      BY <2>2
  <1>2. ASSUME NEW m \in 1..N, m - 1 \in T PROVE m \in T
    <2>1. PICK w \in [0..m - 1 -> D] :
            w[0] = z /\ \A k \in 1..m - 1 : w[k] = step[k][w[k - 1]]
      BY <1>2
    <2> DEFINE v == [k \in 0..m |-> IF k < m THEN w[k] ELSE step[m][w[m - 1]]]
    <2>2. v \in [0..m -> D] /\ v[0] = z
      <3>1. step[m] \in [D -> D] /\ w[m - 1] \in D
        OBVIOUS
      <3> QED
        BY <2>1, <3>1
    <2>3. ASSUME NEW k \in 1..m PROVE v[k] = step[k][v[k - 1]]
      BY <2>1
    <2>4. Taken(m)
      BY <2>2, <2>3
    <2> QED
      BY <2>4
  <1> HIDE DEF T
  <1>3. \A m \in 0..N : m \in T
    BY <1>1, <1>2, ByStep
  <1>4. N \in T
    BY <1>3
  <1> QED
    BY <1>4 DEF T, Takes

------------------------------------------------------------------------------
(* Packing.                                                                 *)

Byte == 0..255
Halves == [ext : {"zeros", "ones", "other"}, hi : Half, lo : Half]

\* What comes back of a value: a long of 2^31 on with its upper half full of ones.
CameBack(f, v) ==
  CASE f = "c" -> Ulong("zeros", 0, v.lo % 256)
    [] f = "s" -> Ulong("zeros", 0, v.lo)
    [] f = "l" -> Ulong(IF v.hi < 32768 THEN "zeros" ELSE "ones", v.hi, v.lo)

\* What a letter takes of a value has its width, and comes back as CameBack says.
LEMMA OnePacked ==
  ASSUME NEW f \in FmtLetters, NEW v \in Halves
  PROVE  /\ PackOne(f, v) \in Seq(Byte) /\ Len(PackOne(f, v)) = Width(f)
         /\ Width(f) \in 1..4 /\ UnpackOne(f, PackOne(f, v)) = CameBack(f, v)
  <1>1. v.lo \in Half /\ v.hi \in Half
    BY DEF Halves
  <1>2. ASSUME NEW h \in Half
        PROVE  /\ High(h) \in Byte /\ Low(h) \in Byte /\ High(h) * 256 + Low(h) = h
               /\ High(h) >= 128 <=> ~(h < 32768)
    <2>1. h \in Int /\ 0 <= h /\ h < 65536
      BY DEF Half
    <2>2. High(h) = h \div 256 /\ Low(h) = h % 256
      BY DEF High, Low
    <2>3. High(h) \in Int /\ Low(h) \in 0..255
      BY <2>1, <2>2
    <2>4. High(h) * 256 + Low(h) = h
      BY <2>1 DEF High, Low
    <2>5. High(h) \in Byte /\ Low(h) \in Byte /\ (High(h) >= 128 <=> ~(h < 32768))
      <3>1. ASSUME NEW q \in Int, NEW r \in 0..255, q * 256 + r = h
            PROVE  q \in 0..255 /\ (q >= 128 <=> ~(h < 32768))
        BY ONLY SMTT(30), <2>1, <3>1
      <3>2. High(h) \in 0..255 /\ (High(h) >= 128 <=> ~(h < 32768))
        BY SMTT(30), <2>3, <2>4, <3>1
      <3> QED
        BY <2>3, <3>2 DEF Byte
    <2> QED
      BY <2>4, <2>5
  <1>3. CASE f = "c"
    <2> DEFINE b == <<Low(v.lo)>>
    <2>1. PackOne(f, v) = b /\ Width(f) = 1
      BY <1>3 DEF PackOne, Width
    <2>2. b[1] = Low(v.lo) /\ Len(b) = 1 /\ b \in Seq(Byte)
      BY <1>1, <1>2
    <2> HIDE DEF b
    <2>3. UnpackOne(f, b) = Ulong("zeros", 0, Low(v.lo))
      BY <1>3, <2>2 DEF UnpackOne
    <2>4. CameBack(f, v) = Ulong("zeros", 0, Low(v.lo))
      BY <1>3 DEF CameBack, Low
    <2> QED
      BY <2>1, <2>2, <2>3, <2>4
  <1>4. CASE f = "s"
    <2> DEFINE b == <<High(v.lo), Low(v.lo)>>
    <2>1. PackOne(f, v) = b /\ Width(f) = 2
      BY <1>4 DEF PackOne, Width
    <2>2. b[1] = High(v.lo) /\ b[2] = Low(v.lo) /\ Len(b) = 2 /\ b \in Seq(Byte)
      BY <1>1, <1>2
    <2> HIDE DEF b
    <2>3. UnpackOne(f, b) = Ulong("zeros", 0, v.lo)
      BY <1>1, <1>2, <1>4, <2>2 DEF UnpackOne
    <2>4. CameBack(f, v) = Ulong("zeros", 0, v.lo)
      BY <1>4 DEF CameBack
    <2> QED
      BY <2>1, <2>2, <2>3, <2>4
  <1>5. CASE f = "l"
    <2> DEFINE b == <<High(v.hi), Low(v.hi), High(v.lo), Low(v.lo)>>
    <2>1. PackOne(f, v) = b /\ Width(f) = 4
      BY <1>5 DEF PackOne, Width
    <2>2. /\ b[1] = High(v.hi) /\ b[2] = Low(v.hi) /\ b[3] = High(v.lo) /\ b[4] = Low(v.lo)
          /\ Len(b) = 4 /\ b \in Seq(Byte)
      BY <1>1, <1>2
    <2> HIDE DEF b
    <2>3. /\ b[1] * 256 + b[2] = v.hi /\ b[3] * 256 + b[4] = v.lo
          /\ b[1] >= 128 <=> ~(v.hi < 32768)
      BY <1>1, <1>2, <2>2
    <2>4. UnpackOne(f, b) = Ulong(IF b[1] >= 128 THEN "ones" ELSE "zeros", v.hi, v.lo)
      BY <1>5, <2>3 DEF UnpackOne
    <2>5. CameBack(f, v) = Ulong(IF v.hi < 32768 THEN "zeros" ELSE "ones", v.hi, v.lo)
      BY <1>5 DEF CameBack
    <2>6. UnpackOne(f, b) = CameBack(f, v)
      BY <2>3, <2>4, <2>5
    <2> QED
      BY <2>1, <2>2, <2>6
  <1> QED
    BY <1>3, <1>4, <1>5 DEF FmtLetters

\* What is packed and unpacked after each letter.
Packing(fmt, vals) ==
  LET after[i \in 0..Len(fmt)] ==
        IF i = 0 THEN [bytes |-> <<>>, n |-> 0]
        ELSE IF after[i - 1].n = -1 \/ fmt[i] \notin FmtLetters
             THEN [bytes |-> after[i - 1].bytes, n |-> -1]
        ELSE [bytes |-> after[i - 1].bytes \o PackOne(fmt[i], vals[i]),
              n |-> after[i - 1].n + Width(fmt[i])]
  IN  after
Unpacking(fmt, bytes) ==
  LET after[i \in 0..Len(fmt)] ==
        IF i = 0 THEN [vals |-> <<>>, n |-> 0]
        ELSE IF after[i - 1].n = -1 \/ fmt[i] \notin FmtLetters
             THEN [vals |-> after[i - 1].vals, n |-> -1]
        ELSE LET n == after[i - 1].n
             IN  [vals |-> Append(after[i - 1].vals,
                                  UnpackOne(fmt[i], SubSeq(bytes, n + 1, n + Width(fmt[i])))),
                  n |-> n + Width(fmt[i])]
  IN  after
LEMMA PackingEnds ==
  ASSUME NEW fmt, NEW vals, NEW bytes
  PROVE  /\ pack(fmt, vals) = Packing(fmt, vals)[Len(fmt)]
         /\ unpack(fmt, bytes) = Unpacking(fmt, bytes)[Len(fmt)]
  BY DEF pack, unpack, Packing, Unpacking

Packed == [bytes : Seq(Byte), n : Int]
PackStep(f, v, a) ==
  IF a.n = -1 \/ f \notin FmtLetters THEN [bytes |-> a.bytes, n |-> -1]
  ELSE [bytes |-> a.bytes \o PackOne(f, v), n |-> a.n + Width(f)]

LEMMA PackingSteps ==
  ASSUME NEW fmt, Len(fmt) \in Nat, NEW vals \in [1..Len(fmt) -> Halves]
  PROVE  /\ Packing(fmt, vals) \in [0..Len(fmt) -> Packed]
         /\ Packing(fmt, vals)[0] = [bytes |-> <<>>, n |-> 0]
         /\ \A i \in 1..Len(fmt) :
              Packing(fmt, vals)[i] = PackStep(fmt[i], vals[i], Packing(fmt, vals)[i - 1])
  <1> DEFINE N == Len(fmt)
             z == [bytes |-> <<>>, n |-> 0]
             step == [i \in 1..N |-> [a \in Packed |-> PackStep(fmt[i], vals[i], a)]]
  <1>1. ASSUME NEW i \in 1..N, NEW a \in Packed PROVE PackStep(fmt[i], vals[i], a) \in Packed
    <2>1. CASE a.n = -1 \/ fmt[i] \notin FmtLetters
      BY <2>1 DEF PackStep, Packed
    <2>2. CASE a.n # -1 /\ fmt[i] \in FmtLetters
      <3>1. PackOne(fmt[i], vals[i]) \in Seq(Byte) /\ Width(fmt[i]) \in Int
        BY <2>2, OnePacked
      <3>2. a.bytes \o PackOne(fmt[i], vals[i]) \in Seq(Byte)
        BY <3>1, ConcatProperties DEF Packed
      <3> QED
        BY <2>2, <3>1, <3>2 DEF PackStep, Packed
    <2> QED
      BY <2>1, <2>2
  <1>2. step \in [1..N -> [Packed -> Packed]] /\ z \in Packed
    BY SMTT(30), <1>1 DEF Packed
  <1> HIDE DEF step
  <1>3. PICK w : Takes(w, Packed, z, step, N)
    <2> HIDE DEF z
    <2> QED
      BY <1>2, CanBeTaken
  <1>4. /\ w \in [0..N -> Packed] /\ w[0] = z
        /\ \A i \in 1..N : w[i] = PackStep(fmt[i], vals[i], w[i - 1])
    <2> HIDE DEF z
    <2>1. w \in [0..N -> Packed] /\ w[0] = z /\ \A k \in 1..N : w[k] = step[k][w[k - 1]]
      BY <1>3 DEF Takes
    <2>2. ASSUME NEW i \in 1..N PROVE w[i] = PackStep(fmt[i], vals[i], w[i - 1])
      <3>1. w[i - 1] \in Packed
        BY <2>1
      <3> QED
        BY <2>1, <3>1 DEF step
    <2> QED
      BY <2>1, <2>2
  <1> DEFINE Is(g) == g = [i \in 0..N |->
               IF i = 0 THEN [bytes |-> <<>>, n |-> 0]
               ELSE IF g[i - 1].n = -1 \/ fmt[i] \notin FmtLetters
                    THEN [bytes |-> g[i - 1].bytes, n |-> -1]
               ELSE [bytes |-> g[i - 1].bytes \o PackOne(fmt[i], vals[i]),
                     n |-> g[i - 1].n + Width(fmt[i])]]
  <1>5. Is(w)
    <2>1. \A i \in 0..N :
            w[i] = IF i = 0 THEN [bytes |-> <<>>, n |-> 0]
                   ELSE IF w[i - 1].n = -1 \/ fmt[i] \notin FmtLetters
                        THEN [bytes |-> w[i - 1].bytes, n |-> -1]
                   ELSE [bytes |-> w[i - 1].bytes \o PackOne(fmt[i], vals[i]),
                         n |-> w[i - 1].n + Width(fmt[i])]
      <3> SUFFICES ASSUME NEW i \in 0..N
                   PROVE  w[i] = IF i = 0 THEN [bytes |-> <<>>, n |-> 0]
                                 ELSE PackStep(fmt[i], vals[i], w[i - 1])
        BY DEF PackStep
      <3> QED
        BY <1>4
    <2> QED
      BY <1>4, <2>1
  <1> DEFINE f == Packing(fmt, vals)
  <1>6. f = CHOOSE g : Is(g)
    BY DEF Packing
  <1>7. Is(f)
    <2> HIDE DEF Is, f
    <2> QED
      BY <1>5, <1>6
  <1> HIDE DEF f
  <1>8. f[0] = z /\ \A i \in 1..N : f[i] = PackStep(fmt[i], vals[i], f[i - 1])
    <2>1. f = [i \in 0..N |-> IF i = 0 THEN z ELSE PackStep(fmt[i], vals[i], f[i - 1])]
      BY <1>7, Zenon DEF PackStep
    <2>2. 0 \in 0..N /\ \A i \in 1..N : i \in 0..N /\ i # 0
      OBVIOUS
    <2> HIDE DEF z
    <2> QED
      BY <2>1, <2>2
  <1>9. f \in [0..N -> Packed]
    <2> DEFINE S == {k \in 0..N : f[k] \in Packed}
    <2>1. 0 \in S
      BY <1>2, <1>8
    <2>2. \A k \in 1..N : k - 1 \in S => k \in S
      BY <1>1, <1>8
    <2> HIDE DEF S
    <2>3. \A k \in 0..N : k \in S
      BY <2>1, <2>2, ByStep
    <2>4. \A k \in 0..N : f[k] \in Packed
      BY <2>3 DEF S
    <2>5. DOMAIN f = 0..N /\ f = [i \in DOMAIN f |-> f[i]]
      BY <1>7
    <2> QED
      BY <2>4, <2>5
  <1> QED
    BY <1>8, <1>9 DEF f

LEMMA PackStepEnds ==
  ASSUME NEW f, NEW v, NEW a, a.n = -1 \/ f \notin FmtLetters
  PROVE  PackStep(f, v, a).n = -1 /\ PackStep(f, v, a).bytes = a.bytes
  <1>1. PackStep(f, v, a) = [bytes |-> a.bytes, n |-> -1]
    BY DEF PackStep
  <1> QED
    BY <1>1

LEMMA PackStepTakes ==
  ASSUME NEW f \in FmtLetters, NEW v, NEW a, a.n # -1
  PROVE  /\ PackStep(f, v, a).n = a.n + Width(f)
         /\ PackStep(f, v, a).bytes = a.bytes \o PackOne(f, v)
  <1>1. PackStep(f, v, a) = [bytes |-> a.bytes \o PackOne(f, v), n |-> a.n + Width(f)]
    BY DEF PackStep
  <1> QED
    BY <1>1

\* s begins with p.
Begins(s, p) == Len(p) <= Len(s) /\ \A i \in 1..Len(p) : s[i] = p[i]

LEMMA MiddleIs ==
  ASSUME NEW S, NEW s \in Seq(S), NEW a \in Seq(S), NEW b \in Seq(S), Begins(s, a \o b)
  PROVE  SubSeq(s, Len(a) + 1, Len(a) + Len(b)) = b
  <1> DEFINE m == Len(a) + 1
             n == Len(a) + Len(b)
             t == SubSeq(s, m, n)
  <1>1. Len(a) \in Nat /\ Len(b) \in Nat /\ Len(s) \in Nat
        /\ (\A i \in 1..Len(s) : s[i] \in S) /\ \A i \in 1..Len(b) : b[i] \in S
    OBVIOUS
  <1>2. /\ n <= Len(s)
        /\ \A i \in 1..n : s[i] = IF i <= Len(a) THEN a[i] ELSE b[i - Len(a)]
    <2>1. /\ Len(a \o b) = n
          /\ \A i \in 1..n : (a \o b)[i] = IF i <= Len(a) THEN a[i] ELSE b[i - Len(a)]
      BY ConcatProperties
    <2> DEFINE ab == a \o b
    <2> HIDE DEF ab, n
    <2>2. Begins(s, ab)
      BY DEF ab
    <2> QED
      BY <2>1, <2>2 DEF ab, Begins
  <1>3. m \in Int /\ n \in Int /\ m = Len(a) + 1 /\ n = Len(a) + Len(b)
    BY <1>1
  <1>4. /\ t \in Seq(S) /\ Len(t) = IF m <= n THEN n - m + 1 ELSE 0
        /\ \A i \in 1..n - m + 1 : t[i] = s[m + i - 1]
    <2> HIDE DEF m, n
    <2>1. \A i \in m..n : s[i] \in S
      BY <1>1, <1>2, <1>3
    <2> QED
      BY <1>3, <2>1, SubSeqProperties
  <1> HIDE DEF m, n, t
  <1>5. Len(t) = Len(b)
    BY <1>1, <1>3, <1>4
  <1>6. ASSUME NEW i \in 1..Len(t) PROVE t[i] = b[i]
    <2>1. /\ i \in 1..n - m + 1 /\ m + i - 1 \in 1..n /\ ~(m + i - 1 <= Len(a))
          /\ (m + i - 1) - Len(a) = i
      BY <1>1, <1>3, <1>5
    <2>2. t[i] = s[m + i - 1]
      BY <1>4, <2>1
    <2> QED
      BY <1>2, <2>1, <2>2
  <1>7. t = b
    BY <1>4, <1>5, <1>6, SeqEqual
  <1> QED
    BY <1>7 DEF m, n, t

\* The letters up to i are letters.
Good(fmt, i) == \A j \in 1..i : fmt[j] \in FmtLetters
PackRun(P, fmt, vals) ==
  /\ P \in [0..Len(fmt) -> Packed] /\ P[0] = [bytes |-> <<>>, n |-> 0]
  /\ \A i \in 1..Len(fmt) : P[i] = PackStep(fmt[i], vals[i], P[i - 1])

LEMMA PackRunCounts ==
  ASSUME NEW fmt, Len(fmt) \in Nat, NEW vals \in [1..Len(fmt) -> Halves],
         NEW P, PackRun(P, fmt, vals)
  PROVE  \A i \in 0..Len(fmt) :
           P[i].n = IF Good(fmt, i) THEN Len(P[i].bytes) ELSE -1
  <1> DEFINE N == Len(fmt)
             S == {i \in 0..N : P[i].n = IF Good(fmt, i) THEN Len(P[i].bytes) ELSE -1}
  <1>1. 0 \in S
    <2>1. P[0].n = 0 /\ P[0].bytes = <<>> /\ Good(fmt, 0)
      BY DEF PackRun, Good
    <2> QED
      BY <2>1
  <1>2. ASSUME NEW i \in 1..N, i - 1 \in S PROVE i \in S
    <2>1. /\ P[i] = PackStep(fmt[i], vals[i], P[i - 1]) /\ P[i - 1] \in Packed
          /\ P[i - 1].bytes \in Seq(Byte)
      BY DEF PackRun, Packed
    <2>2. Good(fmt, i) <=> Good(fmt, i - 1) /\ fmt[i] \in FmtLetters
      <3>1. 1..i = 1..(i - 1) \cup {i}
        OBVIOUS
      <3> QED
        BY <3>1 DEF Good
    <2>3. P[i - 1].n = IF Good(fmt, i - 1) THEN Len(P[i - 1].bytes) ELSE -1
      BY <1>2
    <2>4. Len(P[i - 1].bytes) \in Nat
      BY <2>1
    <2>5. CASE ~Good(fmt, i)
      <3>1. P[i].n = -1
        BY <2>1, <2>2, <2>3, <2>5, PackStepEnds
      <3> QED
        BY <2>5, <3>1
    <2>6. CASE Good(fmt, i)
      <3>1. /\ P[i].n = P[i - 1].n + Width(fmt[i])
            /\ P[i].bytes = P[i - 1].bytes \o PackOne(fmt[i], vals[i])
        <4>1. P[i - 1].n # -1 /\ fmt[i] \in FmtLetters
          BY <2>2, <2>3, <2>4, <2>6
        <4>2. /\ PackStep(fmt[i], vals[i], P[i - 1]).n = P[i - 1].n + Width(fmt[i])
              /\ PackStep(fmt[i], vals[i], P[i - 1]).bytes =
                   P[i - 1].bytes \o PackOne(fmt[i], vals[i])
          BY <4>1, PackStepTakes
        <4> QED
          BY <2>1, <4>2
      <3>2. /\ PackOne(fmt[i], vals[i]) \in Seq(Byte)
            /\ Len(PackOne(fmt[i], vals[i])) = Width(fmt[i])
        BY <2>2, <2>6, OnePacked
      <3>3. Len(P[i].bytes) = Len(P[i - 1].bytes) + Width(fmt[i])
        <4>1. P[i - 1].bytes \in Seq(Byte)
          BY <2>1
        <4>2. Len(P[i - 1].bytes \o PackOne(fmt[i], vals[i])) =
                Len(P[i - 1].bytes) + Len(PackOne(fmt[i], vals[i]))
          BY <3>2, <4>1, ConcatProperties
        <4> QED
          BY <3>1, <3>2, <4>2
      <3>4. P[i - 1].n = Len(P[i - 1].bytes)
        BY <2>2, <2>3, <2>6
      <3>5. P[i].n = Len(P[i].bytes)
        BY <3>1, <3>3, <3>4
      <3> QED
        BY <2>6, <3>5
    <2> QED
      BY <2>5, <2>6
  <1> HIDE DEF S
  <1>3. \A i \in 0..N : i \in S
    BY <1>1, <1>2, ByStep
  <1> QED
    BY <1>3 DEF S

\* What has been packed stays.
LEMMA PackRunGrows ==
  ASSUME NEW fmt, Len(fmt) \in Nat, NEW vals \in [1..Len(fmt) -> Halves],
         NEW P, PackRun(P, fmt, vals), NEW i \in 0..Len(fmt)
  PROVE  Begins(P[Len(fmt)].bytes, P[i].bytes)
  <1> DEFINE N == Len(fmt)
             S == {k \in 0..N : i <= k => Begins(P[k].bytes, P[i].bytes)}
  <1>0. \A k \in 0..N : P[k].bytes \in Seq(Byte)
    BY DEF PackRun, Packed
  <1>1. Begins(P[i].bytes, P[i].bytes)
    BY <1>0 DEF Begins
  <1>2. 0 \in S
    BY <1>1
  <1>3. ASSUME NEW k \in 1..N, k - 1 \in S PROVE k \in S
    <2>1. CASE k = i
      BY <1>1, <2>1
    <2>2. CASE k < i
      BY <2>2
    <2>3. CASE i < k
      <3>1. /\ Begins(P[k - 1].bytes, P[i].bytes) /\ P[k - 1].bytes \in Seq(Byte)
            /\ P[i].bytes \in Seq(Byte)
        BY <1>0, <1>3, <2>3
      <3>2. P[k] = PackStep(fmt[k], vals[k], P[k - 1])
        BY DEF PackRun
      <3>3. CASE P[k].bytes = P[k - 1].bytes
        BY <3>1, <3>3
      <3>4. CASE fmt[k] \in FmtLetters /\ P[k].bytes = P[k - 1].bytes \o PackOne(fmt[k], vals[k])
        <4> DEFINE a == P[k - 1].bytes
                   b == PackOne(fmt[k], vals[k])
        <4>1. a \in Seq(Byte) /\ b \in Seq(Byte)
          BY <3>1, <3>4, OnePacked
        <4> HIDE DEF a, b
        <4>2. /\ Len(a \o b) = Len(a) + Len(b)
              /\ \A j \in 1..Len(a) + Len(b) :
                   (a \o b)[j] = IF j <= Len(a) THEN a[j] ELSE b[j - Len(a)]
          BY <4>1, ConcatProperties
        <4>3. Len(a) \in Nat /\ Len(b) \in Nat
          BY <4>1
        <4>4. Begins(a, P[i].bytes) /\ Len(P[i].bytes) \in Nat
          BY <3>1 DEF a
        <4>5. Begins(a \o b, P[i].bytes)
          BY <4>2, <4>3, <4>4 DEF Begins
        <4> QED
          <5>1. P[k].bytes = a \o b
            BY <3>4 DEF a, b
          <5>2. Begins(P[k].bytes, P[i].bytes)
            BY <4>5, <5>1
          <5> QED
            BY <5>2
      <3>5. P[k].bytes = P[k - 1].bytes \/
            (fmt[k] \in FmtLetters /\ P[k].bytes = P[k - 1].bytes \o PackOne(fmt[k], vals[k]))
        <4>1. CASE P[k - 1].n = -1 \/ fmt[k] \notin FmtLetters
          <5>1. PackStep(fmt[k], vals[k], P[k - 1]).bytes = P[k - 1].bytes
            BY <4>1, PackStepEnds
          <5> QED
            BY <3>2, <5>1
        <4>2. CASE P[k - 1].n # -1 /\ fmt[k] \in FmtLetters
          <5>1. PackStep(fmt[k], vals[k], P[k - 1]).bytes =
                  P[k - 1].bytes \o PackOne(fmt[k], vals[k])
            BY <4>2, PackStepTakes
          <5> QED
            BY <3>2, <4>2, <5>1
        <4> QED
          BY <4>1, <4>2
      <3> QED
        BY <3>3, <3>4, <3>5
    <2> QED
      BY <2>1, <2>2, <2>3
  <1> HIDE DEF S
  <1>4. \A k \in 0..N : k \in S
    BY <1>2, <1>3, ByStep
  <1>5. N \in S /\ i <= N
    BY <1>4
  <1> QED
    BY <1>5 DEF S

\* How many of the first i letters are f.
CountTo(fmt, i, f) == Cardinality({j \in 1..i : fmt[j] = f})

LEMMA CountNext ==
  ASSUME NEW fmt, NEW i \in Nat \ {0}, NEW f
  PROVE  /\ CountTo(fmt, i - 1, f) \in Nat /\ CountTo(fmt, 0, f) = 0
         /\ CountTo(fmt, i, f) = CountTo(fmt, i - 1, f) + IF fmt[i] = f THEN 1 ELSE 0
  <1> DEFINE A(k) == {j \in 1..k : fmt[j] = f}
  <1>1. IsFiniteSet(A(i - 1)) /\ Cardinality(A(i - 1)) \in Nat
    <2>1. IsFiniteSet(1..(i - 1)) /\ A(i - 1) \subseteq 1..(i - 1)
      BY FS_Interval
    <2> QED
      BY <2>1, FS_Subset, FS_CardinalityType
  <1>2. A(i) = IF fmt[i] = f THEN A(i - 1) \cup {i} ELSE A(i - 1)
    <2>1. 1..i = 1..(i - 1) \cup {i}
      OBVIOUS
    <2> QED
      BY <2>1
  <1>3. i \notin A(i - 1) /\ A(0) = {}
    OBVIOUS
  <1> HIDE DEF A
  <1>4. Cardinality(A(i - 1) \cup {i}) = Cardinality(A(i - 1)) + 1
    BY <1>1, <1>3, FS_AddElement
  <1>5. Cardinality(A(0)) = 0
    BY <1>3, FS_EmptySet
  <1>6. \A k : CountTo(fmt, k, f) = Cardinality(A(k))
    BY DEF CountTo, A
  <1>7. Cardinality(A(i)) = Cardinality(A(i - 1)) + IF fmt[i] = f THEN 1 ELSE 0
    BY <1>1, <1>2, <1>4
  <1> HIDE DEF CountTo
  <1> QED
    BY <1>1, <1>5, <1>6, <1>7

\* The bytes packed are those the letters ask for.
LEMMA PackRunSums ==
  ASSUME NEW fmt, Len(fmt) \in Nat, NEW vals \in [1..Len(fmt) -> Halves],
         NEW P, PackRun(P, fmt, vals)
  PROVE  \A i \in 0..Len(fmt) : Good(fmt, i) =>
           P[i].n = CountTo(fmt, i, "c") + 2 * CountTo(fmt, i, "s") + 4 * CountTo(fmt, i, "l")
  <1> DEFINE N == Len(fmt)
             Sum(i) == CountTo(fmt, i, "c") + 2 * CountTo(fmt, i, "s") + 4 * CountTo(fmt, i, "l")
             S == {i \in 0..N : Good(fmt, i) => P[i].n = Sum(i)}
  <1>1. 0 \in S
    <2>1. P[0].n = 0
      BY DEF PackRun
    <2>2. CountTo(fmt, 0, "c") = 0 /\ CountTo(fmt, 0, "s") = 0 /\ CountTo(fmt, 0, "l") = 0
      BY CountNext
    <2>3. P[0].n = Sum(0)
      BY <2>1, <2>2
    <2> HIDE DEF Sum
    <2> QED
      BY <2>3
  <1>2. ASSUME NEW i \in 1..N, i - 1 \in S PROVE i \in S
    <2> SUFFICES ASSUME Good(fmt, i) PROVE P[i].n = Sum(i)
      OBVIOUS
    <2>1. Good(fmt, i - 1) /\ fmt[i] \in FmtLetters
      <3>1. 1..i = 1..(i - 1) \cup {i}
        OBVIOUS
      <3> QED
        BY <3>1 DEF Good
    <2>2. P[i - 1].n = Sum(i - 1) /\ P[i - 1].n \in Nat
      <3>1. P[i - 1].n = Sum(i - 1)
        BY <1>2, <2>1
      <3>2. P[i - 1].bytes \in Seq(Byte) /\ i - 1 \in 0..N
        <4>1. i - 1 \in 0..N /\ P \in [0..N -> Packed]
          BY DEF PackRun
        <4> QED
          BY <4>1 DEF Packed
      <3>3. P[i - 1].n = Len(P[i - 1].bytes)
        BY <2>1, <3>2, PackRunCounts
      <3> HIDE DEF Sum
      <3> QED
        BY <3>1, <3>2, <3>3
    <2>3. P[i].n = P[i - 1].n + Width(fmt[i])
      <3>1. P[i] = PackStep(fmt[i], vals[i], P[i - 1])
        BY DEF PackRun
      <3>2. P[i - 1].n # -1
        BY <2>2
      <3>3. PackStep(fmt[i], vals[i], P[i - 1]).n = P[i - 1].n + Width(fmt[i])
        BY <2>1, <3>2, PackStepTakes
      <3> QED
        BY <3>1, <3>3
    <2>4. Sum(i) = Sum(i - 1) + Width(fmt[i])
      <3> DEFINE c == CountTo(fmt, i - 1, "c")
                 t == CountTo(fmt, i - 1, "s")
                 l == CountTo(fmt, i - 1, "l")
      <3>1. /\ c \in Nat /\ CountTo(fmt, i, "c") = c + IF fmt[i] = "c" THEN 1 ELSE 0
            /\ t \in Nat /\ CountTo(fmt, i, "s") = t + IF fmt[i] = "s" THEN 1 ELSE 0
            /\ l \in Nat /\ CountTo(fmt, i, "l") = l + IF fmt[i] = "l" THEN 1 ELSE 0
        <4>1. i \in Nat \ {0}
          OBVIOUS
        <4> QED
          BY <4>1, CountNext
      <3>2. \/ fmt[i] = "c" /\ Width(fmt[i]) = 1
            \/ fmt[i] = "s" /\ Width(fmt[i]) = 2
            \/ fmt[i] = "l" /\ Width(fmt[i]) = 4
        BY <2>1 DEF FmtLetters, Width
      <3>3. Sum(i - 1) = c + 2 * t + 4 * l
        OBVIOUS
      <3> HIDE DEF c, t, l
      <3> QED
        BY <3>1, <3>2, <3>3
    <2> HIDE DEF Sum
    <2> QED
      BY <2>2, <2>3, <2>4
  <1> HIDE DEF S
  <1>3. \A i \in 0..N : i \in S
    BY <1>1, <1>2, ByStep
  <1> QED
    BY <1>3 DEF S

------------------------------------------------------------------------------
(* Unpacking what was packed.                                               *)

\* The first letter that is none is at m, or the format ends before it.
EndsAt(fmt, m) ==
  /\ m \in 1..Len(fmt) + 1 /\ \A j \in 1..Len(fmt) : j < m => fmt[j] \in FmtLetters
  /\ m <= Len(fmt) => fmt[m] \notin FmtLetters
UnpackStep(f, bytes, a) ==
  IF a.n = -1 \/ f \notin FmtLetters THEN [vals |-> a.vals, n |-> -1]
  ELSE [vals |-> Append(a.vals, UnpackOne(f, SubSeq(bytes, a.n + 1, a.n + Width(f)))),
        n |-> a.n + Width(f)]
Unpacked(P, fmt, vals, m) ==
  [i \in 0..Len(fmt) |->
     [vals |-> [j \in 1..(IF i < m THEN i ELSE m - 1) |-> CameBack(fmt[j], vals[j])],
      n |-> P[i].n]]

LEMMA UnpackedSteps ==
  ASSUME NEW fmt, Len(fmt) \in Nat, NEW vals \in [1..Len(fmt) -> Halves],
         NEW P, PackRun(P, fmt, vals), NEW m, EndsAt(fmt, m), NEW i \in 1..Len(fmt)
  PROVE  Unpacked(P, fmt, vals, m)[i] =
           UnpackStep(fmt[i], P[Len(fmt)].bytes, Unpacked(P, fmt, vals, m)[i - 1])
  <1> DEFINE w == Unpacked(P, fmt, vals, m)
             upto(k) == IF k < m THEN k ELSE m - 1
             cuts(k) == [j \in 1..upto(k) |-> CameBack(fmt[j], vals[j])]
             B == P[Len(fmt)].bytes
  <1>1. /\ w[i] = [vals |-> cuts(i), n |-> P[i].n]
        /\ w[i - 1] = [vals |-> cuts(i - 1), n |-> P[i - 1].n]
    BY DEF Unpacked
  <1>2. m \in Nat /\ i \in Nat
    BY DEF EndsAt
  <1>3. /\ P[i] = PackStep(fmt[i], vals[i], P[i - 1])
        /\ P[i - 1].bytes \in Seq(Byte) /\ B \in Seq(Byte) /\ i - 1 \in 0..Len(fmt)
    <2>1. /\ i - 1 \in 0..Len(fmt) /\ Len(fmt) \in 0..Len(fmt) /\ P \in [0..Len(fmt) -> Packed]
          /\ P[i] = PackStep(fmt[i], vals[i], P[i - 1])
      BY DEF PackRun
    <2> QED
      BY <2>1 DEF Packed
  <1>4. \A k \in 0..Len(fmt) : Good(fmt, k) <=> k < m
    <2> SUFFICES ASSUME NEW k \in 0..Len(fmt) PROVE Good(fmt, k) <=> k < m
      OBVIOUS
    <2>1. CASE k < m
      BY <1>2, <2>1 DEF Good, EndsAt
    <2>2. CASE ~(k < m)
      <3>1. m \in 1..k /\ fmt[m] \notin FmtLetters
        BY <1>2, <2>2 DEF EndsAt
      <3> QED
        BY <2>2, <3>1 DEF Good
    <2> QED
      BY <2>1, <2>2
  <1>5. P[i - 1].n = IF i - 1 < m THEN Len(P[i - 1].bytes) ELSE -1
    BY <1>3, <1>4, PackRunCounts
  <1>6. P[i].n = IF i < m THEN Len(P[i].bytes) ELSE -1
    BY <1>4, PackRunCounts
  <1> HIDE DEF w
  <1>7. CASE i < m
    <2> DEFINE n == P[i - 1].n
               b == PackOne(fmt[i], vals[i])
    <2>1. n = Len(P[i - 1].bytes) /\ n \in Nat /\ fmt[i] \in FmtLetters /\ n # -1
      <3>1. fmt[i] \in FmtLetters
        BY <1>7 DEF EndsAt
      <3>2. n = Len(P[i - 1].bytes)
        BY <1>2, <1>5, <1>7
      <3>3. Len(P[i - 1].bytes) \in Nat
        BY <1>3
      <3> HIDE DEF n
      <3> QED
        BY <3>1, <3>2, <3>3
    <2>2. P[i].n = n + Width(fmt[i]) /\ P[i].bytes = P[i - 1].bytes \o b
      <3>1. /\ PackStep(fmt[i], vals[i], P[i - 1]).n = P[i - 1].n + Width(fmt[i])
            /\ PackStep(fmt[i], vals[i], P[i - 1]).bytes = P[i - 1].bytes \o b
        BY <2>1, PackStepTakes
      <3> QED
        BY <1>3, <3>1
    <2>3. b \in Seq(Byte) /\ Len(b) = Width(fmt[i]) /\ UnpackOne(fmt[i], b) = CameBack(fmt[i], vals[i])
      BY <2>1, OnePacked
    <2>4. SubSeq(B, n + 1, n + Width(fmt[i])) = b
      <3>1. Begins(B, P[i].bytes)
        BY PackRunGrows
      <3> DEFINE a == P[i - 1].bytes
      <3> HIDE DEF b, n, B
      <3>2. Begins(B, a \o b) /\ a \in Seq(Byte) /\ n = Len(a)
        BY <1>3, <2>1, <2>2, <3>1
      <3> HIDE DEF a
      <3>3. SubSeq(B, Len(a) + 1, Len(a) + Len(b)) = b
        BY <1>3, <2>3, <3>2, MiddleIs
      <3> QED
        BY <2>3, <3>2, <3>3
    <2>5. cuts(i) = Append(cuts(i - 1), CameBack(fmt[i], vals[i]))
      <3>1. upto(i) = i /\ upto(i - 1) = i - 1
        BY <1>2, <1>7
      <3> HIDE DEF upto
      <3>2. Len(cuts(i - 1)) = i - 1
        BY <1>2, <3>1
      <3>3. cuts(i) = [j \in 1..i |-> CameBack(fmt[j], vals[j])]
        BY <3>1
      <3>4. cuts(i - 1) = [j \in 1..(i - 1) |-> CameBack(fmt[j], vals[j])]
        BY <3>1
      <3> HIDE DEF cuts
      <3> QED
        BY <1>2, <3>2, <3>3, <3>4
    <2>6. /\ w[i - 1].n = n /\ w[i - 1].vals = cuts(i - 1)
      BY <1>1
    <2> HIDE DEF n, b, B, cuts
    <2>7. UnpackStep(fmt[i], B, w[i - 1]) =
            [vals |-> Append(cuts(i - 1), UnpackOne(fmt[i], b)), n |-> n + Width(fmt[i])]
      BY <2>1, <2>4, <2>6 DEF UnpackStep
    <2> QED
      BY <1>1, <2>2, <2>3, <2>5, <2>7 DEF w, B
  <1>8. CASE ~(i < m)
    <2>1. upto(i) = upto(i - 1)
      BY <1>2, <1>8
    <2>2. cuts(i) = cuts(i - 1)
      BY <2>1
    <2>3. P[i - 1].n = -1 \/ fmt[i] \notin FmtLetters
      <3>1. CASE i = m
        BY <3>1 DEF EndsAt
      <3>2. CASE i # m
        <4>1. ~(i - 1 < m)
          BY <1>2, <1>8, <3>2
        <4> QED
          BY <1>5, <4>1
      <3> QED
        BY <3>1, <3>2
    <2> HIDE DEF B, cuts
    <2>4. w[i - 1].n = P[i - 1].n /\ w[i - 1].vals = cuts(i - 1)
      BY <1>1
    <2>5. UnpackStep(fmt[i], B, w[i - 1]) = [vals |-> cuts(i - 1), n |-> -1]
      BY <2>3, <2>4 DEF UnpackStep
    <2> QED
      BY <1>1, <1>6, <1>8, <2>2, <2>5 DEF w, B
  <1> QED
    BY <1>7, <1>8

LEMMA UnpackingIs ==
  ASSUME NEW fmt, Len(fmt) \in Nat, NEW vals \in [1..Len(fmt) -> Halves],
         NEW P, PackRun(P, fmt, vals), NEW m, EndsAt(fmt, m)
  PROVE  Unpacking(fmt, P[Len(fmt)].bytes) = Unpacked(P, fmt, vals, m)
  <1> DEFINE N == Len(fmt)
             B == P[N].bytes
             w == Unpacked(P, fmt, vals, m)
             z == [vals |-> <<>>, n |-> 0]
             f == Unpacking(fmt, B)
             Is(g) == g = [i \in 0..N |->
               IF i = 0 THEN [vals |-> <<>>, n |-> 0]
               ELSE IF g[i - 1].n = -1 \/ fmt[i] \notin FmtLetters
                    THEN [vals |-> g[i - 1].vals, n |-> -1]
               ELSE LET n == g[i - 1].n
                    IN  [vals |-> Append(g[i - 1].vals,
                                    UnpackOne(fmt[i], SubSeq(B, n + 1, n + Width(fmt[i])))),
                         n |-> n + Width(fmt[i])]]
             Steps(g) ==
               g = [i \in 0..N |-> IF i = 0 THEN z ELSE UnpackStep(fmt[i], B, g[i - 1])]
  <1>1. w[0] = z
    <2>1. m \in Nat /\ m > 0 /\ P[0].n = 0
      BY DEF EndsAt, PackRun
    <2>2. [j \in 1..(IF 0 < m THEN 0 ELSE m - 1) |-> CameBack(fmt[j], vals[j])] = <<>>
      BY <2>1
    <2> QED
      BY <2>1, <2>2 DEF Unpacked
  <1>2. \A i \in 1..N : w[i] = UnpackStep(fmt[i], B, w[i - 1])
    BY UnpackedSteps
  <1>3. w = [i \in 0..N |-> w[i]]
    BY DEF Unpacked
  <1> HIDE DEF w
  <1>4. \A i \in 0..N : w[i] = IF i = 0 THEN z ELSE UnpackStep(fmt[i], B, w[i - 1])
    <2> HIDE DEF z, B
    <2> QED
      BY <1>1, <1>2
  <1>5. Steps(w)
    <2> HIDE DEF z, B
    <2> QED
      BY <1>3, <1>4
  <1>6. \A g : Is(g) <=> Steps(g)
    <2> HIDE DEF B
    <2> QED
      BY Zenon DEF UnpackStep
  <1>7. f = CHOOSE g : Is(g)
    BY DEF Unpacking
  <1>8. Steps(f)
    <2> HIDE DEF Is, Steps, f
    <2> QED
      BY <1>5, <1>6, <1>7
  <1> HIDE DEF Is, f, z, B
  <1>9. f[0] = z /\ \A i \in 1..N : f[i] = UnpackStep(fmt[i], B, f[i - 1])
    <2>1. 0 \in 0..N /\ \A i \in 1..N : i \in 0..N /\ i # 0
      OBVIOUS
    <2> QED
      BY <1>8, <2>1
  <1>10. \A i \in 0..N : f[i] = w[i]
    <2> DEFINE S == {i \in 0..N : f[i] = w[i]}
    <2>1. 0 \in S
      BY <1>1, <1>9
    <2>2. ASSUME NEW i \in 1..N, i - 1 \in S PROVE i \in S
      BY <1>2, <1>9, <2>2
    <2> HIDE DEF S
    <2>3. \A i \in 0..N : i \in S
      BY <2>1, <2>2, ByStep
    <2> QED
      BY <2>3 DEF S
  <1>11. f = [i \in 0..N |-> f[i]]
    BY <1>8
  <1>12. f = w
    BY <1>3, <1>10, <1>11
  <1> QED
    BY <1>12 DEF f, w, B

\* Every packet comes back as PacketRoundTrip says.
LEMMA PacketsRoundTrip ==
  ASSUME NEW fmt \in Formats, NEW vals \in [1..Len(fmt) -> Ulongs], NEW r,
         r = LET packed == pack(fmt, vals)
             IN  [packed |-> packed, back |-> unpack(fmt, packed.bytes)]
  PROVE  RoundTrip(fmt, vals, r)
  <1> DEFINE N == Len(fmt)
             P == Packing(fmt, vals)
             B == P[N].bytes
             bad == {i \in DOMAIN fmt : fmt[i] \notin FmtLetters}
             m == IF bad = {} THEN N + 1 ELSE Min(bad)
             upto == IF bad = {} THEN N ELSE Min(bad) - 1
  <1>1. N \in Nat /\ DOMAIN fmt = 1..N /\ vals \in [1..N -> Halves]
    <2>1. fmt \in Seq(STRING) /\ Ulongs \subseteq Halves
      BY UlongsAssumption DEF Halves
    <2> QED
      BY <2>1
  <1>2. PackRun(P, fmt, vals)
    BY <1>1, PackingSteps DEF PackRun
  <1>3. EndsAt(fmt, m) /\ m = upto + 1 /\ upto \in 0..N /\ (bad = {} <=> N < m)
    <2>1. CASE bad = {}
      BY <1>1, <2>1 DEF EndsAt
    <2>2. CASE bad # {}
      <3>1. bad \subseteq 0..N /\ \A i \in bad : i \in 1..N
        BY <1>1
      <3>2. \E x \in bad : \A y \in bad : x <= y
        <4> HIDE DEF bad
        <4> QED
          BY <1>1, <2>2, <3>1, LeastOf
      <3>3. Min(bad) \in bad /\ \A y \in bad : Min(bad) <= y
        <4> HIDE DEF bad
        <4> QED
          BY <3>2 DEF Min
      <3> DEFINE least == Min(bad)
      <3> HIDE DEF least
      <3>4. least \in 1..N /\ fmt[least] \notin FmtLetters
            /\ \A j \in 1..N : j < least => fmt[j] \in FmtLetters
        <4>1. least \in bad /\ \A y \in bad : least <= y
          BY <3>3 DEF least
        <4>2. least \in 1..N /\ fmt[least] \notin FmtLetters
          BY <3>1, <4>1
        <4>3. ASSUME NEW j \in 1..N, j < least PROVE fmt[j] \in FmtLetters
          <5>1. ASSUME fmt[j] \notin FmtLetters PROVE FALSE
            <6>1. j \in bad
              BY <1>1, <5>1
            <6> HIDE DEF bad
            <6> QED
              BY <1>1, <4>1, <4>2, <4>3, <6>1
          <5> QED
            BY <5>1
        <4> QED
          BY <4>2, <4>3
      <3>5. m = least /\ upto = least - 1
        BY <2>2 DEF least
      <3> HIDE DEF m, upto, bad
      <3> QED
        BY <1>1, <2>2, <3>4, <3>5 DEF EndsAt
    <2> QED
      BY <2>1, <2>2
  <1>4. Good(fmt, N) <=> bad = {}
    BY <1>1 DEF Good
  <1> HIDE DEF bad, m, upto
  <1>5. P[N].n = IF bad = {} THEN Len(B) ELSE -1
    <2>1. N \in 0..N
      BY <1>1
    <2> HIDE DEF P
    <2> QED
      BY <1>1, <1>2, <1>4, <2>1, PackRunCounts
  <1>6. bad = {} => P[N].n = Count(fmt, "c") + 2 * Count(fmt, "s") + 4 * Count(fmt, "l")
    <2>1. N \in 0..N
      BY <1>1
    <2>2. \A f : Count(fmt, f) = CountTo(fmt, N, f)
      BY <1>1 DEF Count, CountTo
    <2> HIDE DEF P
    <2>3. bad = {} =>
            P[N].n = CountTo(fmt, N, "c") + 2 * CountTo(fmt, N, "s") + 4 * CountTo(fmt, N, "l")
      BY <1>1, <1>2, <1>4, <2>1, PackRunSums
    <2> QED
      BY <2>2, <2>3
  <1>7. r.packed = P[N] /\ r.back = Unpacking(fmt, B)[N]
    <2>1. \A b : unpack(fmt, b) = Unpacking(fmt, b)[N]
      BY PackingEnds
    <2>2. pack(fmt, vals) = P[N]
      BY PackingEnds
    <2> HIDE DEF P
    <2> QED
      BY <2>1, <2>2
  <1> HIDE DEF P
  <1>8. Unpacking(fmt, B) = Unpacked(P, fmt, vals, m)
    BY <1>1, <1>2, <1>3, UnpackingIs
  <1>9. r.back.n = P[N].n /\ r.back.vals = [i \in 1..upto |-> CameBack(fmt[i], vals[i])]
    <2>1. Unpacked(P, fmt, vals, m)[N] =
            [vals |-> [j \in 1..(IF N < m THEN N ELSE m - 1) |-> CameBack(fmt[j], vals[j])],
             n |-> P[N].n]
      BY <1>1 DEF Unpacked
    <2>2. (IF N < m THEN N ELSE m - 1) = upto
      <3>1. N \in Nat /\ upto \in 0..N /\ m = upto + 1
        BY <1>1, <1>3
      <3> HIDE DEF N
      <3> QED
        BY <3>1
    <2> DEFINE vs == [j \in 1..(IF N < m THEN N ELSE m - 1) |-> CameBack(fmt[j], vals[j])]
    <2>3. vs = [i \in 1..upto |-> CameBack(fmt[i], vals[i])]
      BY <2>2
    <2>4. r.back = [vals |-> vs, n |-> P[N].n]
      BY <1>7, <1>8, <2>1
    <2> HIDE DEF vs
    <2>5. r.back.n = P[N].n /\ r.back.vals = vs
      BY <2>4
    <2> QED
      BY <2>3, <2>5
  <1>10. RoundTrip(fmt, vals, r) <=>
           /\ r.packed.n = r.back.n
           /\ bad # {} => r.packed.n = -1
           /\ bad = {} =>
                /\ r.packed.n = Len(r.packed.bytes)
                /\ r.packed.n = Count(fmt, "c") + 2 * Count(fmt, "s") + 4 * Count(fmt, "l")
           /\ Len(r.back.vals) = upto
           /\ \A i \in 1..upto :
                (fmt[i] = "l" => vals[i].hi < 32768) => r.back.vals[i] = Cut(fmt[i], vals[i])
    BY DEF RoundTrip, bad, upto
  <1>11. Len(r.back.vals) = upto
    BY <1>1, <1>3, <1>9
  <1>12. ASSUME NEW i \in 1..upto, fmt[i] = "l" => vals[i].hi < 32768
         PROVE  r.back.vals[i] = Cut(fmt[i], vals[i])
    <2>1. r.back.vals[i] = CameBack(fmt[i], vals[i])
      BY <1>9
    <2>2. fmt[i] \in FmtLetters
      BY <1>1, <1>3, <1>12 DEF EndsAt
    <2>3. CameBack(fmt[i], vals[i]) = Cut(fmt[i], vals[i])
      BY <1>12, <2>2 DEF CameBack, Cut, FmtLetters
    <2> QED
      BY <2>1, <2>3
  <1> QED
    BY <1>5, <1>6, <1>7, <1>9, <1>10, <1>11, <1>12

------------------------------------------------------------------------------
(* The order of strings.                                                    *)

\* p and q agree in their first n characters.
Agree(p, q, n) == n <= Len(p) /\ n <= Len(q) /\ \A i \in 1..n : p[i] = q[i]
\* And in no more.
Differ(p, q, n) == Agree(p, q, n) /\ (n < Len(p) /\ n < Len(q) => p[n + 1] # q[n + 1])

LEMMA DifferOnce ==
  ASSUME NEW p \in Seq(Int), NEW q \in Seq(Int), NEW m \in Nat, NEW n \in Nat,
         Differ(p, q, m), Differ(p, q, n)
  PROVE  m = n
  <1>1. Len(p) \in Nat /\ Len(q) \in Nat
    OBVIOUS
  <1>2. CASE m < n
    <2>1. m < Len(p) /\ m < Len(q) /\ m + 1 \in 1..n
      BY <1>1, <1>2 DEF Differ, Agree
    <2> QED
      BY <2>1 DEF Differ, Agree
  <1>3. CASE n < m
    <2>1. n < Len(p) /\ n < Len(q) /\ n + 1 \in 1..m
      BY <1>1, <1>3 DEF Differ, Agree
    <2> QED
      BY <2>1 DEF Differ, Agree
  <1> QED
    BY <1>2, <1>3

LEMMA ComlenIs ==
  ASSUME NEW p \in Seq(Int), NEW q \in Seq(Int)
  PROVE  comlen(p, q) \in Nat /\ Differ(p, q, comlen(p, q))
  <1> DEFINE N == Len(p)
             T == {n \in 0..N : n = Len(p) \/ n = Len(q) \/ (n < Len(q) /\ p[n + 1] # q[n + 1])}
  <1>1. N \in Nat /\ Len(q) \in Nat /\ N \in T
    OBVIOUS
  <1>2. PICK n \in T : \A k \in T : n <= k
    <2>1. T \subseteq 0..N /\ T # {}
      BY <1>1
    <2> HIDE DEF T
    <2> QED
      BY <1>1, <2>1, LeastOf
  <1>3. n \in 0..N /\ n <= Len(q)
    <2>1. CASE n <= Len(q)
      BY <2>1
    <2>2. CASE Len(q) < n
      <3>1. Len(q) \in T
        BY <1>1, <2>2
      <3> QED
        BY <1>1, <1>2, <2>2, <3>1
    <2> QED
      BY <1>1, <2>1, <2>2
  <1>4. \A i \in 1..n : p[i] = q[i]
    <2> SUFFICES ASSUME NEW i \in 1..n, p[i] # q[i] PROVE FALSE
      OBVIOUS
    <2>1. i - 1 \in 0..N /\ i - 1 < Len(q) /\ (i - 1) + 1 = i
      BY SMTT(30), <1>1, <1>3
    <2>2. i - 1 \in T
      BY <2>1
    <2> QED
      BY <1>1, <1>2, <2>1, <2>2
  <1>5. n < Len(p) /\ n < Len(q) => p[n + 1] # q[n + 1]
    BY <1>1, <1>2
  <1> DEFINE Is(k) == k <= Len(q) /\ (\A i \in 1..k : p[i] = q[i])
                      /\ (k < Len(p) /\ k < Len(q) => p[k + 1] # q[k + 1])
  <1>6. Is(n)
    BY <1>3, <1>4, <1>5
  <1>7. comlen(p, q) = CHOOSE k \in 0..N : Is(k)
    BY DEF comlen
  <1>8. comlen(p, q) \in 0..N /\ Is(comlen(p, q))
    <2> HIDE DEF Is, N
    <2> QED
      BY <1>3, <1>6, <1>7
  <1> QED
    BY <1>1, <1>8 DEF Differ, Agree

LEMMA ComlenSame ==
  ASSUME NEW p \in Seq(Int), NEW q \in Seq(Int)
  PROVE  comlen(q, p) = comlen(p, q)
  <1>1. Differ(p, q, comlen(p, q)) /\ Differ(q, p, comlen(q, p))
        /\ comlen(p, q) \in Nat /\ comlen(q, p) \in Nat
    BY ComlenIs
  <1>2. Differ(p, q, comlen(q, p))
    BY <1>1 DEF Differ, Agree
  <1> QED
    BY <1>1, <1>2, DifferOnce

\* p comes before q, or is it, if after some characters they agree in it ends or has
\* a smaller one.
LEMMA UpToIs ==
  ASSUME NEW p \in Seq(Int), NEW q \in Seq(Int), NEW n \in Nat, Agree(p, q, n),
         n = Len(p) \/ (n < Len(p) /\ n < Len(q) /\ p[n + 1] < q[n + 1])
  PROVE  UpToStr(p, q) /\ comlen(p, q) = n
  <1>1. Len(p) \in Nat /\ Len(q) \in Nat
    OBVIOUS
  <1>2. Differ(p, q, n)
    <2>1. n < Len(p) /\ n < Len(q) => p[n + 1] \in Int /\ q[n + 1] \in Int
      BY <1>1
    <2> QED
      BY <1>1, <2>1 DEF Differ
  <1>3. comlen(p, q) = n
    BY <1>2, ComlenIs, DifferOnce
  <1> QED
    BY <1>3 DEF UpToStr

LEMMA UpToSays ==
  ASSUME NEW p \in Seq(Int), NEW q \in Seq(Int), UpToStr(p, q)
  PROVE  \E n \in Nat : /\ n = comlen(p, q) /\ Agree(p, q, n)
                        /\ n = Len(p) \/ (n < Len(p) /\ n < Len(q) /\ p[n + 1] < q[n + 1])
  <1> DEFINE n == comlen(p, q)
  <1>1. n \in Nat /\ Differ(p, q, n)
    BY ComlenIs
  <1>2. n = Len(p) \/ (n < Len(q) /\ p[n + 1] < q[n + 1])
    BY DEF UpToStr
  <1>3. Len(p) \in Nat /\ Agree(p, q, n) /\ n <= Len(p)
    BY SMTT(30), <1>1 DEF Differ, Agree
  <1> HIDE DEF n
  <1>4. n = Len(p) \/ (n < Len(p) /\ n < Len(q) /\ p[n + 1] < q[n + 1])
    BY <1>1, <1>2, <1>3
  <1> QED
    BY <1>1, <1>3, <1>4 DEF n

LEMMA UpToTransitive ==
  ASSUME NEW p \in Seq(Int), NEW q \in Seq(Int), NEW r \in Seq(Int),
         UpToStr(p, q), UpToStr(q, r)
  PROVE  UpToStr(p, r)
  <1>1. PICK c \in Nat : /\ Agree(p, q, c)
                         /\ c = Len(p) \/ (c < Len(p) /\ c < Len(q) /\ p[c + 1] < q[c + 1])
    BY UpToSays
  <1>2. PICK d \in Nat : /\ Agree(q, r, d)
                         /\ d = Len(q) \/ (d < Len(q) /\ d < Len(r) /\ q[d + 1] < r[d + 1])
    BY UpToSays
  <1>3. Len(p) \in Nat /\ Len(q) \in Nat /\ Len(r) \in Nat
    OBVIOUS
  <1>4. CASE c <= d
    <2>1. Agree(p, r, c)
      BY <1>1, <1>2, <1>3, <1>4 DEF Agree
    <2>2. CASE c = Len(p)
      BY <2>1, <2>2, UpToIs
    <2>3. CASE c < Len(p) /\ c < Len(q) /\ p[c + 1] < q[c + 1]
      <3>0. p[c + 1] \in Int /\ q[c + 1] \in Int
        BY <1>3, <2>3
      <3>1. c < Len(r) /\ p[c + 1] < r[c + 1]
        <4>1. CASE c < d
          <5>1. c < Len(r) /\ c + 1 \in 1..d
            BY <1>2, <1>3, <4>1 DEF Agree
          <5>2. q[c + 1] = r[c + 1]
            BY <1>2, <5>1 DEF Agree
          <5> QED
            BY <2>3, <5>1, <5>2
        <4>2. CASE c = d
          <5>1. c < Len(r) /\ q[c + 1] < r[c + 1]
            BY <1>2, <1>3, <2>3, <4>2
          <5>2. r[c + 1] \in Int
            BY <1>3, <5>1
          <5> QED
            BY <2>3, <3>0, <5>1, <5>2
        <4> QED
          BY <1>4, <4>1, <4>2
      <3> QED
        BY <2>1, <2>3, <3>1, UpToIs
    <2> QED
      BY <1>1, <2>2, <2>3
  <1>5. CASE d < c
    <2>1. Agree(p, r, d)
      <3>1. d <= Len(p) /\ d <= Len(r) /\ \A i \in 1..d : q[i] = r[i]
        BY <1>1, <1>2, <1>3, <1>5 DEF Agree
      <3>2. \A i \in 1..d : i \in 1..c
        BY <1>5
      <3>3. \A i \in 1..d : p[i] = q[i]
        BY <1>1, <3>2 DEF Agree
      <3> QED
        BY <3>1, <3>3 DEF Agree
    <2>2. d < Len(q) /\ d < Len(r) /\ q[d + 1] < r[d + 1]
      <3>1. d < Len(q)
        BY <1>1, <1>3, <1>5 DEF Agree
      <3> QED
        BY <1>2, <1>3, <3>1
    <2>3. d < Len(p) /\ p[d + 1] = q[d + 1]
      <3>1. d + 1 \in 1..c /\ c <= Len(p)
        BY <1>1, <1>5 DEF Agree
      <3> QED
        BY <1>1, <1>3, <1>5, <3>1 DEF Agree
    <2> QED
      BY <2>1, <2>2, <2>3, UpToIs
  <1> QED
    BY <1>4, <1>5

LEMMA UpToTotal ==
  ASSUME NEW p \in Seq(Int), NEW q \in Seq(Int)
  PROVE  /\ UpToStr(p, q) \/ UpToStr(q, p)
         /\ UpToStr(p, q) /\ UpToStr(q, p) => p = q
  <1> DEFINE c == comlen(p, q)
  <1>1. c \in Nat /\ Differ(p, q, c) /\ comlen(q, p) = c
    BY ComlenIs, ComlenSame
  <1>2. Len(p) \in Nat /\ Len(q) \in Nat /\ c <= Len(p) /\ c <= Len(q)
        /\ \A i \in 1..c : p[i] = q[i]
    BY <1>1 DEF Differ, Agree
  <1>3. /\ UpToStr(p, q) <=> c = Len(p) \/ (c < Len(q) /\ p[c + 1] < q[c + 1])
        /\ UpToStr(q, p) <=> c = Len(q) \/ (c < Len(p) /\ q[c + 1] < p[c + 1])
    BY <1>1 DEF UpToStr
  <1>4. c < Len(p) /\ c < Len(q) => p[c + 1] # q[c + 1] /\ p[c + 1] \in Int /\ q[c + 1] \in Int
    BY <1>1, <1>2 DEF Differ
  <1> HIDE DEF c
  <1>5. UpToStr(p, q) \/ UpToStr(q, p)
    BY <1>1, <1>2, <1>3, <1>4
  <1>6. ASSUME UpToStr(p, q), UpToStr(q, p) PROVE p = q
    <2>1. c = Len(p) /\ c = Len(q)
      BY <1>1, <1>2, <1>3, <1>4, <1>6
    <2> QED
      BY <1>2, <2>1, SeqEqual
  <1> QED
    BY <1>5, <1>6

\* What is between two strings agrees with the first in as much as the second does.
LEMMA Between ==
  ASSUME NEW p \in Seq(Int), NEW r \in Seq(Int), NEW q \in Seq(Int),
         UpToStr(p, r), UpToStr(r, q)
  PROVE  comlen(p, q) <= comlen(p, r)
  <1> DEFINE c == comlen(p, q)
  <1>1. PICK d \in Nat : /\ d = comlen(p, r) /\ Agree(p, r, d)
                         /\ d = Len(p) \/ (d < Len(p) /\ d < Len(r) /\ p[d + 1] < r[d + 1])
    BY UpToSays
  <1>2. c \in Nat /\ Agree(p, q, c) /\ Len(p) \in Nat /\ Len(q) \in Nat /\ Len(r) \in Nat
    BY ComlenIs DEF Differ
  <1> HIDE DEF c
  <1> SUFFICES ASSUME d < c PROVE FALSE
    BY <1>1, <1>2 DEF c
  <1>3. d < Len(p) /\ d < Len(q) /\ d + 1 \in 1..c
    BY <1>2 DEF Agree
  <1>4. p[d + 1] = q[d + 1] /\ d < Len(r) /\ p[d + 1] < r[d + 1]
    <2>1. p[d + 1] = q[d + 1]
      BY <1>2, <1>3 DEF Agree
    <2>2. d # Len(p)
      BY <1>2, <1>3
    <2> QED
      BY <1>1, <2>1, <2>2
  <1>5. Agree(q, r, d)
    BY SMTT(30), <1>1, <1>2, <1>3 DEF Agree
  <1>6. UpToStr(q, r) /\ comlen(q, r) = d
    BY <1>3, <1>4, <1>5, UpToIs
  <1>7. q = r
    BY <1>6, UpToTotal
  <1> QED
    BY <1>2, <1>3, <1>4, <1>7

------------------------------------------------------------------------------
(* The sorted suffixes.                                                     *)

Suffix(str, i) == SubSeq(str, i, Len(str))

LEMMA SuffixIs ==
  ASSUME NEW str \in Seq(Int), NEW i \in 1..Len(str)
  PROVE  /\ Suffix(str, i) \in Seq(Int) /\ Len(Suffix(str, i)) = Len(str) - i + 1
         /\ \A k \in 1..Len(str) - i + 1 : Suffix(str, i)[k] = str[i + k - 1]
  <1> DEFINE n == Len(str)
  <1>1. n \in Nat /\ n \in Int /\ i \in Int /\ \A k \in i..n : str[k] \in Int
    OBVIOUS
  <1>2. i <= n
    OBVIOUS
  <1> HIDE DEF n
  <1>3. /\ SubSeq(str, i, n) \in Seq(Int)
        /\ Len(SubSeq(str, i, n)) = IF i <= n THEN n - i + 1 ELSE 0
        /\ \A k \in 1..n - i + 1 : SubSeq(str, i, n)[k] = str[i + k - 1]
    BY <1>1, SubSeqProperties
  <1> QED
    BY <1>2, <1>3 DEF Suffix, n

\* There are as many as there are characters.
LEMMA SuffixesAre ==
  ASSUME NEW str \in Seq(Int)
  PROVE  /\ suffixes(str) = {Suffix(str, i) : i \in 1..Len(str)} /\ Len(str) \in Nat
         /\ IsFiniteSet(suffixes(str)) /\ Cardinality(suffixes(str)) = Len(str)
         /\ suffixes(str) \subseteq Seq(Int)
  <1> DEFINE n == Len(str)
             S == suffixes(str)
             f == [i \in 1..n |-> Suffix(str, i)]
  <1>1. S = {Suffix(str, i) : i \in 1..n} /\ n \in Nat
    BY DEF suffixes, Suffix
  <1> HIDE DEF S
  <1>2. f \in Surjection(1..n, S)
    <2>1. f \in [1..n -> S] /\ \A t \in S : \E i \in 1..n : f[i] = t
      BY <1>1
    <2> HIDE DEF f, n
    <2> QED
      BY <2>1, Fun_IsSurj
  <1>3. f \in Injection(1..n, S)
    <2>1. f \in [1..n -> S]
      BY <1>1
    <2>2. \A i, j \in 1..n : f[i] = f[j] => i = j
      <3> SUFFICES ASSUME NEW i \in 1..n, NEW j \in 1..n, f[i] = f[j] PROVE i = j
        OBVIOUS
      <3>1. Len(f[i]) = n - i + 1 /\ Len(f[j]) = n - j + 1
        BY SuffixIs
      <3> HIDE DEF f, n
      <3> QED
        BY <1>1, <3>1
    <2> HIDE DEF f, n
    <2> QED
      BY <2>1, <2>2, Fun_IsInj
  <1>4. IsFiniteSet(1..n) /\ Cardinality(1..n) = n
    <2>1. 1 \in Int /\ n \in Int
      BY <1>1
    <2> HIDE DEF n
    <2> QED
      BY <1>1, <2>1, FS_Interval
  <1> HIDE DEF f
  <1>5. IsFiniteSet(S) /\ Cardinality(S) = n
    BY <1>2, <1>3, <1>4, FS_Surjection
  <1>6. S \subseteq Seq(Int)
    BY <1>1, SuffixIs
  <1> QED
    BY <1>1, <1>5, <1>6 DEF S

LEMMA PlaceOrders ==
  ASSUME NEW str \in Seq(Int), NEW p \in suffixes(str), NEW q \in suffixes(str)
  PROVE  /\ Place(str, p) \in 1..Len(str)
         /\ UpToStr(p, q) <=> Place(str, p) <= Place(str, q)
         /\ Place(str, p) = Place(str, q) => p = q
  <1> DEFINE S == suffixes(str)
             A(r) == {x \in S : UpToStr(x, r)}
  <1>1. IsFiniteSet(S) /\ Cardinality(S) = Len(str) /\ S \subseteq Seq(Int) /\ Len(str) \in Nat
    BY SuffixesAre
  <1>2. \A r : Place(str, r) = Cardinality(A(r))
    BY DEF Place
  <1>3. \A r : A(r) \subseteq S
    OBVIOUS
  <1> HIDE DEF S
  <1>4. \A r : IsFiniteSet(A(r)) /\ Cardinality(A(r)) \in Nat /\ Cardinality(A(r)) <= Len(str)
    <2> SUFFICES ASSUME NEW r
                 PROVE  /\ IsFiniteSet(A(r)) /\ Cardinality(A(r)) \in Nat
                        /\ Cardinality(A(r)) <= Len(str)
      OBVIOUS
    <2>1. A(r) \in SUBSET S
      BY <1>3
    <2> HIDE DEF A
    <2> QED
      BY <1>1, <2>1, FS_Subset, FS_CardinalityType
  <1>5. p \in S /\ q \in S /\ p \in Seq(Int) /\ q \in Seq(Int)
    BY <1>1 DEF S
  <1>6. \A r \in S : r \in A(r)
    <2> SUFFICES ASSUME NEW r \in S PROVE UpToStr(r, r)
      OBVIOUS
    <2> QED
      BY <1>1, UpToTotal
  <1>7. ASSUME NEW x \in S, NEW y \in S, UpToStr(x, y)
        PROVE  /\ Cardinality(A(x)) <= Cardinality(A(y))
               /\ x # y => Cardinality(A(x)) < Cardinality(A(y))
    <2>1. A(x) \subseteq A(y)
      <3> SUFFICES ASSUME NEW z \in S, UpToStr(z, x) PROVE UpToStr(z, y)
        OBVIOUS
      <3> QED
        BY <1>1, <1>7, UpToTransitive
    <2>2. x # y => A(x) # A(y)
      <3> SUFFICES ASSUME x # y, A(x) = A(y) PROVE FALSE
        OBVIOUS
      <3>1. UpToStr(y, x)
        BY <1>6
      <3> QED
        BY <1>1, <1>7, <3>1, UpToTotal
    <2> DEFINE a == A(x)
               b == A(y)
    <2>3. a \in SUBSET b /\ IsFiniteSet(b) /\ Cardinality(a) \in Nat /\ Cardinality(b) \in Nat
      BY <1>4, <2>1
    <2>4. x # y => a # b
      BY <2>2
    <2> HIDE DEF a, b, A
    <2>5. Cardinality(a) <= Cardinality(b) /\ (Cardinality(b) = Cardinality(a) => b = a)
      BY <2>3, FS_Subset
    <2>6. Cardinality(a) <= Cardinality(b) /\ (x # y => Cardinality(a) < Cardinality(b))
      BY <2>3, <2>4, <2>5
    <2> QED
      BY <2>6 DEF a, b
  <1>8. Cardinality(A(p)) >= 1
    <2> DEFINE a == A(p)
    <2>1. p \in a /\ IsFiniteSet(a) /\ Cardinality(a) \in Nat
      BY <1>4, <1>5, <1>6
    <2> HIDE DEF a
    <2>2. Cardinality(a) # 0
      BY <2>1, FS_EmptySet
    <2>3. Cardinality(a) >= 1
      BY <2>1, <2>2
    <2> QED
      BY <2>3 DEF a
  <1> HIDE DEF A
  <1>9. Place(str, p) \in 1..Len(str)
    BY <1>1, <1>2, <1>4, <1>8
  <1>10. UpToStr(p, q) => Place(str, p) <= Place(str, q)
    BY <1>2, <1>5, <1>7
  <1>11. ASSUME ~UpToStr(p, q) PROVE Place(str, q) < Place(str, p)
    <2>1. UpToStr(q, p) /\ q # p
      BY <1>5, <1>11, UpToTotal
    <2> QED
      BY <1>2, <1>5, <1>7, <2>1
  <1>12. p # q => Place(str, p) # Place(str, q)
    <2> SUFFICES ASSUME p # q PROVE Place(str, p) # Place(str, q)
      OBVIOUS
    <2>1. UpToStr(p, q) \/ UpToStr(q, p)
      BY <1>5, UpToTotal
    <2>2. Place(str, p) < Place(str, q) \/ Place(str, q) < Place(str, p)
      BY <1>2, <1>5, <1>7, <2>1
    <2>3. Place(str, p) \in Nat /\ Place(str, q) \in Nat
      BY <1>2, <1>4
    <2> QED
      BY <2>2, <2>3
  <1>13. Place(str, p) \in Nat /\ Place(str, q) \in Nat
    BY <1>2, <1>4
  <1>14. UpToStr(p, q) <=> Place(str, p) <= Place(str, q)
    BY <1>10, <1>11, <1>13
  <1> QED
    BY <1>9, <1>12, <1>14

\* Every place is one suffix's.
LEMMA Placed ==
  ASSUME NEW str \in Seq(Int), NEW i \in 1..Len(str)
  PROVE  psuffixes(str)[i] \in suffixes(str) /\ Place(str, psuffixes(str)[i]) = i
  <1> DEFINE n == Len(str)
             S == suffixes(str)
             f == [p \in S |-> Place(str, p)]
  <1>1. IsFiniteSet(S) /\ Cardinality(S) = n /\ n \in Nat
    BY SuffixesAre
  <1>2. f \in [S -> 1..n] /\ \A a, b \in S : f[a] = f[b] => a = b
    BY PlaceOrders
  <1>3. f \in Injection(S, 1..n)
    <2> HIDE DEF f, S
    <2> QED
      BY <1>2, Fun_IsInj
  <1>4. IsFiniteSet(1..n) /\ Cardinality(1..n) = n
    <2>1. 1 \in Int /\ n \in Int
      BY <1>1
    <2> HIDE DEF n
    <2> QED
      BY <1>1, <2>1, FS_Interval
  <1>5. f \in Surjection(S, 1..n)
    <2> HIDE DEF f, S
    <2> QED
      BY <1>1, <1>3, <1>4, FS_Injection
  <1>6. \E p \in S : f[p] = i
    <2> HIDE DEF f, S
    <2> QED
      BY <1>5 DEF Surjection
  <1>7. \E p \in S : Place(str, p) = i
    BY <1>6
  <1>8. psuffixes(str)[i] = CHOOSE p \in S : Place(str, p) = i
    BY DEF psuffixes
  <1> HIDE DEF S
  <1>9. psuffixes(str)[i] \in S /\ Place(str, psuffixes(str)[i]) = i
    BY <1>7, <1>8
  <1> QED
    BY <1>9 DEF S

\* Two suffixes agree in no more than some two neighbours do.
LEMMA NextTo ==
  ASSUME NEW str \in Seq(Int), NEW x \in suffixes(str), NEW y \in suffixes(str),
         Place(str, x) < Place(str, y)
  PROVE  \E k \in 1..Len(str) - 1 :
           comlen(x, y) <= comlen(psuffixes(str)[k], psuffixes(str)[k + 1])
  <1> DEFINE n == Len(str)
             k == Place(str, x)
             next == psuffixes(str)[k + 1]
  <1>1. n \in Nat /\ k \in 1..n /\ Place(str, y) \in 1..n /\ suffixes(str) \subseteq Seq(Int)
    BY PlaceOrders, SuffixesAre
  <1>2. k \in 1..n - 1 /\ k + 1 \in 1..n
    BY <1>1
  <1>3. psuffixes(str)[k] = x
    BY <1>1, Placed, PlaceOrders
  <1>4. next \in suffixes(str) /\ Place(str, next) = k + 1
    BY <1>2, Placed
  <1> HIDE DEF n, next
  <1>5. UpToStr(x, next) /\ UpToStr(next, y)
    <2>1. k <= Place(str, next) /\ Place(str, next) <= Place(str, y)
      BY <1>1, <1>2, <1>4
    <2> HIDE DEF k
    <2> QED
      BY <1>4, <2>1, PlaceOrders DEF k
  <1>6. comlen(x, y) <= comlen(x, next)
    BY <1>1, <1>4, <1>5, Between
  <1> QED
    BY <1>2, <1>3, <1>6 DEF n, next

LEMMA SomeNeighbours ==
  ASSUME NEW str \in Seq(Int), NEW x \in suffixes(str), NEW y \in suffixes(str), x # y
  PROVE  \E k \in 1..Len(str) - 1 :
           comlen(x, y) <= comlen(psuffixes(str)[k], psuffixes(str)[k + 1])
  <1>1. /\ x \in Seq(Int) /\ y \in Seq(Int) /\ Len(str) \in Nat
        /\ Place(str, x) \in 1..Len(str) /\ Place(str, y) \in 1..Len(str)
        /\ Place(str, x) # Place(str, y)
    BY PlaceOrders, SuffixesAre
  <1>2. CASE Place(str, x) < Place(str, y)
    BY <1>2, NextTo
  <1>3. CASE Place(str, y) < Place(str, x)
    <2>1. \E k \in 1..Len(str) - 1 :
            comlen(y, x) <= comlen(psuffixes(str)[k], psuffixes(str)[k + 1])
      BY <1>3, NextTo
    <2>2. comlen(y, x) = comlen(x, y)
      BY <1>1, ComlenSame
    <2> QED
      BY <2>1, <2>2
  <1> QED
    BY <1>1, <1>2, <1>3

LEMMA GreatestOf ==
  ASSUME NEW N \in Nat, NEW T, T \subseteq 0..N, T # {}
  PROVE  \E k \in T : \A j \in T : k >= j
  <1> DEFINE R == {k \in 0..N : N - k \in T}
  <1>1. R \subseteq 0..N /\ R # {}
    <2>1. PICK t \in T : TRUE
      OBVIOUS
    <2>2. t \in 0..N /\ N - t \in 0..N /\ N - (N - t) = t
      BY <2>1
    <2>3. N - t \in R
      BY <2>1, <2>2
    <2> QED
      BY <2>3
  <1>2. PICK k \in R : \A j \in R : k <= j
    <2> HIDE DEF R
    <2> QED
      BY <1>1, LeastOf
  <1>3. N - k \in T /\ k \in 0..N
    BY <1>2
  <1>4. ASSUME NEW j \in T PROVE N - k >= j
    <2>1. j \in 0..N /\ N - j \in 0..N /\ N - (N - j) = j
      OBVIOUS
    <2>2. N - j \in R
      BY <2>1
    <2> HIDE DEF R
    <2>3. k <= N - j
      BY <1>2, <2>2
    <2> QED
      BY <1>3, <2>1, <2>3
  <1> QED
    BY <1>3, <1>4

\* A part of a string by its characters.
LEMMA PartIs ==
  ASSUME NEW s \in Seq(Int), NEW a \in Int, NEW m \in Nat, 1 <= a, a + m - 1 <= Len(s)
  PROVE  /\ SubSeq(s, a, a + m - 1) \in Seq(Int) /\ Len(SubSeq(s, a, a + m - 1)) = m
         /\ \A j \in 1..m : SubSeq(s, a, a + m - 1)[j] = s[a + j - 1]
  <1> DEFINE b == a + m - 1
  <1>1. b \in Int /\ b = a + m - 1 /\ Len(s) \in Nat /\ \A j \in a..b : s[j] \in Int
    OBVIOUS
  <1> HIDE DEF b
  <1>2. /\ SubSeq(s, a, b) \in Seq(Int)
        /\ Len(SubSeq(s, a, b)) = IF a <= b THEN b - a + 1 ELSE 0
        /\ \A j \in 1..b - a + 1 : SubSeq(s, a, b)[j] = s[a + j - 1]
    BY <1>1, SubSeqProperties
  <1>3. b - a + 1 = m /\ (a <= b <=> m > 0)
    BY <1>1
  <1>4. Len(SubSeq(s, a, b)) = m
    BY <1>2, <1>3
  <1> QED
    BY <1>2, <1>3, <1>4 DEF b

\* What two suffixes begin with is in the string where they begin.
LEMMA PartOfSuffix ==
  ASSUME NEW str \in Seq(Int), NEW a \in 1..Len(str), NEW m \in Nat,
         m <= Len(Suffix(str, a))
  PROVE  /\ SubSeq(Suffix(str, a), 1, m) = SubSeq(str, a, a + m - 1)
         /\ Len(SubSeq(str, a, a + m - 1)) = m /\ a + m - 1 <= Len(str)
  <1> DEFINE n == Len(str)
             x == Suffix(str, a)
  <1>1. /\ x \in Seq(Int) /\ Len(x) = n - a + 1 /\ n \in Nat
        /\ \A k \in 1..n - a + 1 : x[k] = str[a + k - 1]
    <2>1. n \in Nat
      OBVIOUS
    <2>2. /\ x \in Seq(Int) /\ Len(x) = n - a + 1
          /\ \A k \in 1..n - a + 1 : x[k] = str[a + k - 1]
      BY SuffixIs
    <2> HIDE DEF n, x
    <2> QED
      BY <2>1, <2>2
  <1>2. a \in Int /\ 1 <= a /\ a + m - 1 <= n /\ 1 + m - 1 = m /\ 1 \in Int
    BY <1>1
  <1> HIDE DEF x
  <1>3. SubSeq(x, 1, m) \in Seq(Int) /\ Len(SubSeq(x, 1, m)) = m
        /\ \A j \in 1..m : SubSeq(x, 1, m)[j] = x[1 + j - 1]
    <2>1. 1 + m - 1 <= Len(x) /\ 1 <= 1
      BY <1>2 DEF x
    <2>2. /\ SubSeq(x, 1, 1 + m - 1) \in Seq(Int) /\ Len(SubSeq(x, 1, 1 + m - 1)) = m
          /\ \A j \in 1..m : SubSeq(x, 1, 1 + m - 1)[j] = x[1 + j - 1]
      BY <1>1, <1>2, <2>1, PartIs
    <2> QED
      BY <1>2, <2>2
  <1>4. SubSeq(str, a, a + m - 1) \in Seq(Int) /\ Len(SubSeq(str, a, a + m - 1)) = m
        /\ \A j \in 1..m : SubSeq(str, a, a + m - 1)[j] = str[a + j - 1]
    BY <1>2, PartIs
  <1>5. ASSUME NEW j \in 1..m PROVE SubSeq(x, 1, m)[j] = SubSeq(str, a, a + m - 1)[j]
    <2>1. 1 + j - 1 = j /\ j \in 1..n - a + 1
      BY <1>1, <1>2
    <2> QED
      BY <1>1, <1>3, <1>4, <2>1
  <1>6. SubSeq(x, 1, m) = SubSeq(str, a, a + m - 1)
    BY <1>3, <1>4, <1>5, SeqEqual
  <1> QED
    BY <1>2, <1>4, <1>6 DEF x

\* What comes out is what LongestRepeat says, for every string.
LEMMA LongestFound ==
  ASSUME NEW str \in Seq(Int), Len(str) > 0
  PROVE  Longest(str, maxcomsubstr(str))
  <1> DEFINE n == Len(str)
             p == psuffixes(str)
             len == [i \in 1..Len(p) - 1 |-> comlen(p[i], p[i + 1])]
             lens == {0} \cup {len[i] : i \in DOMAIN len}
             maxlen == Max(lens)
             at == {i \in DOMAIN len : len[i] = maxlen}
             maxi == IF maxlen = 0 THEN 1 ELSE Min(at)
             r == SubSeq(p[maxi], 1, maxlen)
  <1>1. /\ n \in Nat /\ n > 0 /\ Len(p) = n /\ DOMAIN len = 1..n - 1
        /\ \A i \in 1..n : p[i] \in suffixes(str)
        /\ \A i \in 1..n - 1 : len[i] = comlen(p[i], p[i + 1])
    <2>1. n \in Nat /\ Len(p) = n
      BY DEF psuffixes
    <2>2. \A i \in 1..n : p[i] \in suffixes(str)
      BY Placed
    <2> HIDE DEF p
    <2> QED
      BY <2>1, <2>2
  <1>2. maxcomsubstr(str) = r
    BY DEF maxcomsubstr, LongestCommon
  <1> HIDE DEF len, p
  <1>3. \A i \in 1..n - 1 : /\ len[i] \in 0..n /\ len[i] <= Len(p[i]) /\ len[i] <= Len(p[i + 1])
                            /\ \A k \in 1..len[i] : p[i][k] = p[i + 1][k]
    <2> SUFFICES ASSUME NEW i \in 1..n - 1
                 PROVE  /\ len[i] \in 0..n /\ len[i] <= Len(p[i]) /\ len[i] <= Len(p[i + 1])
                        /\ \A k \in 1..len[i] : p[i][k] = p[i + 1][k]
      OBVIOUS
    <2>1. p[i] \in suffixes(str) /\ p[i + 1] \in suffixes(str)
      BY <1>1
    <2>2. PICK a \in 1..n : p[i] = Suffix(str, a)
      BY <2>1, SuffixesAre
    <2>3. Len(p[i]) <= n
      BY <1>1, <2>2, SuffixIs
    <2>4. p[i] \in Seq(Int) /\ p[i + 1] \in Seq(Int)
      BY <2>1, SuffixesAre
    <2>5. comlen(p[i], p[i + 1]) \in Nat /\ Agree(p[i], p[i + 1], comlen(p[i], p[i + 1]))
      BY <2>4, ComlenIs DEF Differ
    <2>6. len[i] = comlen(p[i], p[i + 1])
      BY <1>1
    <2> QED
      BY SMTT(30), <1>1, <2>3, <2>4, <2>5, <2>6 DEF Agree
  <1>4. maxlen \in lens /\ \A j \in lens : maxlen >= j
    <2>1. lens \subseteq 0..n /\ lens # {}
      BY <1>1, <1>3
    <2> HIDE DEF lens
    <2>2. \E k \in lens : \A j \in lens : k >= j
      BY <1>1, <2>1, GreatestOf
    <2> QED
      BY <2>2 DEF Max
  <1>5. /\ maxlen \in 0..n /\ \A i \in 1..n - 1 : len[i] <= maxlen
        /\ maxlen # 0 => \E i \in 1..n - 1 : len[i] = maxlen
    <2>1. \A i \in 1..n - 1 : len[i] \in lens
      BY <1>1
    <2>2. \A k \in lens : k = 0 \/ \E i \in 1..n - 1 : len[i] = k
      BY <1>1
    <2>3. \A k \in lens : k \in 0..n
      BY <1>1, <1>3, <2>2
    <2> HIDE DEF lens
    <2>4. ASSUME NEW i \in 1..n - 1 PROVE len[i] <= maxlen
      BY <1>1, <1>3, <1>4, <2>1, <2>3
    <2> QED
      BY <1>4, <2>2, <2>3, <2>4
  <1> HIDE DEF maxlen
  <1>6. maxlen # 0 => maxi \in 1..n - 1 /\ len[maxi] = maxlen
    <2> SUFFICES ASSUME maxlen # 0 PROVE maxi \in 1..n - 1 /\ len[maxi] = maxlen
      OBVIOUS
    <2>0. PICK i \in 1..n - 1 : len[i] = maxlen
      BY <1>5
    <2>1. at \subseteq 0..n /\ at # {} /\ \A k \in at : k \in 1..n - 1 /\ len[k] = maxlen
      <3>1. i \in at
        BY <1>1, <2>0
      <3>2. \A k \in at : k \in 1..n - 1 /\ len[k] = maxlen
        BY <1>1
      <3> HIDE DEF at
      <3> QED
        BY <1>1, <3>1, <3>2
    <2> HIDE DEF at
    <2>2. \E x \in at : \A y \in at : x <= y
      BY <1>1, <2>1, LeastOf
    <2>3. Min(at) \in at
      BY <2>2 DEF Min
    <2> QED
      BY <2>1, <2>3
  <1> HIDE DEF maxi
  <1>7. maxlen = 0 => r = <<>>
    <2>1. SubSeq(p[maxi], 1, 0) = <<>>
      OBVIOUS
    <2> QED
      BY <2>1
  <1>8. maxlen # 0 => Twice(str, r)
    <2> SUFFICES ASSUME maxlen # 0 PROVE Twice(str, r)
      OBVIOUS
    <2>1. maxi \in 1..n - 1 /\ len[maxi] = maxlen /\ maxi \in 1..n /\ maxi + 1 \in 1..n
      BY <1>1, <1>6
    <2>2. PICK a \in 1..n : p[maxi] = Suffix(str, a)
      BY <1>1, <2>1, SuffixesAre
    <2>3. PICK b \in 1..n : p[maxi + 1] = Suffix(str, b)
      BY <1>1, <2>1, SuffixesAre
    <2>4. a # b
      <3>1. Place(str, p[maxi]) = maxi /\ Place(str, p[maxi + 1]) = maxi + 1
        BY <2>1, Placed DEF p
      <3>2. maxi # maxi + 1
        BY <2>1
      <3> QED
        BY <2>2, <2>3, <3>1, <3>2
    <2>5. /\ maxlen <= Len(Suffix(str, a)) /\ maxlen <= Len(Suffix(str, b)) /\ maxlen \in Nat
          /\ \A k \in 1..maxlen : Suffix(str, a)[k] = Suffix(str, b)[k]
      <3>1. /\ len[maxi] <= Len(p[maxi]) /\ len[maxi] <= Len(p[maxi + 1])
            /\ \A k \in 1..len[maxi] : p[maxi][k] = p[maxi + 1][k]
        BY <1>3, <2>1
      <3>2. maxlen \in Nat /\ len[maxi] = maxlen
        BY <1>5, <2>1
      <3> QED
        BY <2>2, <2>3, <3>1, <3>2
    <2>6. /\ SubSeq(Suffix(str, a), 1, maxlen) = SubSeq(str, a, a + maxlen - 1)
          /\ Len(SubSeq(str, a, a + maxlen - 1)) = maxlen /\ a + maxlen - 1 <= n
      BY <2>5, PartOfSuffix
    <2>7. /\ SubSeq(Suffix(str, b), 1, maxlen) = SubSeq(str, b, b + maxlen - 1)
          /\ Len(SubSeq(str, b, b + maxlen - 1)) = maxlen /\ b + maxlen - 1 <= n
      BY <2>5, PartOfSuffix
    <2>8. SubSeq(str, a, a + maxlen - 1) = SubSeq(str, b, b + maxlen - 1)
      <3>1. a \in Int /\ b \in Int /\ 1 <= a /\ 1 <= b
        OBVIOUS
      <3>2. /\ SubSeq(str, a, a + maxlen - 1) \in Seq(Int)
            /\ \A j \in 1..maxlen : SubSeq(str, a, a + maxlen - 1)[j] = str[a + j - 1]
        BY <2>5, <2>6, <3>1, PartIs
      <3>3. /\ SubSeq(str, b, b + maxlen - 1) \in Seq(Int)
            /\ \A j \in 1..maxlen : SubSeq(str, b, b + maxlen - 1)[j] = str[b + j - 1]
        BY <2>5, <2>7, <3>1, PartIs
      <3>4. ASSUME NEW j \in 1..maxlen PROVE str[a + j - 1] = str[b + j - 1]
        <4>1. j \in 1..n - a + 1 /\ j \in 1..n - b + 1
          BY <1>1, <2>5, <2>6, <2>7
        <4>2. Suffix(str, a)[j] = str[a + j - 1] /\ Suffix(str, b)[j] = str[b + j - 1]
          BY <4>1, SuffixIs
        <4> QED
          BY <2>5, <4>2
      <3> DEFINE u == SubSeq(str, a, a + maxlen - 1)
                 v == SubSeq(str, b, b + maxlen - 1)
      <3>5. /\ u \in Seq(Int) /\ v \in Seq(Int) /\ Len(u) = Len(v)
            /\ \A j \in 1..Len(u) : u[j] = v[j]
        BY <2>6, <2>7, <3>2, <3>3, <3>4
      <3> HIDE DEF u, v
      <3>6. u = v
        BY <3>5, SeqEqual
      <3> QED
        BY <3>6 DEF u, v
    <2>9. /\ r = SubSeq(str, a, a + maxlen - 1) /\ r = SubSeq(str, b, b + maxlen - 1)
          /\ Len(r) = maxlen
      BY <2>2, <2>6, <2>8
    <2>10. a \in 1..n - maxlen + 1 /\ b \in 1..n - maxlen + 1
      BY <1>1, <2>5, <2>6, <2>7
    <2> HIDE DEF r
    <2> QED
      BY <2>4, <2>9, <2>10 DEF Twice
  <1>9. Len(r) = maxlen
    <2>1. CASE maxlen = 0
      BY <1>7, <2>1
    <2>2. CASE maxlen # 0
      <3>1. PICK a \in 1..n : p[maxi] = Suffix(str, a)
        <4>1. maxi \in 1..n
          BY <1>1, <1>6, <2>2
        <4>2. p[maxi] \in suffixes(str)
          BY <1>1, <4>1
        <4> QED
          BY <4>2, SuffixesAre
      <3>2. maxlen \in Nat /\ maxlen <= Len(Suffix(str, a))
        <4>1. maxi \in 1..n - 1 /\ len[maxi] = maxlen /\ maxlen \in Nat
          BY <1>5, <1>6, <2>2
        <4>2. len[maxi] <= Len(p[maxi])
          BY <1>3, <4>1
        <4> QED
          BY <3>1, <4>1, <4>2
      <3>3. SubSeq(Suffix(str, a), 1, maxlen) = SubSeq(str, a, a + maxlen - 1)
            /\ Len(SubSeq(str, a, a + maxlen - 1)) = maxlen
        BY <3>2, PartOfSuffix
      <3> QED
        BY <3>1, <3>3
    <2> QED
      BY <2>1, <2>2
  <1> HIDE DEF r
  <1>10. ASSUME NEW i \in 1..n, i + maxlen <= n, Twice(str, SubSeq(str, i, i + maxlen))
         PROVE  FALSE
    <2> DEFINE m == maxlen + 1
               longer == SubSeq(str, i, i + maxlen)
    <2>1. m \in Nat /\ m = maxlen + 1 /\ i + m - 1 = i + maxlen /\ Len(longer) = m
      <3>1. m \in Nat /\ m = maxlen + 1 /\ i + m - 1 = i + maxlen /\ i \in Int /\ 1 <= i
            /\ i + m - 1 <= Len(str)
        BY <1>1, <1>5, <1>10
      <3> HIDE DEF m
      <3>2. Len(SubSeq(str, i, i + m - 1)) = m
        BY <3>1, PartIs
      <3> QED
        BY <3>1, <3>2
    <2> HIDE DEF m, longer
    <2>2. PICK a, b \in 1..n - m + 1 :
            /\ a # b /\ SubSeq(str, a, a + m - 1) = longer
            /\ SubSeq(str, b, b + m - 1) = longer
      BY <1>10, <2>1 DEF Twice, longer
    <2>3. /\ a \in 1..n /\ b \in 1..n /\ a \in Int /\ b \in Int /\ 1 <= a /\ 1 <= b
          /\ a + m - 1 <= n /\ b + m - 1 <= n
      BY <1>1, <1>5, <2>1
    <2> DEFINE x == Suffix(str, a)
               y == Suffix(str, b)
    <2>4. /\ x \in Seq(Int) /\ Len(x) = n - a + 1 /\ y \in Seq(Int) /\ Len(y) = n - b + 1
          /\ \A k \in 1..n - a + 1 : x[k] = str[a + k - 1]
          /\ \A k \in 1..n - b + 1 : y[k] = str[b + k - 1]
      BY <2>3, SuffixIs
    <2>5. x # y /\ x \in suffixes(str) /\ y \in suffixes(str)
      <3>1. Len(x) # Len(y)
        BY <1>1, <2>2, <2>3, <2>4
      <3> QED
        BY <2>3, <3>1, SuffixesAre
    <2> HIDE DEF x, y
    <2>11. /\ n \in Nat /\ m \in Nat /\ a \in Int /\ b \in Int /\ Len(x) = n - a + 1
          /\ Len(y) = n - b + 1 /\ a + m - 1 <= n /\ b + m - 1 <= n
      BY <1>1, <2>1, <2>3, <2>4
    <2> HIDE DEF n
    <2>6. m <= Len(x) /\ m <= Len(y) /\ \A k \in 1..m : x[k] = y[k]
      <3>1. \A k \in 1..m : longer[k] = str[a + k - 1]
        <4>1. \A k \in 1..m : SubSeq(str, a, a + m - 1)[k] = str[a + k - 1]
          BY <2>1, <2>3, PartIs
        <4> QED
          BY <2>2, <4>1
      <3>2. \A k \in 1..m : longer[k] = str[b + k - 1]
        <4>1. \A k \in 1..m : SubSeq(str, b, b + m - 1)[k] = str[b + k - 1]
          BY <2>1, <2>3, PartIs
        <4> QED
          BY <2>2, <4>1
      <3>3. m <= Len(x) /\ m <= Len(y)
        BY <2>11
      <3>4. ASSUME NEW k \in 1..m PROVE x[k] = y[k]
        <4>1. k \in 1..n - a + 1 /\ k \in 1..n - b + 1
          BY <2>11
        <4> QED
          BY <2>4, <3>1, <3>2, <4>1
      <3> QED
        BY <3>3, <3>4
    <2>7. m <= comlen(x, y)
      <3> DEFINE c == comlen(x, y)
      <3>1. c \in Nat /\ Differ(x, y, c)
        BY <2>4, ComlenIs
      <3> HIDE DEF c
      <3>2. ASSUME c < m PROVE FALSE
        <4>1. c < Len(x) /\ c < Len(y) /\ c + 1 \in 1..m
          <5>1. m <= Len(x) /\ m <= Len(y)
            BY <2>6
          <5> QED
            BY <2>11, <3>1, <3>2, <5>1
        <4> QED
          BY <2>6, <3>1, <4>1 DEF Differ
      <3>3. m <= c
        BY <2>1, <3>1, <3>2
      <3> QED
        BY <3>3 DEF c
    <2>8. PICK k \in 1..n - 1 : comlen(x, y) <= comlen(p[k], p[k + 1])
      BY <2>5, SomeNeighbours DEF p, n
    <2>9. comlen(p[k], p[k + 1]) <= maxlen /\ comlen(p[k], p[k + 1]) \in Nat
      <3>1. len[k] = comlen(p[k], p[k + 1]) /\ len[k] <= maxlen /\ len[k] \in 0..n
        BY <1>1, <1>3, <1>5
      <3> QED
        BY <1>1, <3>1
    <2>10. comlen(x, y) \in Nat
      BY <2>4, ComlenIs
    <2> QED
      BY <1>5, <2>1, <2>7, <2>8, <2>9, <2>10
  <1>11. r = <<>> \/ Twice(str, r)
    BY <1>7, <1>8
  <1>12. DOMAIN str = 1..n
    OBVIOUS
  <1> QED
    BY <1>2, <1>9, <1>10, <1>11, <1>12 DEF Longest

------------------------------------------------------------------------------
(* Bits.                                                                    *)

Bit == {0, 1}
Bits == [1..8 -> Bit]
Plus(a, b) == (a + b) % 2

LEMMA PlusIs ==
  ASSUME NEW a \in Bit, NEW b \in Bit, NEW c \in Bit
  PROVE  /\ Plus(a, b) \in Bit /\ Plus(a, 0) = a /\ Plus(a, 1) = 1 - a /\ Plus(a, b) = Plus(b, a)
         /\ Plus(Plus(a, b), c) = Plus(Plus(a, c), b)
         /\ Plus(a, c) = Plus(b, c) => a = b
  BY DEF Plus, Bit

LEMMA XorIs ==
  ASSUME NEW a \in Bits, NEW b \in Bits
  PROVE  Xor(a, b) \in Bits /\ \A i \in 1..8 : Xor(a, b)[i] = Plus(a[i], b[i])
  <1>1. \A i \in 1..8 : a[i] \in Bit /\ b[i] \in Bit
    BY DEF Bits
  <1>2. \A i \in 1..8 : Plus(a[i], b[i]) \in Bit
    BY <1>1, PlusIs
  <1>3. Xor(a, b) = [i \in 1..8 |-> Plus(a[i], b[i])]
    BY DEF Xor, Plus
  <1> QED
    BY <1>2, <1>3 DEF Bits

LEMMA GPIs == GP \in Bits /\ GP[8] = 1 /\ Zeros(8) \in Bits /\ \A i \in 1..8 : Zeros(8)[i] = 0
  <1>1. /\ GP[1] = 1 /\ GP[2] = 1 /\ GP[3] = 0 /\ GP[4] = 1 /\ GP[5] = 0
        /\ GP[6] = 1 /\ GP[7] = 0 /\ GP[8] = 1
    BY DEF GP
  <1>2. GP = [i \in 1..8 |-> GP[i]]
    BY DEF GP
  <1>3. \A i \in 1..8 : GP[i] \in Bit
    <2>1. \A i \in 1..8 : i = 1 \/ i = 2 \/ i = 3 \/ i = 4 \/ i = 5 \/ i = 6 \/ i = 7 \/ i = 8
      OBVIOUS
    <2> QED
      BY <1>1, <2>1 DEF Bit
  <1>4. GP \in Bits
    BY <1>2, <1>3 DEF Bits
  <1>5. Zeros(8) \in Bits /\ \A i \in 1..8 : Zeros(8)[i] = 0
    BY DEF Zeros, Bits, Bit
  <1> QED
    BY <1>1, <1>4, <1>5

\* The bits of a round.
LEMMA NextBitIs ==
  ASSUME NEW c \in Bits, NEW b \in Bit
  PROVE  /\ NextBit(c, b) \in Bits
         /\ \A i \in 1..8 : NextBit(c, b)[i] =
              LET left == IF i < 8 THEN c[i + 1] ELSE b
              IN  IF c[1] = 1 THEN Plus(left, GP[i]) ELSE left
  <1> DEFINE d == Shift(c, <<b>>, 1)
             g == IF c[1] = 1 THEN GP ELSE Zeros(8)
  <1>1. g \in Bits /\ \A i \in 1..8 : g[i] = IF c[1] = 1 THEN GP[i] ELSE 0
    BY GPIs
  <1>2. \A i \in 1..8 : d[i] = IF i < 8 THEN c[i + 1] ELSE b
    <2>1. \A i \in 1..8 : d[i] = IF i + 1 <= 8 THEN c[i + 1] ELSE <<b>>[i + 1 - 8]
      BY DEF Shift
    <2>2. \A i \in 1..8 : i + 1 <= 8 <=> i < 8
      OBVIOUS
    <2>3. <<b>>[1] = b
      OBVIOUS
    <2>4. \A i \in 1..8 : ~(i < 8) => i + 1 - 8 = 1
      OBVIOUS
    <2> HIDE DEF d
    <2> QED
      BY <2>1, <2>2, <2>3, <2>4
  <1>3. d \in Bits
    <2>1. \A i \in 1..8 : d[i] \in Bit
      BY <1>2 DEF Bits
    <2>2. d = [i \in 1..8 |-> d[i]]
      BY DEF Shift
    <2> HIDE DEF d
    <2> QED
      BY <2>1, <2>2 DEF Bits
  <1>4. NextBit(c, b) = Xor(d, g)
    BY DEF NextBit
  <1> HIDE DEF d, g
  <1>5. NextBit(c, b) \in Bits /\ \A i \in 1..8 : NextBit(c, b)[i] = Plus(d[i], g[i])
    BY <1>1, <1>3, <1>4, XorIs
  <1>6. \A i \in 1..8 : Plus(d[i], 0) = d[i]
    BY <1>3, PlusIs DEF Bits, Bit
  <1> QED
    BY <1>1, <1>2, <1>5, <1>6

\* A round loses nothing: of two that end the same, with the same byte or the same
\* bit, the other is the same, too.
LEMMA NextBitTells ==
  ASSUME NEW c \in Bits, NEW d \in Bits, NEW a \in Bit, NEW b \in Bit
  PROVE  /\ NextBit(c, b) = NextBit(d, b) => c = d
         /\ NextBit(c, a) = NextBit(c, b) => a = b
  <1>0. \A x \in Bit : Plus(x, 1) = 1 - x /\ x \in Int
    BY PlusIs DEF Bit
  <1>1. ASSUME NEW u \in Bits, NEW x \in Bit
        PROVE  NextBit(u, x)[8] = IF u[1] = 1 THEN 1 - x ELSE x
    <2>1. NextBit(u, x)[8] = IF u[1] = 1 THEN Plus(x, GP[8]) ELSE x
      BY NextBitIs
    <2> QED
      BY <1>0, <2>1, GPIs
  <1>2. ASSUME NextBit(c, b) = NextBit(d, b) PROVE c = d
    <2>1. c[1] \in Bit /\ d[1] \in Bit
      BY DEF Bits
    <2>2. c[1] = d[1]
      <3>1. NextBit(c, b)[8] = NextBit(d, b)[8]
        BY <1>2
      <3>2. (IF c[1] = 1 THEN 1 - b ELSE b) = (IF d[1] = 1 THEN 1 - b ELSE b)
        BY <1>1, <3>1
      <3> QED
        BY <2>1, <3>2 DEF Bit
    <2>3. ASSUME NEW i \in 1..7 PROVE c[i + 1] = d[i + 1]
      <3>1. i \in 1..8 /\ i < 8
        OBVIOUS
      <3>2. /\ NextBit(c, b)[i] = IF c[1] = 1 THEN Plus(c[i + 1], GP[i]) ELSE c[i + 1]
            /\ NextBit(d, b)[i] = IF d[1] = 1 THEN Plus(d[i + 1], GP[i]) ELSE d[i + 1]
        BY <3>1, NextBitIs
      <3>3. c[i + 1] \in Bit /\ d[i + 1] \in Bit /\ GP[i] \in Bit
        BY <3>1, GPIs DEF Bits
      <3>4. Plus(c[i + 1], GP[i]) = Plus(d[i + 1], GP[i]) => c[i + 1] = d[i + 1]
        <4>1. \A x, y, g \in Bit : Plus(x, g) = Plus(y, g) => x = y
          BY PlusIs
        <4> QED
          BY <3>3, <4>1
      <3> QED
        BY <1>2, <2>2, <3>2, <3>4
    <2>4. ASSUME NEW i \in 1..8 PROVE c[i] = d[i]
      <3>1. CASE i = 1
        BY <2>2, <3>1
      <3>2. CASE i # 1
        <4>1. i - 1 \in 1..7 /\ (i - 1) + 1 = i
          BY <3>2
        <4> QED
          BY <2>3, <4>1
      <3> QED
        BY <3>1, <3>2
    <2> QED
      BY <2>4 DEF Bits
  <1>3. ASSUME NextBit(c, a) = NextBit(c, b) PROVE a = b
    <2>1. (IF c[1] = 1 THEN 1 - a ELSE a) = (IF c[1] = 1 THEN 1 - b ELSE b)
      BY <1>1, <1>3
    <2> QED
      BY <1>0, <2>1
  <1> QED
    BY <1>2, <1>3

------------------------------------------------------------------------------
(* A row of the table is four rounds.                                       *)

\* Four rounds of the byte c that take in the bits in, and of the table that works out
\* its row: k of them are done, c is d and the table is at s and row.
Wide(c, in) == [i \in 1..12 |-> IF i <= 4 THEN 0 ELSE IF i <= 8 THEN c[i] ELSE in[i - 8]]
Together(w, d, s, row, k) ==
  /\ d \in Bits /\ s \in Bits /\ row \in Bits
  /\ \A i \in 1..8 : d[i] = Plus(s[i], w[i + k])
  /\ \A i \in 1..8 : row[i] = IF i + 4 - k <= 8 THEN s[i + 4 - k] ELSE 0

LEMMA ShiftedIs ==
  ASSUME NEW a \in Bits, NEW j \in 0..8, NEW in, \A i \in 1..j : in[i] \in Bit
  PROVE  /\ Shift(a, in, j) \in Bits
         /\ \A i \in 1..8 : Shift(a, in, j)[i] = IF i + j <= 8 THEN a[i + j] ELSE in[i + j - 8]
  <1>1. \A i \in 1..8 : Shift(a, in, j)[i] = IF i + j <= 8 THEN a[i + j] ELSE in[i + j - 8]
    BY DEF Shift
  <1>2. ASSUME NEW i \in 1..8 PROVE Shift(a, in, j)[i] \in Bit
    <2>1. CASE i + j <= 8
      <3>1. i + j \in 1..8
        BY <2>1
      <3> QED
        BY <1>1, <2>1, <3>1 DEF Bits
    <2>2. CASE ~(i + j <= 8)
      <3>1. i + j - 8 \in 1..j
        BY <2>2
      <3> QED
        BY <1>1, <2>2, <3>1
    <2> QED
      BY <2>1, <2>2
  <1>3. Shift(a, in, j) = [i \in 1..8 |-> Shift(a, in, j)[i]]
    BY DEF Shift
  <1> QED
    BY <1>1, <1>2, <1>3 DEF Bits

LEMMA RoundTogether ==
  ASSUME NEW c \in Bits, NEW in \in [1..4 -> Bit], NEW k \in 0..3,
         NEW d, NEW s, NEW row, Together(Wide(c, in), d, s, row, k)
  PROVE  LET acc == NibbleRound([s |-> s, row |-> row], 3 - k)
         IN  Together(Wide(c, in), NextBit(d, in[k + 1]), acc.s, acc.row, k + 1)
  <1> DEFINE w == Wide(c, in)
             acc == NibbleRound([s |-> s, row |-> row], 3 - k)
             bit == in[k + 1]
             j == 3 - k
             gp == Shift(GP, Zeros(j), j)
             s1 == Shift(s, <<0>>, 1)
  <1>1. /\ d \in Bits /\ s \in Bits /\ row \in Bits
        /\ \A i \in 1..8 : d[i] = Plus(s[i], w[i + k])
        /\ \A i \in 1..8 : row[i] = IF i + 4 - k <= 8 THEN s[i + 4 - k] ELSE 0
    BY DEF Together
  <1>2. /\ \A i \in 1..12 : w[i] \in Bit
        /\ \A i \in 1..4 : w[i] = 0
        /\ w[9 + k] = bit /\ bit \in Bit
    <2>1. k + 1 \in 1..4 /\ 9 + k \in 1..12 /\ ~(9 + k <= 4) /\ ~(9 + k <= 8)
          /\ (9 + k) - 8 = k + 1
      OBVIOUS
    <2>2. w[9 + k] = bit /\ bit \in Bit
      BY <2>1 DEF Wide
    <2>3. \A i \in 1..4 : w[i] = 0
      BY DEF Wide
    <2>4. ASSUME NEW i \in 1..12 PROVE w[i] \in Bit
      <3>1. i <= 4 => w[i] = 0
        BY DEF Wide
      <3>2. ~(i <= 4) /\ i <= 8 => w[i] = c[i] /\ c[i] \in Bit
        BY DEF Wide, Bits
      <3>3. ~(i <= 8) => w[i] = in[i - 8] /\ i - 8 \in 1..4
        BY DEF Wide
      <3> QED
        BY <3>1, <3>2, <3>3 DEF Bit
    <2> QED
      BY <2>2, <2>3, <2>4
  <1> HIDE DEF w
  <1>3. /\ NextBit(d, bit) \in Bits
        /\ \A i \in 1..8 : NextBit(d, bit)[i] =
             LET left == IF i < 8 THEN d[i + 1] ELSE bit
             IN  IF d[1] = 1 THEN Plus(left, GP[i]) ELSE left
    BY <1>1, <1>2, NextBitIs
  <1>4. d[1] = s[1]
    <2>1. d[1] = Plus(s[1], w[1 + k]) /\ 1 + k \in 1..4 /\ s[1] \in Bit
      BY <1>1 DEF Bits
    <2>2. d[1] = Plus(s[1], 0)
      BY <1>2, <2>1
    <2> QED
      BY <2>1, <2>2, PlusIs DEF Bit
  <1>5. s1 \in Bits /\ \A i \in 1..8 : s1[i] = IF i < 8 THEN s[i + 1] ELSE 0
    <2>1. \A i \in 1..1 : <<0>>[i] \in Bit
      BY DEF Bit
    <2>2. s1 \in Bits /\ \A i \in 1..8 : s1[i] = IF i + 1 <= 8 THEN s[i + 1] ELSE <<0>>[i + 1 - 8]
      BY <1>1, <2>1, ShiftedIs
    <2>3. \A i \in 1..8 : i + 1 <= 8 <=> i < 8
      OBVIOUS
    <2>4. \A i \in 1..8 : ~(i < 8) => i + 1 - 8 = 1
      OBVIOUS
    <2>5. <<0>>[1] = 0
      OBVIOUS
    <2> HIDE DEF s1
    <2> QED
      BY <2>2, <2>3, <2>4, <2>5
  <1>6. gp \in Bits /\ \A i \in 1..8 : gp[i] = IF i + j <= 8 THEN GP[i + j] ELSE 0
    <2>1. j \in 0..8 /\ j \in 0..3
      OBVIOUS
    <2> HIDE DEF j
    <2>2. \A i \in 1..j : Zeros(j)[i] = 0
      BY DEF Zeros
    <2>3. \A i \in 1..j : Zeros(j)[i] \in Bit
      BY <2>2 DEF Bit
    <2>4. /\ gp \in Bits
          /\ \A i \in 1..8 : gp[i] = IF i + j <= 8 THEN GP[i + j] ELSE Zeros(j)[i + j - 8]
      BY ZenonT(60), <2>1, <2>3, GPIs, ShiftedIs
    <2>5. \A i \in 1..8 : ~(i + j <= 8) => i + j - 8 \in 1..j
      BY <2>1
    <2> HIDE DEF gp
    <2> QED
      BY <2>2, <2>4, <2>5
  <1>7. /\ s[1] = 1 => acc = [s |-> Xor(s1, GP), row |-> Xor(row, gp)]
        /\ s[1] # 1 => acc = [s |-> s1, row |-> row]
    BY DEF NibbleRound
  <1> HIDE DEF acc, s1, gp
  <1>8. /\ acc.s \in Bits /\ acc.row \in Bits
        /\ \A i \in 1..8 : acc.s[i] = IF s[1] = 1 THEN Plus(s1[i], GP[i]) ELSE s1[i]
        /\ \A i \in 1..8 : acc.row[i] = IF s[1] = 1 THEN Plus(row[i], gp[i]) ELSE row[i]
    <2>1. CASE s[1] = 1
      <3>1. acc.s = Xor(s1, GP) /\ acc.row = Xor(row, gp)
        BY <1>7, <2>1
      <3> QED
        BY <1>1, <1>5, <1>6, <2>1, <3>1, XorIs, GPIs
    <2>2. CASE s[1] # 1
      <3>1. acc.s = s1 /\ acc.row = row
        BY <1>7, <2>2
      <3> QED
        BY <1>1, <1>5, <2>2, <3>1
    <2> QED
      BY <2>1, <2>2
  <1> HIDE DEF bit
  <1>9. ASSUME NEW i \in 1..8 PROVE NextBit(d, bit)[i] = Plus(acc.s[i], w[i + (k + 1)])
    <2> DEFINE left == IF i < 8 THEN d[i + 1] ELSE bit
    <2>1. left = Plus(s1[i], w[i + (k + 1)]) /\ s1[i] \in Bit /\ w[i + (k + 1)] \in Bit
      <3>1. CASE i < 8
        <4>1. i + 1 \in 1..8 /\ (i + 1) + k = i + (k + 1) /\ i + (k + 1) \in 1..12
          BY <3>1
        <4>2. d[i + 1] = Plus(s[i + 1], w[(i + 1) + k])
          BY <1>1, <4>1
        <4> QED
          BY <1>2, <1>5, <3>1, <4>1, <4>2 DEF Bits
      <3>2. CASE i = 8
        <4>1. i + (k + 1) = 9 + k /\ 9 + k \in 1..12 /\ s1[i] = 0
          BY <1>5, <3>2
        <4>2. Plus(0, bit) = bit
          BY <1>2, PlusIs DEF Bit
        <4> QED
          BY <1>2, <3>2, <4>1, <4>2 DEF Bit
      <3> QED
        BY <3>1, <3>2
    <2>2. NextBit(d, bit)[i] = IF s[1] = 1 THEN Plus(left, GP[i]) ELSE left
      BY <1>3, <1>4
    <2>3. GP[i] \in Bit
      BY GPIs DEF Bits
    <2> HIDE DEF left
    <2>4. Plus(Plus(s1[i], w[i + (k + 1)]), GP[i]) = Plus(Plus(s1[i], GP[i]), w[i + (k + 1)])
      <3>1. \A x, y, z \in Bit : Plus(Plus(x, y), z) = Plus(Plus(x, z), y)
        BY PlusIs
      <3>2. s1[i] \in Bit /\ w[i + (k + 1)] \in Bit /\ GP[i] \in Bit
        BY <2>1, <2>3
      <3> QED
        BY <3>1, <3>2
    <2> QED
      BY <1>8, <2>1, <2>2, <2>4
  <1>10. ASSUME NEW i \in 1..8
         PROVE  acc.row[i] = IF i + 4 - (k + 1) <= 8 THEN acc.s[i + 4 - (k + 1)] ELSE 0
    <2> DEFINE h == i + 4 - (k + 1)
    <2>1. h = i + j /\ h \in Nat /\ h >= 1 /\ h + 1 = i + 4 - k
      OBVIOUS
    <2> HIDE DEF h, j
    <2>2. CASE h <= 7
      <3>1. h \in 1..8 /\ h < 8 /\ i + 4 - k <= 8
        BY <2>1, <2>2
      <3>2. row[i] = s1[h] /\ gp[i] = GP[h]
        BY <1>1, <1>5, <1>6, <2>1, <3>1
      <3>3. acc.s[h] = IF s[1] = 1 THEN Plus(s1[h], GP[h]) ELSE s1[h]
        BY <1>8, <3>1
      <3>4. acc.row[i] = acc.s[h]
        BY <1>8, <3>2, <3>3
      <3> QED
        BY <3>1, <3>4 DEF h
    <2>3. CASE h = 8
      <3>1. h \in 1..8 /\ ~(h < 8) /\ ~(i + 4 - k <= 8)
        BY <2>1, <2>3
      <3>2. row[i] = s1[h] /\ gp[i] = GP[h]
        BY <1>1, <1>5, <1>6, <2>1, <3>1
      <3>3. acc.s[h] = IF s[1] = 1 THEN Plus(s1[h], GP[h]) ELSE s1[h]
        BY <1>8, <3>1
      <3>4. acc.row[i] = acc.s[h]
        BY <1>8, <3>2, <3>3
      <3> QED
        BY <2>3, <3>4 DEF h
    <2>4. CASE h > 8
      <3>1. ~(h <= 8) /\ ~(i + 4 - k <= 8)
        BY <2>1, <2>4
      <3>2. row[i] = 0 /\ gp[i] = 0
        BY <1>1, <1>6, <2>1, <3>1
      <3>3. acc.row[i] = 0
        BY <1>8, <3>2, PlusIs DEF Bit
      <3> QED
        BY <3>1, <3>3 DEF h
    <2> QED
      BY <2>1, <2>2, <2>3, <2>4
  <1> QED
    BY <1>3, <1>8, <1>9, <1>10 DEF Together, w, acc, bit

LEMMA RoundRecord ==
  ASSUME NEW a, NEW j
  PROVE  NibbleRound(a, j) = [s |-> NibbleRound(a, j).s, row |-> NibbleRound(a, j).row]
  <1>1. CASE a.s[1] = 1
    BY <1>1 DEF NibbleRound
  <1>2. CASE a.s[1] # 1
    BY <1>2 DEF NibbleRound
  <1> QED
    BY <1>1, <1>2

\* The table does what four rounds do.
FourBits(c, in) == NextBit(NextBit(NextBit(NextBit(c, in[1]), in[2]), in[3]), in[4])

LEMMA NibbleIsFourBits ==
  ASSUME NEW c \in Bits, NEW in \in [1..4 -> Bit]
  PROVE  NextNibble(c, in) = FourBits(c, in) /\ FourBits(c, in) \in Bits
  <1> DEFINE w == Wide(c, in)
             hi == HighNibble(c)
             a0 == [s |-> Shift(Shift(Zeros(8), hi, 4), Zeros(4), 4), row |-> Zeros(8)]
             a1 == NibbleRound(a0, 3)
             a2 == NibbleRound(a1, 2)
             a3 == NibbleRound(a2, 1)
             a4 == NibbleRound(a3, 0)
             c1 == NextBit(c, in[1])
             c2 == NextBit(c1, in[2])
             c3 == NextBit(c2, in[3])
             c4 == NextBit(c3, in[4])
  <1>1. hi \in [1..4 -> Bit] /\ \A i \in 1..4 : hi[i] = c[i]
    BY DEF HighNibble, Bits
  <1>2. Together(w, c, a0.s, a0.row, 0)
    <2> DEFINE t == Shift(Zeros(8), hi, 4)
               s == Shift(t, Zeros(4), 4)
    <2>1. t \in Bits /\ \A i \in 1..8 : t[i] = IF i + 4 <= 8 THEN Zeros(8)[i + 4] ELSE hi[i + 4 - 8]
      <3>1. \A i \in 1..4 : hi[i] \in Bit
        BY <1>1
      <3> HIDE DEF hi
      <3> DEFINE z == Zeros(8)
      <3>2. z \in Bits /\ 4 \in 0..8
        BY GPIs
      <3> HIDE DEF z
      <3>3. /\ Shift(z, hi, 4) \in Bits
            /\ \A i \in 1..8 : Shift(z, hi, 4)[i] = IF i + 4 <= 8 THEN z[i + 4] ELSE hi[i + 4 - 8]
        BY SMTT(30), <3>1, <3>2, ShiftedIs
      <3> QED
        BY <3>3 DEF z
    <2>2. s \in Bits /\ \A i \in 1..8 : s[i] = IF i + 4 <= 8 THEN t[i + 4] ELSE Zeros(4)[i + 4 - 8]
      <3>1. \A i \in 1..4 : Zeros(4)[i] \in Bit
        BY DEF Zeros, Bit
      <3> HIDE DEF t
      <3> QED
        BY SMTT(30), <2>1, <3>1, ShiftedIs
    <2> HIDE DEF s, t, hi
    <2>3. ASSUME NEW i \in 1..8 PROVE s[i] = IF i <= 4 THEN c[i] ELSE 0
      <3>1. CASE i <= 4
        <4>1. i + 4 <= 8 /\ i + 4 \in 1..8 /\ ~((i + 4) + 4 <= 8) /\ (i + 4) + 4 - 8 = i
              /\ i \in 1..4
          BY <3>1
        <4>2. s[i] = t[i + 4]
          BY <2>2, <4>1
        <4>3. t[i + 4] = hi[i]
          BY <2>1, <4>1
        <4> QED
          BY <1>1, <3>1, <4>1, <4>2, <4>3
      <3>2. CASE ~(i <= 4)
        <4>1. ~(i + 4 <= 8) /\ i + 4 - 8 \in 1..4
          BY <3>2
        <4>2. s[i] = Zeros(4)[i + 4 - 8]
          BY <2>2, <4>1
        <4> QED
          BY <3>2, <4>1, <4>2 DEF Zeros
      <3> QED
        BY <3>1, <3>2
    <2>4. ASSUME NEW i \in 1..8 PROVE c[i] = Plus(s[i], w[i + 0])
      <3>0. c[i] \in Bit /\ i + 0 = i /\ 0 \in Bit
        BY DEF Bits, Bit
      <3>1. CASE i <= 4
        <4>1. s[i] = c[i] /\ w[i] = 0
          BY <2>3, <3>1 DEF Wide
        <4> QED
          BY <3>0, <4>1, PlusIs
      <3>2. CASE ~(i <= 4)
        <4>1. s[i] = 0 /\ w[i] = c[i]
          BY <2>3, <3>2 DEF Wide
        <4>2. Plus(0, c[i]) = Plus(c[i], 0) /\ Plus(c[i], 0) = c[i]
          BY <3>0, PlusIs
        <4> QED
          BY <3>0, <4>1, <4>2
      <3> QED
        BY <3>1, <3>2
    <2>5. ASSUME NEW i \in 1..8
          PROVE  Zeros(8)[i] = IF i + 4 - 0 <= 8 THEN s[i + 4 - 0] ELSE 0
      <3>1. Zeros(8)[i] = 0
        BY GPIs
      <3>2. i + 4 - 0 <= 8 => i + 4 - 0 \in 1..8 /\ ~(i + 4 - 0 <= 4)
        OBVIOUS
      <3> QED
        BY <2>3, <3>1, <3>2
    <2>6. Together(w, c, s, Zeros(8), 0)
      <3> HIDE DEF w
      <3> QED
        BY <2>2, <2>4, <2>5, GPIs DEF Together
    <2>7. a0.s = s /\ a0.row = Zeros(8)
      BY DEF s, t, hi
    <2> QED
      BY <2>6, <2>7
  <1>3. \A a, j : NibbleRound(a, j) = [s |-> NibbleRound(a, j).s, row |-> NibbleRound(a, j).row]
    BY RoundRecord
  <1>4. ASSUME NEW k \in 0..3, NEW d, NEW a, a = [s |-> a.s, row |-> a.row],
               Together(w, d, a.s, a.row, k)
        PROVE  Together(w, NextBit(d, in[k + 1]), NibbleRound(a, 3 - k).s,
                        NibbleRound(a, 3 - k).row, k + 1)
    <2> DEFINE acc == NibbleRound([s |-> a.s, row |-> a.row], 3 - k)
    <2>1. Together(w, NextBit(d, in[k + 1]), acc.s, acc.row, k + 1)
      BY <1>4, RoundTogether
    <2>2. acc = NibbleRound(a, 3 - k)
      BY <1>4
    <2> HIDE DEF acc
    <2> QED
      BY <2>1, <2>2
  <1>5. a0 = [s |-> a0.s, row |-> a0.row]
    OBVIOUS
  <1> HIDE DEF w, a0
  <1>6. Together(w, c1, a1.s, a1.row, 1)
    <2>1. Together(w, NextBit(c, in[0 + 1]), NibbleRound(a0, 3 - 0).s,
                   NibbleRound(a0, 3 - 0).row, 0 + 1)
      BY <1>2, <1>4, <1>5
    <2> QED
      BY <2>1
  <1>7. a1 = [s |-> a1.s, row |-> a1.row]
    BY <1>3
  <1> HIDE DEF a1, c1
  <1>8. Together(w, c2, a2.s, a2.row, 2)
    <2>1. Together(w, NextBit(c1, in[1 + 1]), NibbleRound(a1, 3 - 1).s,
                   NibbleRound(a1, 3 - 1).row, 1 + 1)
      BY <1>4, <1>6, <1>7
    <2> QED
      BY <2>1
  <1>9. a2 = [s |-> a2.s, row |-> a2.row]
    BY <1>3
  <1> HIDE DEF a2, c2
  <1>10. Together(w, c3, a3.s, a3.row, 3)
    <2>1. Together(w, NextBit(c2, in[2 + 1]), NibbleRound(a2, 3 - 2).s,
                   NibbleRound(a2, 3 - 2).row, 2 + 1)
      BY <1>4, <1>8, <1>9
    <2> QED
      BY <2>1
  <1>11. a3 = [s |-> a3.s, row |-> a3.row]
    BY <1>3
  <1> HIDE DEF a3, c3
  <1>12. Together(w, c4, a4.s, a4.row, 4)
    <2>1. Together(w, NextBit(c3, in[3 + 1]), NibbleRound(a3, 3 - 3).s,
                   NibbleRound(a3, 3 - 3).row, 3 + 1)
      BY <1>4, <1>10, <1>11
    <2> QED
      BY <2>1
  <1> HIDE DEF a4, c4
  <1> DEFINE d == Shift(c, in, 4)
  <1>13. d \in Bits /\ \A i \in 1..8 : d[i] = w[i + 4] /\ w[i + 4] \in Bit
    <2>1. d \in Bits /\ \A i \in 1..8 : d[i] = IF i + 4 <= 8 THEN c[i + 4] ELSE in[i + 4 - 8]
      <3>1. \A i \in 1..4 : in[i] \in Bit
        OBVIOUS
      <3>2. ASSUME NEW x, \A i \in 1..4 : x[i] \in Bit
            PROVE  /\ Shift(c, x, 4) \in Bits
                   /\ \A i \in 1..8 :
                        Shift(c, x, 4)[i] = IF i + 4 <= 8 THEN c[i + 4] ELSE x[i + 4 - 8]
        <4>1. 4 \in 0..8
          OBVIOUS
        <4> QED
          BY <3>2, <4>1, ShiftedIs
      <3> HIDE DEF d
      <3>3. Shift(c, in, 4) \in Bits /\ \A i \in 1..8 :
              Shift(c, in, 4)[i] = IF i + 4 <= 8 THEN c[i + 4] ELSE in[i + 4 - 8]
        BY <3>1, <3>2
      <3> QED
        BY <3>3 DEF d
    <2>2. ASSUME NEW i \in 1..8
          PROVE  w[i + 4] = IF i + 4 <= 8 THEN c[i + 4] ELSE in[i + 4 - 8]
      BY DEF w, Wide
    <2> HIDE DEF d
    <2>3. \A i \in 1..8 : d[i] = w[i + 4]
      BY <2>1, <2>2
    <2> QED
      BY <2>1, <2>3 DEF Bits
  <1> HIDE DEF d
  <1>14. NextNibble(c, in) = Xor(d, a4.row)
    <2>1. hi \in [1..4 -> {0, 1}]
      BY <1>1 DEF Bit
    <2>2. crc8_tab[hi] = TableRow(hi)
      BY <2>1 DEF crc8_tab
    <2>3. TableRow(hi) = a4.row
      BY DEF TableRow, a0, a1, a2, a3, a4
    <2> QED
      BY <2>2, <2>3 DEF NextNibble, d
  <1>15. a4.row \in Bits /\ c4 \in Bits /\ \A i \in 1..8 : c4[i] = Plus(a4.row[i], w[i + 4])
    <2>1. /\ a4.row \in Bits /\ c4 \in Bits /\ \A i \in 1..8 : c4[i] = Plus(a4.s[i], w[i + 4])
          /\ \A i \in 1..8 : a4.row[i] = IF i + 4 - 4 <= 8 THEN a4.s[i + 4 - 4] ELSE 0
      BY <1>12 DEF Together
    <2>2. \A i \in 1..8 : i + 4 - 4 = i /\ i <= 8
      OBVIOUS
    <2>3. \A i \in 1..8 : a4.row[i] = a4.s[i]
      BY <2>1, <2>2
    <2> QED
      BY <2>1, <2>3
  <1>16. ASSUME NEW i \in 1..8 PROVE Xor(d, a4.row)[i] = c4[i]
    <2>1. Xor(d, a4.row)[i] = Plus(d[i], a4.row[i])
      BY <1>13, <1>15, XorIs
    <2>2. d[i] \in Bit /\ a4.row[i] \in Bit /\ d[i] = w[i + 4]
      BY <1>13, <1>15 DEF Bits
    <2>3. Plus(d[i], a4.row[i]) = Plus(a4.row[i], d[i])
      BY <2>2, PlusIs
    <2> QED
      BY <1>15, <2>1, <2>2, <2>3
  <1>17. Xor(d, a4.row) \in Bits
    BY <1>13, <1>15, XorIs
  <1>18. Xor(d, a4.row) = c4
    BY <1>15, <1>16, <1>17 DEF Bits
  <1>19. c4 = FourBits(c, in)
    BY DEF FourBits, c1, c2, c3, c4
  <1> QED
    BY <1>14, <1>15, <1>18, <1>19

\* Eight bits at a time.
EightBits(c, b) ==
  NextBit(NextBit(NextBit(NextBit(NextBit(NextBit(NextBit(NextBit(c,
    b[1]), b[2]), b[3]), b[4]), b[5]), b[6]), b[7]), b[8])

LEMMA ByteIsEightBits ==
  ASSUME NEW c \in Bits, NEW b \in Bits
  PROVE  NextByte(c, b) = EightBits(c, b) /\ NextByte(c, b) \in Bits
  <1> DEFINE h == HighNibble(b)
             l == LowNibble(b)
  <1>1. /\ h \in [1..4 -> Bit] /\ h[1] = b[1] /\ h[2] = b[2] /\ h[3] = b[3] /\ h[4] = b[4]
    BY DEF HighNibble, Bits
  <1>2. /\ l \in [1..4 -> Bit] /\ l[1] = b[5] /\ l[2] = b[6] /\ l[3] = b[7] /\ l[4] = b[8]
    BY DEF LowNibble, Bits
  <1> HIDE DEF h, l
  <1> DEFINE d == FourBits(c, h)
  <1>3. NextNibble(c, h) = d /\ d \in Bits
    BY <1>1, NibbleIsFourBits
  <1>4. d = NextBit(NextBit(NextBit(NextBit(c, b[1]), b[2]), b[3]), b[4])
    BY <1>1 DEF FourBits
  <1> HIDE DEF d
  <1>5. NextNibble(d, l) = FourBits(d, l) /\ FourBits(d, l) \in Bits
    BY <1>2, <1>3, NibbleIsFourBits
  <1>6. FourBits(d, l) = NextBit(NextBit(NextBit(NextBit(d, b[5]), b[6]), b[7]), b[8])
    BY <1>2 DEF FourBits
  <1>7. NextByte(c, b) = NextNibble(NextNibble(c, h), l)
    BY DEF NextByte, h, l
  <1> QED
    BY <1>3, <1>4, <1>5, <1>6, <1>7 DEF EightBits

------------------------------------------------------------------------------
(* The two programs.                                                        *)

BitAt(ctx, nbits) == ctxAt(ctx, (nbits - 1) \div 8)[((nbits - 1) % 8) + 1]
BitRun(ctx) ==
  LET crc[nbits \in 8..8 * Len(ctx) + 8] ==
        IF nbits = 8 THEN ctx[1]
        ELSE NextBit(crc[nbits - 1], ctxAt(ctx, (nbits - 1) \div 8)[((nbits - 1) % 8) + 1])
  IN  crc
ByteRun(ctx) ==
  LET crc[i \in 0..Len(ctx)] ==
        IF i = 0 THEN ctx[1] ELSE NextByte(crc[i - 1], ctxAt(ctx, i))
  IN  crc

LEMMA RunsEnd ==
  ASSUME NEW ctx
  PROVE  crc8_1(ctx) = BitRun(ctx)[8 * Len(ctx) + 8] /\ crc8_2(ctx) = ByteRun(ctx)[Len(ctx)]
  BY DEF crc8_1, crc8_2, BitRun, ByteRun

LEMMA BitPlaces ==
  ASSUME NEW q \in Nat, NEW t \in 1..8
  PROVE  LET nbits == 8 * q + t
         IN  (nbits - 1) \div 8 = q /\ ((nbits - 1) % 8) + 1 = t
  <1> DEFINE h == 8 * q + t - 1
  <1>1. h \in Int /\ 8 * q <= h /\ h < 8 * q + 8 /\ h = 8 * q + t - 1
    OBVIOUS
  <1> HIDE DEF h
  <1>2. h \div 8 = q
    BY <1>1
  <1>3. h % 8 = h - 8 * q
    BY <1>1
  <1>4. (h % 8) + 1 = t
    BY <1>1, <1>3
  <1> QED
    BY <1>2, <1>4 DEF h

\* Every bit has its byte.
LEMMA BitOfByte ==
  ASSUME NEW nbits \in Nat, nbits > 0
  PROVE  \E q \in Nat, t \in 1..8 : nbits = 8 * q + t
  <1> DEFINE q == (nbits - 1) \div 8
             r == (nbits - 1) % 8
  <1>1. nbits - 1 \in Nat
    OBVIOUS
  <1>2. q \in Nat /\ r \in 0..7
    BY <1>1
  <1>3. ASSUME NEW h \in Nat, NEW x, x = h \div 8, NEW y, y = h % 8 PROVE x * 8 + y = h
    BY <1>3
  <1>4. q * 8 + r = nbits - 1
    BY <1>1, <1>3
  <1> HIDE DEF q, r
  <1>5. r + 1 \in 1..8 /\ nbits = 8 * q + (r + 1)
    BY <1>2, <1>4
  <1> QED
    BY <1>2, <1>5

LEMMA ctxAtIs ==
  ASSUME NEW m \in Seq(Bits), NEW q \in Nat
  PROVE  ctxAt(m, q) \in Bits
  <1>1. CASE q < Len(m)
    BY <1>1 DEF ctxAt
  <1>2. CASE ~(q < Len(m))
    BY <1>2, GPIs DEF ctxAt
  <1> QED
    BY <1>1, <1>2

LEMMA BitAtIs ==
  ASSUME NEW m \in Seq(Bits), NEW q \in Nat, NEW t \in 1..8
  PROVE  BitAt(m, 8 * q + t) = ctxAt(m, q)[t] /\ BitAt(m, 8 * q + t) \in Bit
  <1>1. BitAt(m, 8 * q + t) = ctxAt(m, q)[t]
    BY BitPlaces DEF BitAt
  <1>2. ctxAt(m, q) \in Bits
    BY ctxAtIs
  <1> QED
    BY <1>1, <1>2 DEF Bits

LEMMA SomeBit ==
  ASSUME NEW m \in Seq(Bits), NEW nbits \in Nat, nbits > 0
  PROVE  BitAt(m, nbits) \in Bit
  <1>1. PICK q \in Nat, t \in 1..8 : nbits = 8 * q + t
    BY BitOfByte
  <1> QED
    BY <1>1, BitAtIs

LEMMA BitRunSteps ==
  ASSUME NEW m \in Seq(Bits), Len(m) > 0
  PROVE  /\ BitRun(m)[8] = m[1] /\ \A k \in 8..8 * Len(m) + 8 : BitRun(m)[k] \in Bits
         /\ \A k \in 9..8 * Len(m) + 8 : BitRun(m)[k] = NextBit(BitRun(m)[k - 1], BitAt(m, k))
  <1> DEFINE N == 8 * Len(m)
             z == m[1]
             step == [k \in 1..N |-> [c \in Bits |-> NextBit(c, BitAt(m, k + 8))]]
             f == BitRun(m)
             Is(g) == g = [nbits \in 8..N + 8 |->
               IF nbits = 8 THEN m[1]
               ELSE NextBit(g[nbits - 1], ctxAt(m, (nbits - 1) \div 8)[((nbits - 1) % 8) + 1])]
             Steps(g) == g = [k \in 8..N + 8 |->
                               IF k = 8 THEN z ELSE NextBit(g[k - 1], BitAt(m, k))]
  <1>1. N \in Nat /\ z \in Bits
    OBVIOUS
  <1>2. \A k \in 1..N + 8 : BitAt(m, k) \in Bit
    BY <1>1, SomeBit
  <1>3. step \in [1..N -> [Bits -> Bits]]
    <2>1. ASSUME NEW k \in 1..N, NEW c \in Bits PROVE NextBit(c, BitAt(m, k + 8)) \in Bits
      <3>1. k + 8 \in 1..N + 8
        BY <1>1
      <3>2. BitAt(m, k + 8) \in Bit
        BY <1>2, <3>1
      <3> QED
        BY <3>2, NextBitIs
    <2> HIDE DEF N
    <2> QED
      BY <2>1
  <1> HIDE DEF N, z
  <1>4. PICK w : Takes(w, Bits, z, step, N)
    <2> HIDE DEF step
    <2> QED
      BY <1>1, <1>3, CanBeTaken
  <1>5. /\ w \in [0..N -> Bits] /\ w[0] = z
        /\ \A k \in 1..N : w[k] = NextBit(w[k - 1], BitAt(m, k + 8))
    <2>1. w \in [0..N -> Bits] /\ w[0] = z /\ \A k \in 1..N : w[k] = step[k][w[k - 1]]
      BY <1>4 DEF Takes
    <2>2. ASSUME NEW k \in 1..N PROVE w[k] = NextBit(w[k - 1], BitAt(m, k + 8))
      <3>1. w[k - 1] \in Bits
        BY <1>1, <2>1
      <3> QED
        BY <2>1, <3>1
    <2> QED
      BY <2>1, <2>2
  <1> HIDE DEF step
  <1> DEFINE v == [k \in 8..N + 8 |-> w[k - 8]]
  <1>6. Steps(v)
    <2>1. ASSUME NEW k \in 8..N + 8
          PROVE  v[k] = IF k = 8 THEN z ELSE NextBit(v[k - 1], BitAt(m, k))
      <3>1. CASE k = 8
        BY <1>1, <1>5, <3>1
      <3>2. CASE k # 8
        <4>1. k - 8 \in 1..N /\ (k - 8) + 8 = k /\ k - 1 \in 8..N + 8 /\ (k - 1) - 8 = (k - 8) - 1
          BY <1>1, <3>2
        <4>2. w[k - 8] = NextBit(w[(k - 8) - 1], BitAt(m, k))
          BY <1>5, <4>1
        <4>3. v[k] = w[k - 8] /\ v[k - 1] = w[(k - 8) - 1]
          BY <4>1
        <4> QED
          BY <3>2, <4>2, <4>3
      <3> QED
        BY <3>1, <3>2
    <2>2. v = [k \in 8..N + 8 |-> v[k]]
      OBVIOUS
    <2> HIDE DEF v
    <2> QED
      BY <2>1, <2>2
  <1>7. \A g : Is(g) <=> Steps(g)
    BY Zenon DEF BitAt, z
  <1>8. f = CHOOSE g : Is(g)
    BY DEF BitRun, N
  <1>9. Steps(f)
    <2> HIDE DEF Is, Steps, f, v
    <2> QED
      BY <1>6, <1>7, <1>8
  <1> HIDE DEF Is, f, v
  <1>10. /\ f[8] = z
         /\ \A k \in 9..N + 8 : f[k] = NextBit(f[k - 1], BitAt(m, k))
    <2>1. 8 \in 8..N + 8 /\ \A k \in 9..N + 8 : k \in 8..N + 8 /\ k # 8
      BY <1>1
    <2> QED
      BY <1>9, <2>1
  <1>11. \A k \in 8..N + 8 : f[k] \in Bits
    <2> DEFINE S == {k \in 0..N : f[k + 8] \in Bits}
    <2>1. 0 \in S
      BY <1>1, <1>10
    <2>2. ASSUME NEW k \in 1..N, k - 1 \in S PROVE k \in S
      <3>1. k + 8 \in 9..N + 8 /\ (k + 8) - 1 = (k - 1) + 8 /\ k + 8 \in 1..N + 8
        BY <1>1
      <3>2. f[(k - 1) + 8] \in Bits
        BY <2>2
      <3>3. f[k + 8] = NextBit(f[(k - 1) + 8], BitAt(m, k + 8)) /\ BitAt(m, k + 8) \in Bit
        BY <1>2, <1>10, <3>1
      <3> QED
        BY <3>2, <3>3, NextBitIs
    <2> HIDE DEF S
    <2>3. \A k \in 0..N : k \in S
      BY <1>1, <2>1, <2>2, ByStep
    <2>4. ASSUME NEW k \in 8..N + 8 PROVE f[k] \in Bits
      <3>1. k - 8 \in 0..N /\ (k - 8) + 8 = k
        BY <1>1
      <3>2. k - 8 \in S
        BY <2>3, <3>1
      <3>3. f[(k - 8) + 8] \in Bits
        BY <3>2 DEF S
      <3> QED
        BY <3>1, <3>3
    <2> QED
      BY <2>4
  <1> QED
    BY <1>10, <1>11 DEF f, N, z

LEMMA ByteRunSteps ==
  ASSUME NEW m \in Seq(Bits), Len(m) > 0
  PROVE  /\ ByteRun(m)[0] = m[1]
         /\ \A i \in 1..Len(m) : ByteRun(m)[i] = NextByte(ByteRun(m)[i - 1], ctxAt(m, i))
  <1> DEFINE N == Len(m)
             z == m[1]
             step == [i \in 1..N |-> [c \in Bits |-> NextByte(c, ctxAt(m, i))]]
             f == ByteRun(m)
             Is(g) == g = [i \in 0..N |-> IF i = 0 THEN z ELSE NextByte(g[i - 1], ctxAt(m, i))]
  <1>1. N \in Nat /\ z \in Bits
    OBVIOUS
  <1>2. step \in [1..N -> [Bits -> Bits]]
    <2>1. ASSUME NEW i \in 1..N, NEW c \in Bits PROVE NextByte(c, ctxAt(m, i)) \in Bits
      <3>1. i \in Nat
        OBVIOUS
      <3>2. ctxAt(m, i) \in Bits
        BY <3>1, ctxAtIs
      <3> QED
        BY <3>2, ByteIsEightBits
    <2> HIDE DEF N
    <2> QED
      BY <2>1
  <1> HIDE DEF N, z
  <1>3. PICK w : Takes(w, Bits, z, step, N)
    <2> HIDE DEF step
    <2> QED
      BY <1>1, <1>2, CanBeTaken
  <1>4. /\ w \in [0..N -> Bits] /\ w[0] = z
        /\ \A i \in 1..N : w[i] = NextByte(w[i - 1], ctxAt(m, i))
    <2>1. w \in [0..N -> Bits] /\ w[0] = z /\ \A k \in 1..N : w[k] = step[k][w[k - 1]]
      BY <1>3 DEF Takes
    <2>2. ASSUME NEW i \in 1..N PROVE w[i] = NextByte(w[i - 1], ctxAt(m, i))
      <3>1. w[i - 1] \in Bits
        BY <1>1, <2>1
      <3> QED
        BY <2>1, <3>1
    <2> QED
      BY <2>1, <2>2
  <1> HIDE DEF step
  <1>5. Is(w)
    <2>1. w = [i \in 0..N |-> w[i]]
      BY <1>4
    <2>2. \A i \in 0..N : w[i] = IF i = 0 THEN z ELSE NextByte(w[i - 1], ctxAt(m, i))
      BY <1>1, <1>4
    <2> QED
      BY <2>1, <2>2
  <1>6. f = CHOOSE g : Is(g)
    BY DEF ByteRun, N, z
  <1>7. Is(f)
    <2> HIDE DEF Is, f
    <2> QED
      BY <1>5, <1>6
  <1> HIDE DEF f
  <1>8. 0 \in 0..N /\ \A i \in 1..N : i \in 0..N /\ i # 0
    BY <1>1
  <1>9. f[0] = z /\ \A i \in 1..N : f[i] = NextByte(f[i - 1], ctxAt(m, i))
    BY <1>7, <1>8
  <1> QED
    BY <1>9 DEF f, N, z

\* The programs agree.
LEMMA ChecksumsAgree ==
  ASSUME NEW m \in Seq(Bits), Len(m) > 0
  PROVE  crc8_1(m) = crc8_2(m)
  <1> DEFINE N == Len(m)
             f == BitRun(m)
             g == ByteRun(m)
             S == {i \in 0..N : f[8 * i + 8] = g[i]}
  <1>1. /\ f[8] = m[1] /\ \A k \in 8..8 * N + 8 : f[k] \in Bits
        /\ \A k \in 9..8 * N + 8 : f[k] = NextBit(f[k - 1], BitAt(m, k))
    BY BitRunSteps
  <1>2. g[0] = m[1] /\ \A i \in 1..N : g[i] = NextByte(g[i - 1], ctxAt(m, i))
    BY ByteRunSteps
  <1>3. N \in Nat
    OBVIOUS
  <1> HIDE DEF f, g, N
  <1>4. 0 \in S
    BY <1>1, <1>2, <1>3
  <1>5. ASSUME NEW i \in 1..N, i - 1 \in S PROVE i \in S
    <2> DEFINE b == ctxAt(m, i)
    <2>1. b \in Bits /\ i \in Nat
      BY <1>3, ctxAtIs
    <2>2. ASSUME NEW t \in 1..8 PROVE f[8 * i + t] = NextBit(f[8 * i + t - 1], b[t])
      <3>1. 8 * i + t \in 9..8 * N + 8
        BY <1>3
      <3>2. BitAt(m, 8 * i + t) = b[t]
        BY <2>1, BitAtIs
      <3> QED
        BY <1>1, <3>1, <3>2
    <2> HIDE DEF b
    <2>3. /\ f[8 * i + 1] = NextBit(f[8 * i], b[1])
          /\ f[8 * i + 2] = NextBit(f[8 * i + 1], b[2])
          /\ f[8 * i + 3] = NextBit(f[8 * i + 2], b[3])
          /\ f[8 * i + 4] = NextBit(f[8 * i + 3], b[4])
          /\ f[8 * i + 5] = NextBit(f[8 * i + 4], b[5])
          /\ f[8 * i + 6] = NextBit(f[8 * i + 5], b[6])
          /\ f[8 * i + 7] = NextBit(f[8 * i + 6], b[7])
          /\ f[8 * i + 8] = NextBit(f[8 * i + 7], b[8])
      <3>1. /\ 8 * i + 1 - 1 = 8 * i /\ 8 * i + 2 - 1 = 8 * i + 1 /\ 8 * i + 3 - 1 = 8 * i + 2
            /\ 8 * i + 4 - 1 = 8 * i + 3 /\ 8 * i + 5 - 1 = 8 * i + 4
            /\ 8 * i + 6 - 1 = 8 * i + 5 /\ 8 * i + 7 - 1 = 8 * i + 6
            /\ 8 * i + 8 - 1 = 8 * i + 7
        BY <2>1
      <3>2. /\ f[8 * i + 1] = NextBit(f[8 * i + 1 - 1], b[1])
            /\ f[8 * i + 2] = NextBit(f[8 * i + 2 - 1], b[2])
            /\ f[8 * i + 3] = NextBit(f[8 * i + 3 - 1], b[3])
            /\ f[8 * i + 4] = NextBit(f[8 * i + 4 - 1], b[4])
            /\ f[8 * i + 5] = NextBit(f[8 * i + 5 - 1], b[5])
            /\ f[8 * i + 6] = NextBit(f[8 * i + 6 - 1], b[6])
            /\ f[8 * i + 7] = NextBit(f[8 * i + 7 - 1], b[7])
            /\ f[8 * i + 8] = NextBit(f[8 * i + 8 - 1], b[8])
        BY <2>2
      <3> QED
        BY <3>1, <3>2
    <2>4. f[8 * i + 8] = EightBits(f[8 * i], b)
      BY <2>3 DEF EightBits
    <2>5. f[8 * i] = g[i - 1] /\ f[8 * i] \in Bits
      <3>1. 8 * (i - 1) + 8 = 8 * i /\ 8 * i \in 8..8 * N + 8
        BY <1>3, <2>1
      <3>2. f[8 * (i - 1) + 8] = g[i - 1]
        BY <1>5
      <3> QED
        BY <1>1, <3>1, <3>2
    <2>6. NextByte(f[8 * i], b) = EightBits(f[8 * i], b)
      BY <2>1, <2>5, ByteIsEightBits
    <2>7. g[i] = NextByte(g[i - 1], b)
      BY <1>2 DEF b
    <2> QED
      BY <2>4, <2>5, <2>6, <2>7
  <1> HIDE DEF S
  <1>6. \A i \in 0..N : i \in S
    BY <1>3, <1>4, <1>5, ByStep
  <1>7. f[8 * N + 8] = g[N]
    BY <1>3, <1>6 DEF S
  <1> QED
    BY <1>7, RunsEnd DEF f, g, N

------------------------------------------------------------------------------
(* Messages that differ in one bit.                                         *)

\* Two messages as long as each other that start the same and take in the same bits up
\* to last are still the same there.
LEMMA SameSoFar ==
  ASSUME NEW m \in Seq(Bits), NEW n \in Seq(Bits), Len(m) > 0, Len(n) = Len(m), m[1] = n[1],
         NEW last \in 8..8 * Len(m) + 8,
         \A k \in 9..last : BitAt(m, k) = BitAt(n, k)
  PROVE  BitRun(m)[last] = BitRun(n)[last]
  <1> DEFINE N == 8 * Len(m)
             f == BitRun(m)
             g == BitRun(n)
             S == {k \in 0..last - 8 : f[k + 8] = g[k + 8]}
  <1>1. f[8] = m[1] /\ \A k \in 9..N + 8 : f[k] = NextBit(f[k - 1], BitAt(m, k))
    BY BitRunSteps
  <1>2. g[8] = n[1] /\ \A k \in 9..N + 8 : g[k] = NextBit(g[k - 1], BitAt(n, k))
    BY BitRunSteps
  <1>3. N \in Nat /\ last - 8 \in Nat /\ last <= N + 8
    OBVIOUS
  <1> HIDE DEF f, g, N
  <1>4. 0 \in S
    BY <1>1, <1>2, <1>3
  <1>5. ASSUME NEW k \in 1..last - 8, k - 1 \in S PROVE k \in S
    <2>1. k + 8 \in 9..N + 8 /\ (k + 8) - 1 = (k - 1) + 8 /\ k + 8 \in 9..last
      BY <1>3
    <2>2. f[(k - 1) + 8] = g[(k - 1) + 8]
      BY <1>5
    <2>3. BitAt(m, k + 8) = BitAt(n, k + 8)
      BY <2>1
    <2>4. f[k + 8] = g[k + 8]
      BY <1>1, <1>2, <2>1, <2>2, <2>3
    <2>5. k \in 0..last - 8
      BY <1>3
    <2> QED
      BY <2>4, <2>5
  <1> HIDE DEF S
  <1>6. \A k \in 0..last - 8 : k \in S
    BY <1>3, <1>4, <1>5, ByStep
  <1>7. last - 8 \in 0..last - 8 /\ (last - 8) + 8 = last
    BY <1>3
  <1>8. last - 8 \in S
    BY <1>6, <1>7
  <1> QED
    BY <1>7, <1>8 DEF S, f, g

\* If they are apart after some bit and take in the same ones after it, they stay apart.
LEMMA ApartFromThere ==
  ASSUME NEW m \in Seq(Bits), NEW n \in Seq(Bits), Len(m) > 0, Len(n) = Len(m),
         NEW p \in 8..8 * Len(m) + 8, BitRun(m)[p] # BitRun(n)[p],
         \A k \in p + 1..8 * Len(m) + 8 : BitAt(m, k) = BitAt(n, k)
  PROVE  crc8_2(m) # crc8_2(n)
  <1> DEFINE N == 8 * Len(m) + 8
             f == BitRun(m)
             g == BitRun(n)
             S == {k \in 0..N - p : f[k + p] # g[k + p]}
  <1>1. /\ \A k \in 8..N : f[k] \in Bits
        /\ \A k \in 9..N : f[k] = NextBit(f[k - 1], BitAt(m, k))
    BY BitRunSteps
  <1>2. /\ \A k \in 8..N : g[k] \in Bits
        /\ \A k \in 9..N : g[k] = NextBit(g[k - 1], BitAt(n, k))
    BY BitRunSteps
  <1>3. N \in Nat /\ N - p \in Nat /\ p \in Nat /\ p >= 8
    OBVIOUS
  <1>4. f[N] = crc8_2(m) /\ g[N] = crc8_2(n)
    BY RunsEnd, ChecksumsAgree
  <1>5. f[p] # g[p] /\ \A k \in p + 1..N : BitAt(m, k) = BitAt(n, k) /\ BitAt(m, k) \in Bit
    <2>1. \A k \in p + 1..N : k \in Nat /\ k > 0
      BY <1>3
    <2> QED
      BY <2>1, SomeBit
  <1> HIDE DEF f, g, N
  <1>6. 0 \in S
    BY <1>3, <1>5
  <1>7. ASSUME NEW k \in 1..N - p, k - 1 \in S PROVE k \in S
    <2>1. /\ k + p \in 9..N /\ (k + p) - 1 = (k - 1) + p /\ k + p \in p + 1..N
          /\ (k - 1) + p \in 8..N
      BY <1>3
    <2>2. f[(k - 1) + p] # g[(k - 1) + p]
      BY <1>7
    <2>3. BitAt(m, k + p) = BitAt(n, k + p) /\ BitAt(m, k + p) \in Bit
      BY <1>5, <2>1
    <2>4. f[(k - 1) + p] \in Bits /\ g[(k - 1) + p] \in Bits
      BY <1>1, <1>2, <2>1
    <2>5. NextBit(f[(k - 1) + p], BitAt(m, k + p)) # NextBit(g[(k - 1) + p], BitAt(m, k + p))
      BY <2>2, <2>3, <2>4, NextBitTells
    <2>6. f[k + p] # g[k + p]
      BY <1>1, <1>2, <2>1, <2>3, <2>5
    <2>7. k \in 0..N - p
      BY <1>3
    <2> QED
      BY <2>6, <2>7
  <1> HIDE DEF S
  <1>8. \A k \in 0..N - p : k \in S
    BY <1>3, <1>6, <1>7, ByStep
  <1>9. N - p \in 0..N - p /\ (N - p) + p = N
    BY <1>3
  <1>10. N - p \in S
    BY <1>8, <1>9
  <1>11. f[N] # g[N]
    BY <1>9, <1>10 DEF S
  <1> QED
    BY <1>4, <1>11

\* A message with one bit flipped.
LEMMA FlipIs ==
  ASSUME NEW m \in Seq(Bits), NEW i \in 1..Len(m), NEW k \in 1..8
  PROVE  /\ Flip(m, i, k) \in Seq(Bits) /\ Len(Flip(m, i, k)) = Len(m)
         /\ \A j \in 1..Len(m) : j # i => Flip(m, i, k)[j] = m[j]
         /\ \A t \in 1..8 : Flip(m, i, k)[i][t] = IF t = k THEN 1 - m[i][t] ELSE m[i][t]
  <1> DEFINE b == [m[i] EXCEPT ![k] = 1 - m[i][k]]
  <1>1. m[i] \in Bits
    OBVIOUS
  <1>2. b \in Bits /\ \A t \in 1..8 : b[t] = IF t = k THEN 1 - m[i][t] ELSE m[i][t]
    <2>1. 1 - m[i][k] \in Bit
      BY <1>1 DEF Bits, Bit
    <2> QED
      BY <1>1, <2>1 DEF Bits
  <1>3. Flip(m, i, k) = [m EXCEPT ![i] = b]
    BY DEF Flip
  <1> HIDE DEF b
  <1> QED
    BY <1>2, <1>3

LEMMA OneBitTells ==
  ASSUME NEW m \in Seq(Bits), NEW i \in 1..Len(m), NEW k \in 1..8
  PROVE  crc8_2(m) # crc8_2(Flip(m, i, k))
  <1> DEFINE n == Flip(m, i, k)
             p == 8 * (i - 1) + k
             N == 8 * Len(m) + 8
  <1>1. /\ n \in Seq(Bits) /\ Len(n) = Len(m)
        /\ \A j \in 1..Len(m) : j # i => n[j] = m[j]
        /\ \A t \in 1..8 : n[i][t] = IF t = k THEN 1 - m[i][t] ELSE m[i][t]
    BY FlipIs
  <1>2. /\ Len(m) \in Nat /\ Len(m) > 0 /\ i \in Nat /\ i >= 1 /\ i <= Len(m) /\ k \in 1..8
        /\ N = 8 * Len(m) + 8 /\ p = 8 * (i - 1) + k /\ m[i] \in Bits
    OBVIOUS
  <1> HIDE DEF n, p, N
  <1>3. n[i][k] # m[i][k]
    <2>1. m[i][k] \in Bit
      BY <1>2 DEF Bits
    <2>2. n[i][k] = 1 - m[i][k]
      BY <1>1, <1>2
    <2> QED
      BY <2>1, <2>2 DEF Bit
  <1>4. ASSUME NEW h \in 9..N, h # p PROVE BitAt(m, h) = BitAt(n, h)
    <2>0. h \in Nat /\ h > 0
      BY <1>2
    <2>1. PICK q \in Nat, t \in 1..8 : h = 8 * q + t
      BY <2>0, BitOfByte
    <2>2. BitAt(m, h) = ctxAt(m, q)[t] /\ BitAt(n, h) = ctxAt(n, q)[t]
      BY <1>1, <2>1, BitAtIs
    <2>3. CASE q < Len(m)
      <3>1. ctxAt(m, q) = m[q + 1] /\ ctxAt(n, q) = n[q + 1] /\ q + 1 \in 1..Len(m)
        <4>1. q < Len(n) /\ q + 1 \in 1..Len(m)
          BY <1>1, <1>2, <2>3
        <4> QED
          BY <2>3, <4>1 DEF ctxAt
      <3>2. CASE q + 1 # i
        BY <1>1, <2>2, <3>1, <3>2
      <3>3. CASE q + 1 = i
        <4>1. t # k
          BY <1>2, <1>4, <2>1, <3>3
        <4> QED
          BY <1>1, <2>2, <3>1, <3>3, <4>1
      <3> QED
        BY <3>2, <3>3
    <2>4. CASE ~(q < Len(m))
      <3>1. ~(q < Len(n))
        BY <1>1, <2>4
      <3> QED
        BY <2>2, <2>4, <3>1 DEF ctxAt
    <2> QED
      BY <2>3, <2>4
  <1>5. CASE i = 1
    <2>1. m[1] # n[1]
      BY <1>3, <1>5
    <2>2. BitRun(m)[8] = m[1] /\ BitRun(n)[8] = n[1]
      BY <1>1, <1>2, BitRunSteps
    <2>3. 8 \in 8..N /\ \A h \in 8 + 1..N : h \in 9..N /\ h # p
      BY <1>2, <1>5
    <2>4. \A h \in 8 + 1..N : BitAt(m, h) = BitAt(n, h)
      BY <1>4, <2>3
    <2>5. crc8_2(m) # crc8_2(n)
      BY <1>1, <1>2, <2>1, <2>2, <2>3, <2>4, ApartFromThere
    <2> QED
      BY <2>5 DEF n
  <1>6. CASE i # 1
    <2>1. p \in 9..N /\ p - 1 \in 8..N /\ p \in 8..N
      BY <1>2, <1>6
    <2>2. m[1] = n[1]
      BY <1>1, <1>2, <1>6
    <2>3. BitRun(m)[p - 1] = BitRun(n)[p - 1]
      <3>1. \A h \in 9..p - 1 : BitAt(m, h) = BitAt(n, h)
        <4>1. N \in Int /\ p \in Int
          BY <1>2
        <4>2. \A h \in 9..p - 1 : h \in 9..N /\ h # p
          BY <2>1, <4>1
        <4> QED
          BY <1>4, <4>2
      <3> QED
        BY <1>1, <1>2, <2>1, <2>2, <3>1, SameSoFar
    <2>4. /\ BitRun(m)[p] = NextBit(BitRun(m)[p - 1], BitAt(m, p))
          /\ BitRun(n)[p] = NextBit(BitRun(n)[p - 1], BitAt(n, p))
          /\ BitRun(m)[p - 1] \in Bits
      BY <1>1, <1>2, <2>1, BitRunSteps
    <2>5. BitAt(m, p) \in Bit /\ BitAt(n, p) \in Bit /\ BitAt(m, p) # BitAt(n, p)
      <3>1. i - 1 \in Nat /\ i - 1 < Len(m) /\ (i - 1) + 1 = i
        BY <1>2
      <3>2. /\ BitAt(m, p) = ctxAt(m, i - 1)[k] /\ BitAt(n, p) = ctxAt(n, i - 1)[k]
            /\ BitAt(m, p) \in Bit /\ BitAt(n, p) \in Bit
        BY <1>1, <1>2, <3>1, BitAtIs
      <3>3. ctxAt(m, i - 1) = m[i] /\ ctxAt(n, i - 1) = n[i]
        BY <1>1, <3>1 DEF ctxAt
      <3> QED
        BY <1>3, <3>2, <3>3
    <2>6. NextBit(BitRun(m)[p - 1], BitAt(m, p)) # NextBit(BitRun(m)[p - 1], BitAt(n, p))
      BY <2>4, <2>5, NextBitTells
    <2>7. BitRun(m)[p] # BitRun(n)[p]
      BY <2>3, <2>4, <2>6
    <2>8. \A h \in p + 1..N : BitAt(m, h) = BitAt(n, h)
      <3>1. \A h \in p + 1..N : h \in 9..N /\ h # p
        BY <2>1
      <3> QED
        BY <1>4, <3>1
    <2>9. crc8_2(m) # crc8_2(n)
      BY <1>1, <1>2, <2>1, <2>7, <2>8, ApartFromThere
    <2> QED
      BY <2>9 DEF n
  <1> QED
    BY <1>5, <1>6

------------------------------------------------------------------------------
(* The checksum of "01234".                                                 *)

ByteOf(a, b, c, d, e, f, g, h) == <<a, b, c, d, e, f, g, h>>

LEMMA ByteIs ==
  ASSUME NEW a \in Bit, NEW b \in Bit, NEW c \in Bit, NEW d \in Bit, NEW e \in Bit,
         NEW f \in Bit, NEW g \in Bit, NEW h \in Bit
  PROVE  ByteOf(a, b, c, d, e, f, g, h) \in Bits
  <1> DEFINE z == <<a, b, c, d, e, f, g, h>>
  <1>1. \A i \in 1..8 : i = 1 \/ i = 2 \/ i = 3 \/ i = 4 \/ i = 5 \/ i = 6 \/ i = 7 \/ i = 8
    OBVIOUS
  <1>2. z = [i \in 1..8 |-> z[i]]
    OBVIOUS
  <1>3. \A i \in 1..8 : z[i] \in Bit
    BY <1>1
  <1> QED
    BY <1>2, <1>3 DEF Bits, ByteOf

\* A round on the bits of a byte one by one.
LEMMA RoundOf ==
  ASSUME NEW a \in Bit, NEW b \in Bit, NEW c \in Bit, NEW d \in Bit, NEW e \in Bit,
         NEW f \in Bit, NEW g \in Bit, NEW h \in Bit
  PROVE  /\ NextBit(ByteOf(0, a, b, c, d, e, f, g), h) = ByteOf(a, b, c, d, e, f, g, h)
         /\ NextBit(ByteOf(1, a, b, c, d, e, f, g), h) =
              ByteOf(1 - a, 1 - b, c, 1 - d, e, 1 - f, g, 1 - h)
  <1> DEFINE z == ByteOf(0, a, b, c, d, e, f, g)
             o == ByteOf(1, a, b, c, d, e, f, g)
             u == ByteOf(a, b, c, d, e, f, g, h)
             v == ByteOf(1 - a, 1 - b, c, 1 - d, e, 1 - f, g, 1 - h)
  <1>1. \A i \in 1..8 : i = 1 \/ i = 2 \/ i = 3 \/ i = 4 \/ i = 5 \/ i = 6 \/ i = 7 \/ i = 8
    OBVIOUS
  <1>2. \A x \in Bit : 1 - x \in Bit /\ Plus(x, 0) = x /\ Plus(x, 1) = 1 - x
    BY DEF Bit, Plus
  <1>3. z \in Bits /\ o \in Bits /\ u \in Bits /\ v \in Bits
    <2>1. 0 \in Bit /\ 1 \in Bit
      BY DEF Bit
    <2> QED
      BY <1>2, <2>1, ByteIs
  <1>4. /\ GP[1] = 1 /\ GP[2] = 1 /\ GP[3] = 0 /\ GP[4] = 1 /\ GP[5] = 0
        /\ GP[6] = 1 /\ GP[7] = 0 /\ GP[8] = 1
    BY DEF GP
  <1>5. /\ z[1] = 0 /\ o[1] = 1
        /\ \A i \in 1..8 : (IF i < 8 THEN z[i + 1] ELSE h) = u[i]
        /\ \A i \in 1..8 : (IF i < 8 THEN o[i + 1] ELSE h) = u[i]
    BY <1>1 DEF ByteOf
  <1>6. \A i \in 1..8 : Plus(u[i], GP[i]) = v[i]
    BY <1>1, <1>2, <1>4 DEF ByteOf
  <1> HIDE DEF z, o, u, v
  <1>7. NextBit(z, h) = u
    <2>1. z[1] # 1
      BY <1>5
    <2>2. /\ NextBit(z, h) \in Bits
          /\ \A i \in 1..8 : NextBit(z, h)[i] = IF i < 8 THEN z[i + 1] ELSE h
      BY <1>3, <2>1, NextBitIs
    <2>3. \A i \in 1..8 : NextBit(z, h)[i] = u[i]
      BY <1>5, <2>2
    <2> QED
      BY <1>3, <2>2, <2>3 DEF Bits
  <1>8. NextBit(o, h) = v
    <2>0. o[1] = 1
      BY <1>5
    <2>1. /\ NextBit(o, h) \in Bits
          /\ \A i \in 1..8 :
               NextBit(o, h)[i] = Plus(IF i < 8 THEN o[i + 1] ELSE h, GP[i])
      BY <1>3, <2>0, NextBitIs
    <2>2. \A i \in 1..8 : NextBit(o, h)[i] = v[i]
      BY <1>5, <1>6, <2>1
    <2> QED
      BY <1>3, <2>1, <2>2 DEF Bits
  <1> QED
    BY <1>7, <1>8 DEF z, o, u, v

\* The four digits after the first one, and the zeros.
LEMMA BytesOfDigits ==
  /\ EightBits(ByteOf(0, 0, 1, 1, 0, 0, 0, 0), ByteOf(0, 0, 1, 1, 0, 0, 0, 1)) =
       ByteOf(1, 1, 0, 0, 0, 1, 1, 1)
  /\ EightBits(ByteOf(1, 1, 0, 0, 0, 1, 1, 1), ByteOf(0, 0, 1, 1, 0, 0, 1, 0)) =
       ByteOf(0, 0, 0, 1, 0, 1, 0, 0)
  /\ EightBits(ByteOf(0, 0, 0, 1, 0, 1, 0, 0), ByteOf(0, 0, 1, 1, 0, 0, 1, 1)) =
       ByteOf(1, 0, 0, 1, 1, 1, 1, 1)
  /\ EightBits(ByteOf(1, 0, 0, 1, 1, 1, 1, 1), ByteOf(0, 0, 1, 1, 0, 1, 0, 0)) =
       ByteOf(1, 1, 1, 1, 0, 1, 0, 0)
  /\ EightBits(ByteOf(1, 1, 1, 1, 0, 1, 0, 0), ByteOf(0, 0, 0, 0, 0, 0, 0, 0)) =
       ByteOf(0, 1, 1, 1, 1, 0, 1, 0)
  <1>1. 0 \in Bit /\ 1 \in Bit
    BY DEF Bit
  <1>2. ASSUME NEW c, NEW b1, NEW b2, NEW b3, NEW b4, NEW b5, NEW b6, NEW b7, NEW b8
        PROVE  EightBits(c, ByteOf(b1, b2, b3, b4, b5, b6, b7, b8)) =
                 NextBit(NextBit(NextBit(NextBit(NextBit(NextBit(NextBit(NextBit(c,
                   b1), b2), b3), b4), b5), b6), b7), b8)
    BY DEF EightBits, ByteOf
  <1>3. EightBits(ByteOf(0, 0, 1, 1, 0, 0, 0, 0), ByteOf(0, 0, 1, 1, 0, 0, 0, 1)) =
          ByteOf(1, 1, 0, 0, 0, 1, 1, 1)
    BY <1>1, <1>2, RoundOf
  <1>4. EightBits(ByteOf(1, 1, 0, 0, 0, 1, 1, 1), ByteOf(0, 0, 1, 1, 0, 0, 1, 0)) =
          ByteOf(0, 0, 0, 1, 0, 1, 0, 0)
    BY <1>1, <1>2, RoundOf
  <1>5. EightBits(ByteOf(0, 0, 0, 1, 0, 1, 0, 0), ByteOf(0, 0, 1, 1, 0, 0, 1, 1)) =
          ByteOf(1, 0, 0, 1, 1, 1, 1, 1)
    BY <1>1, <1>2, RoundOf
  <1>6. EightBits(ByteOf(1, 0, 0, 1, 1, 1, 1, 1), ByteOf(0, 0, 1, 1, 0, 1, 0, 0)) =
          ByteOf(1, 1, 1, 1, 0, 1, 0, 0)
    BY <1>1, <1>2, RoundOf
  <1>7. EightBits(ByteOf(1, 1, 1, 1, 0, 1, 0, 0), ByteOf(0, 0, 0, 0, 0, 0, 0, 0)) =
          ByteOf(0, 1, 1, 1, 1, 0, 1, 0)
    BY <1>1, <1>2, RoundOf
  <1> QED
    BY <1>3, <1>4, <1>5, <1>6, <1>7

\* 0x7a.
LEMMA ChecksumOfDigits == crc8_2(Digits01234) = <<0, 1, 1, 1, 1, 0, 1, 0>>
  <1> DEFINE m == Digits01234
             z == Zeros(8)
             g == ByteRun(m)
  <1>1. Len(m) = 5 /\ m = [i \in 1..5 |-> m[i]]
    BY DEF Digits01234
  <1>2. \A i \in 1..5 : m[i] = <<0, 0, 1, 1, 0>> \o (<<<<0, 0, 0>>, <<0, 0, 1>>,
          <<0, 1, 0>>, <<0, 1, 1>>, <<1, 0, 0>>>>)[i]
    BY DEF Digits01234
  <1> HIDE DEF m, z
  <1>3. ASSUME NEW p \in Bit, NEW q \in Bit, NEW r \in Bit
        PROVE  <<0, 0, 1, 1, 0>> \o <<p, q, r>> = ByteOf(0, 0, 1, 1, 0, p, q, r)
    <2> DEFINE a == <<0, 0, 1, 1, 0>>
               b == <<p, q, r>>
               c == <<0, 0, 1, 1, 0, p, q, r>>
    <2>1. a \in Seq(Int) /\ b \in Seq(Int) /\ c \in Seq(Int)
      BY DEF Bit
    <2>2. /\ Len(a \o b) = Len(a) + Len(b) /\ a \o b \in Seq(Int)
          /\ \A i \in 1..Len(a) + Len(b) :
               (a \o b)[i] = IF i <= Len(a) THEN a[i] ELSE b[i - Len(a)]
      BY <2>1, ConcatProperties
    <2>3. Len(a) = 5 /\ Len(b) = 3 /\ Len(c) = 8
      OBVIOUS
    <2>4. \A i \in 1..8 : i = 1 \/ i = 2 \/ i = 3 \/ i = 4 \/ i = 5 \/ i = 6 \/ i = 7 \/ i = 8
      OBVIOUS
    <2>5. \A i \in 1..8 : (IF i <= 5 THEN a[i] ELSE b[i - 5]) = c[i]
      BY <2>4
    <2> DEFINE d == a \o b
    <2> HIDE DEF a, b, c, d
    <2>6. d \in Seq(Int) /\ Len(d) = Len(c) /\ \A i \in 1..Len(d) : d[i] = c[i]
      <3>1. /\ d \in Seq(Int) /\ Len(d) = Len(a) + Len(b)
            /\ \A i \in 1..Len(a) + Len(b) :
                 d[i] = IF i <= Len(a) THEN a[i] ELSE b[i - Len(a)]
        BY <2>2 DEF d
      <3> QED
        BY <2>3, <2>5, <3>1
    <2>7. d = c
      BY <2>1, <2>6, SeqEqual
    <2> QED
      BY <2>7 DEF a, b, c, d, ByteOf
  <1>4. 0 \in Bit /\ 1 \in Bit
    BY DEF Bit
  <1>5. /\ m[1] = ByteOf(0, 0, 1, 1, 0, 0, 0, 0)
        /\ m[2] = ByteOf(0, 0, 1, 1, 0, 0, 0, 1)
        /\ m[3] = ByteOf(0, 0, 1, 1, 0, 0, 1, 0)
        /\ m[4] = ByteOf(0, 0, 1, 1, 0, 0, 1, 1)
        /\ m[5] = ByteOf(0, 0, 1, 1, 0, 1, 0, 0)
    <2>1. /\ m[1] = <<0, 0, 1, 1, 0>> \o <<0, 0, 0>>
          /\ m[2] = <<0, 0, 1, 1, 0>> \o <<0, 0, 1>>
          /\ m[3] = <<0, 0, 1, 1, 0>> \o <<0, 1, 0>>
          /\ m[4] = <<0, 0, 1, 1, 0>> \o <<0, 1, 1>>
          /\ m[5] = <<0, 0, 1, 1, 0>> \o <<1, 0, 0>>
      BY <1>2
    <2> QED
      BY <1>3, <1>4, <2>1
  <1>6. z = ByteOf(0, 0, 0, 0, 0, 0, 0, 0)
    BY DEF Zeros, ByteOf, z
  <1>7. m \in Seq(Bits)
    <2>1. \A i \in 1..5 : i = 1 \/ i = 2 \/ i = 3 \/ i = 4 \/ i = 5
      OBVIOUS
    <2>2. m[1] \in Bits /\ m[2] \in Bits /\ m[3] \in Bits /\ m[4] \in Bits /\ m[5] \in Bits
      BY <1>4, <1>5, ByteIs
    <2>3. \A i \in 1..5 : m[i] \in Bits
      BY <2>1, <2>2
    <2> QED
      BY <1>1, <2>3
  <1>8. /\ g[0] = m[1] /\ g[0] \in Bits
        /\ \A i \in 1..5 : g[i] = NextByte(g[i - 1], ctxAt(m, i))
    <2>1. Len(m) > 0 /\ m[1] \in Bits
      BY <1>1, <1>7
    <2>2. /\ g[0] = m[1]
          /\ \A i \in 1..Len(m) : g[i] = NextByte(g[i - 1], ctxAt(m, i))
      BY <1>7, <2>1, ByteRunSteps
    <2> HIDE DEF g
    <2> QED
      BY <1>1, <2>1, <2>2
  <1>9. \A i \in 1..5 : ctxAt(m, i) \in Bits
    BY <1>7, ctxAtIs
  <1>10. /\ ctxAt(m, 1) = m[2] /\ ctxAt(m, 2) = m[3] /\ ctxAt(m, 3) = m[4]
         /\ ctxAt(m, 4) = m[5] /\ ctxAt(m, 5) = z
    BY <1>1, <1>7 DEF ctxAt, z
  <1> HIDE DEF g
  <1>11. \A i \in 1..5 : g[i - 1] \in Bits =>
                         g[i] = EightBits(g[i - 1], ctxAt(m, i)) /\ g[i] \in Bits
    BY <1>8, <1>9, ByteIsEightBits
  <1>12. g[1] = EightBits(g[0], m[2]) /\ g[1] \in Bits
    BY <1>8, <1>10, <1>11
  <1>13. g[2] = EightBits(g[1], m[3]) /\ g[2] \in Bits
    BY <1>12, <1>10, <1>11
  <1>14. g[3] = EightBits(g[2], m[4]) /\ g[3] \in Bits
    BY <1>13, <1>10, <1>11
  <1>15. g[4] = EightBits(g[3], m[5]) /\ g[4] \in Bits
    BY <1>14, <1>10, <1>11
  <1>16. g[5] = EightBits(g[4], z) /\ g[5] \in Bits
    BY <1>15, <1>10, <1>11
  <1>17. /\ g[1] = ByteOf(1, 1, 0, 0, 0, 1, 1, 1)
         /\ g[2] = ByteOf(0, 0, 0, 1, 0, 1, 0, 0)
         /\ g[3] = ByteOf(1, 0, 0, 1, 1, 1, 1, 1)
         /\ g[4] = ByteOf(1, 1, 1, 1, 0, 1, 0, 0)
         /\ g[5] = ByteOf(0, 1, 1, 1, 1, 0, 1, 0)
    BY <1>5, <1>6, <1>8, <1>12, <1>13, <1>14, <1>15, <1>16, BytesOfDigits
  <1> QED
    BY <1>1, <1>17, RunsEnd DEF ByteOf, g, m

------------------------------------------------------------------------------
(* The calls.                                                               *)

\* One call of one of the functions.
PureSpec == PureInit /\ [][PureNext]_callVars

\* A call made is one of those allowed, and what it returned is what the function gives.
PureInv ==
  /\ MakesCall
  /\ Returned("parse_url") => reply = parse_url(Url(call.url))
  /\ Returned("packet") =>
       reply = LET packed == pack(call.fmt, call.vals)
                IN  [packed |-> packed, back |-> unpack(call.fmt, packed.bytes)]
  /\ Returned("crc8") => reply = <<crc8_1(call.ctx), crc8_2(call.ctx)>>
  /\ Returned("maxcomsubstr") => reply = maxcomsubstr(call.str)

LEMMA MakesCallOf ==
  ASSUME MakesCall
  PROVE  /\ call.f = "parse_url" => call.url \in Addresses
         /\ call.f = "packet" => call.fmt \in Formats /\ call.vals \in [1..Len(call.fmt) -> Ulongs]
         /\ call.f = "crc8" => call.ctx \in Messages
         /\ call.f = "maxcomsubstr" => call.str \in Strings
  <1>1. CASE \E a \in Addresses : call = [f |-> "parse_url", url |-> a]
    BY <1>1
  <1>2. CASE \E fmt \in Formats : \E vals \in [1..Len(fmt) -> Ulongs] :
               call = [f |-> "packet", fmt |-> fmt, vals |-> vals]
    BY <1>2
  <1>3. CASE \E m \in Messages : call = [f |-> "crc8", ctx |-> m]
    BY <1>3
  <1>4. CASE \E s \in Strings : call = [f |-> "maxcomsubstr", str |-> s]
    BY <1>4
  <1> QED
    BY <1>1, <1>2, <1>3, <1>4 DEF MakesCall

LEMMA PureInitInv == PureInit => PureInv
  BY DEF PureInit, PureInv, Returned

LEMMA PureStepInv == PureInv /\ [PureNext]_callVars => PureInv'
  <1> SUFFICES ASSUME PureInv, [PureNext]_callVars PROVE PureInv'
    OBVIOUS
  <1>1. ASSUME UNCHANGED call PROVE MakesCall'
    BY <1>1 DEF PureInv, MakesCall
  <1>2. CASE CallParseUrl
    BY <1>1, <1>2, Zenon DEF PureInv, CallParseUrl, Called, Returned
  <1>3. CASE CallPacket
    BY <1>1, <1>3 DEF PureInv, CallPacket, Called, Returned
  <1>4. CASE CallCrc8
    BY <1>1, <1>4 DEF PureInv, CallCrc8, Called, Returned
  <1>5. CASE CallComSubstr
    BY <1>1, <1>5 DEF PureInv, CallComSubstr, Called, Returned
  <1>6. CASE UNCHANGED callVars
    BY <1>1, <1>6 DEF PureInv, callVars, Returned
  <1> QED
    BY <1>2, <1>3, <1>4, <1>5, <1>6 DEF PureNext

LEMMA PureInvariant == PureSpec => []PureInv
  <1>1. PureInit => PureInv
    BY PureInitInv
  <1>2. PureInv /\ [PureNext]_callVars => PureInv'
    BY PureStepInv
  <1> QED
    BY <1>1, <1>2, PTL DEF PureSpec

\* parse_url takes every url apart into what it was made of (fetch.c:37-73).
THEOREM UrlIsParsed == PureSpec => []UrlParsed
  <1>1. PureInv => UrlParsed
    BY MakesCallOf, UrlTakenApart DEF PureInv, UrlParsed, Returned
  <1> QED
    BY <1>1, PureInvariant, PTL

\* Whatever is packed with a format comes out of unpacking with it, cut to its letters,
\* a long only if its 32nd bit is clear (packet.c:13-92).
THEOREM PacketsComeBack == PureSpec => []PacketRoundTrip
  <1>1. PureInv => PacketRoundTrip
    BY MakesCallOf, PacketsRoundTrip DEF PureInv, PacketRoundTrip, Returned
  <1> QED
    BY <1>1, PureInvariant, PTL

\* The checksum taken bit by bit and the one taken from the table are the same for every
\* message, 0x7a for "01234", and a flipped bit changes it (crc8-1.c:17-43,
\* crc8-2.c:20-53).
THEOREM ChecksumsDetect == PureSpec => []CrcAgreesAndDetects
  <1>1. ASSUME NEW m \in Messages PROVE AgreesAndDetects(m, <<crc8_1(m), crc8_2(m)>>)
    <2>1. m \in Seq(Bits) /\ Len(m) > 0 /\ DOMAIN m = 1..Len(m)
      BY StringsAssumption DEF Bits, Bit
    <2>2. crc8_1(m) = crc8_2(m)
      BY <2>1, ChecksumsAgree
    <2>3. \A i \in 1..Len(m), k \in 1..8 : crc8_2(m) # crc8_2(Flip(m, i, k))
      BY <2>1, OneBitTells
    <2> QED
      BY <2>1, <2>2, <2>3, ChecksumOfDigits DEF AgreesAndDetects
  <1>2. PureInv => CrcAgreesAndDetects
    BY <1>1, MakesCallOf DEF PureInv, CrcAgreesAndDetects, Returned
  <1> QED
    BY <1>2, PureInvariant, PTL

\* What maxcomsubstr returns is twice in the string and nothing longer is
\* (maxcomsubstr.c:24-44).
THEOREM LongestIsFound == PureSpec => []LongestRepeat
  <1>1. \A s \in Strings : Longest(s, maxcomsubstr(s))
    BY StringsAssumption, LongestFound
  <1>2. PureInv => LongestRepeat
    BY <1>1, MakesCallOf DEF PureInv, LongestRepeat, Returned
  <1> QED
    BY <1>2, PureInvariant, PTL
==============================================================================
