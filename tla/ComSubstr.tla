------------------------------ MODULE ComSubstr ------------------------------
(***************************************************************************)
(* algorithm/comsubstr: the longest part of a string that is in it twice,  *)
(* found between neighbours of the sorted suffixes.  Characters are        *)
(* numbers, in the order of strcmp.                                        *)
(***************************************************************************)
EXTENDS Integers, Sequences, FiniteSetsExt

\* How many characters p and q agree in from the start.
comlen(p, q) ==
  CHOOSE n \in 0..Len(p) :
    /\ n <= Len(q) /\ \A i \in 1..n : p[i] = q[i]
    /\ n < Len(p) /\ n < Len(q) => p[n + 1] # q[n + 1]

\* strcmp(p, q) <= 0.
UpToStr(p, q) ==
  LET n == comlen(p, q)
  IN  n = Len(p) \/ (n < Len(q) /\ p[n + 1] < q[n + 1])

\* The suffixes in order; they differ in length, so that their order is one, and the
\* place of each is the number of those up to it.
suffixes(str) == {SubSeq(str, i, Len(str)) : i \in 1..Len(str)}
Place(str, p) == Cardinality({q \in suffixes(str) : UpToStr(q, p)})
psuffixes(str) == [i \in 1..Len(str) |-> CHOOSE p \in suffixes(str) : Place(str, p) = i]

\* The longest part that two neighbours of p begin with.
LongestCommon(p) ==
  LET len == [i \in 1..Len(p) - 1 |-> comlen(p[i], p[i + 1])]
      maxlen == Max({0} \cup {len[i] : i \in DOMAIN len})
      maxi == IF maxlen = 0 THEN 1 ELSE Min({i \in DOMAIN len : len[i] = maxlen})
  IN  SubSeq(p[maxi], 1, maxlen)

\* Slip: the suffixes are not sorted.
maxcomsubstr_Unsorted(str) == LongestCommon([i \in 1..Len(str) |-> SubSeq(str, i, Len(str))])
maxcomsubstr(str) == LongestCommon(psuffixes(str))
=============================================================================
