----------------------------- MODULE Allocator ------------------------------
(***************************************************************************)
(* algorithm/allocator: a first-fit allocator over sbrk.  Free blocks form *)
(* a circular list in the order of their addresses, which starts at the    *)
(* static header `base'; the list lives in the blocks' own headers.  The   *)
(* search and the walk to the place of a freed block are loops over that   *)
(* list, one round per step.  Addresses and sizes count headers.  What      *)
(* callers write lies between the headers and is not read by anybody.      *)
(***************************************************************************)
EXTENDS Integers, FiniteSets

CONSTANTS
  Requests,     \* values of nbytes
  HeaderSize,   \* sizeof(Header)
  NALLOC,       \* the least that is asked of sbrk
  FirstBreak,   \* the break when the program starts, above the static data
  Limit,        \* where sbrk fails
  Gaps,         \* what others may have moved the break by before a call of sbrk
  MaxCalls      \* bound: calls of Alloc_malloc

ASSUME SizesAssumption ==
  /\ HeaderSize \in Nat \ {0} /\ NALLOC \in Nat \ {0}
  /\ FirstBreak \in Nat /\ FirstBreak > 1 /\ Limit \in Nat /\ FirstBreak <= Limit
ASSUME CallsAssumption == Requests \subseteq Nat /\ Gaps \subseteq Nat /\ MaxCalls \in Nat

base == 0
NULL == -1
Units == 0..Limit - 1

VARIABLES
  next, size,   \* s.ptr and s.size of the header at each address
  freep, brk,
  pc,           \* "idle", "search" (Alloc_malloc's loop) or "insert" (Alloc_free's)
  nbytes, p, prevp,  \* of Alloc_malloc
  bp, q,        \* of Alloc_free, whose own p is called q here
  morecore,     \* Alloc_free was called by morecore
  ret,          \* what the last Alloc_malloc returned, as the block's header
  used,         \* history: blocks handed out and not freed
  got,          \* history: what sbrk has given
  calls

list == <<next, size, freep>>
search == <<nbytes, p, prevp>>
insert == <<bp, q, morecore>>
vars == <<list, brk, pc, search, insert, ret, used, got, calls>>

nunits == (nbytes + HeaderSize - 1) \div HeaderSize + 1

------------------------------------------------------------------------------
(* Alloc_malloc.                                                            *)

Alloc_malloc(n) ==
  /\ pc = "idle" /\ calls < MaxCalls
  /\ calls' = calls + 1 /\ nbytes' = n /\ pc' = "search"
  /\ IF freep = NULL
     THEN /\ next' = [next EXCEPT ![base] = base] /\ size' = [size EXCEPT ![base] = 0]
          /\ freep' = base
     ELSE UNCHANGED list
  /\ prevp' = freep' /\ p' = next'[freep']
  /\ UNCHANGED <<brk, insert, ret, used, got>>

\* Slip: a block of just the right size stays in the list.
Take_Stays ==
  /\ pc = "search" /\ size[p] >= nunits
  /\ LET at == p + (size[p] - nunits)
     IN  /\ size' = [size EXCEPT ![p] = IF at = p THEN @ ELSE @ - nunits, ![at] = nunits]
         /\ used' = used \cup {[block |-> at, units |-> nunits, bytes |-> nbytes]}
         /\ ret' = at
  /\ freep' = prevp /\ pc' = "idle"
  /\ UNCHANGED <<next, brk, search, insert, got, calls>>
\* A block of the right size leaves the list, a larger one gives its end.
Take ==
  /\ pc = "search" /\ size[p] >= nunits
  /\ LET at == p + (size[p] - nunits)
     IN  /\ IF at = p THEN next' = [next EXCEPT ![prevp] = next[p]] /\ UNCHANGED size
            ELSE size' = [size EXCEPT ![p] = @ - nunits, ![at] = nunits] /\ UNCHANGED next
         /\ used' = used \cup {[block |-> at, units |-> nunits, bytes |-> nbytes]}
         /\ ret' = at
  /\ freep' = prevp /\ pc' = "idle"
  /\ UNCHANGED <<brk, search, insert, got, calls>>

Advance ==
  /\ pc = "search" /\ size[p] < nunits /\ p # freep
  /\ prevp' = p /\ p' = next[p]
  /\ UNCHANGED <<list, brk, pc, nbytes, insert, ret, used, got, calls>>

Sbrk(n, gap) ==
  LET up == brk + gap
  IN  IF up + n > Limit
      THEN pc' = "idle" /\ ret' = NULL /\ UNCHANGED <<size, brk, got, insert>>
      ELSE /\ brk' = up + n /\ got' = got \cup up..up + n - 1
           /\ size' = [size EXCEPT ![up] = n]
           /\ bp' = up /\ q' = freep /\ morecore' = TRUE
           /\ pc' = "insert" /\ UNCHANGED ret
\* Slip: the block the search began before is not looked at.
Grow_Early ==
  /\ pc = "search" /\ p = freep
  /\ \E gap \in Gaps : Sbrk(IF nunits < NALLOC THEN NALLOC ELSE nunits, gap)
  /\ UNCHANGED <<next, freep, search, used, calls>>
Grow ==
  /\ pc = "search" /\ size[p] < nunits /\ p = freep
  /\ \E gap \in Gaps : Sbrk(IF nunits < NALLOC THEN NALLOC ELSE nunits, gap)
  /\ UNCHANGED <<next, freep, search, used, calls>>

------------------------------------------------------------------------------
(* Alloc_free.                                                              *)

\* The caller frees only what it has, and once.
Alloc_free(b) ==
  /\ pc = "idle" /\ b \in used
  /\ bp' = b.block /\ q' = freep /\ morecore' = FALSE
  /\ pc' = "insert" /\ used' = used \ {b}
  /\ UNCHANGED <<list, brk, search, ret, got, calls>>

\* Slip: a list of one block does not end at itself.
Between_Strict ==
  \/ q < bp /\ bp < next[q]
  \/ q > next[q] /\ (bp > q \/ bp < next[q])
\* bp lies between q and its successor, or beyond either end of the list.
Between ==
  \/ q < bp /\ bp < next[q]
  \/ q >= next[q] /\ (bp > q \/ bp < next[q])

Walk ==
  /\ pc = "insert" /\ ~Between
  /\ q' = next[q]
  /\ UNCHANGED <<list, brk, pc, search, bp, morecore, ret, used, got, calls>>

\* The list with bp put between q and its successor, joined to each it touches.
\* Slip: a block joined to the one below keeps only its own size.
Join_LosesAbove(up, down) ==
  LET above == next[q]
      after == IF up THEN next[above] ELSE above
  IN  /\ next' = IF down THEN [next EXCEPT ![bp] = after, ![q] = after]
                 ELSE [next EXCEPT ![bp] = after, ![q] = bp]
      /\ size' = IF down THEN [size EXCEPT ![q] = @ + size[bp]]
                 ELSE [size EXCEPT ![bp] = @ + IF up THEN size[above] ELSE 0]
Join(up, down) ==
  LET above == next[q]
      after == IF up THEN next[above] ELSE above
      long == size[bp] + IF up THEN size[above] ELSE 0
  IN  /\ next' = [next EXCEPT ![bp] = after, ![q] = IF down THEN after ELSE bp]
      /\ size' = [size EXCEPT ![bp] = long, ![q] = IF down THEN @ + long ELSE @]

\* The end of Alloc_free; morecore returns freep and the search goes on from it.
Link ==
  /\ pc = "insert" /\ Between
  /\ Join(bp + size[bp] = next[q], q + size[q] = bp)
  /\ freep' = q
  /\ IF morecore THEN pc' = "search" /\ prevp' = q /\ p' = next'[q] /\ UNCHANGED nbytes
                 ELSE pc' = "idle" /\ UNCHANGED search
  /\ UNCHANGED <<brk, insert, ret, used, got, calls>>

------------------------------------------------------------------------------
\* Static data and what sbrk gives are zero.
Init ==
  /\ next = [a \in Units |-> 0] /\ size = [a \in Units |-> 0]
  /\ freep = NULL /\ brk = FirstBreak /\ pc = "idle"
  /\ nbytes = 0 /\ p = base /\ prevp = base
  /\ bp = base /\ q = base /\ morecore = FALSE
  /\ ret = NULL /\ used = {} /\ got = {} /\ calls = 0

Loops == Take \/ Advance \/ Grow \/ Walk \/ Link
Next ==
  \/ Loops
  \/ \E n \in Requests : Alloc_malloc(n)
  \/ \E b \in used : Alloc_free(b)

Spec == Init /\ [][Next]_vars
\* A call runs to its end.
FairSpec == Spec /\ WF_vars(Loops)

------------------------------------------------------------------------------
(* Properties.                                                              *)

TypeOK ==
  /\ next \in [Units -> Units] /\ size \in [Units -> 0..Limit]
  /\ freep \in Units \cup {NULL} /\ brk \in FirstBreak..Limit
  /\ pc \in {"idle", "search", "insert"}
  /\ nbytes \in Requests \cup {0} /\ p \in Units /\ prevp \in Units
  /\ bp \in Units /\ q \in Units /\ morecore \in BOOLEAN
  /\ ret \in Units \cup {NULL}
  /\ \A b \in used : b.block \in Units \ {base} /\ b.units \in 1..Limit /\ b.bytes \in Requests
  /\ got \subseteq Units /\ calls \in 0..MaxCalls

\* The headers reached from base.
chain[n \in 0..Limit] == IF n = 0 THEN base ELSE next[chain[n - 1]]
FreeList == {chain[n] : n \in 0..Limit}
Resting == pc # "insert" /\ freep # NULL

\* The free list goes up through the addresses and back to base, and no block on
\* it overlaps or touches the next: whatever order blocks are freed in, and
\* wherever freep was left, neighbours are joined (alloc.c:70-86).
ListInOrder ==
  Resting =>
    /\ freep \in FreeList
    /\ \A b \in FreeList : next[b] = base \/ b + size[b] < next[b]
    /\ \A b \in FreeList \ {base} : size[b] > 0

\* Every unit sbrk gave is in exactly one block, free or handed out: nothing is
\* lost when blocks are cut and joined, and nothing belongs to two (alloc.c:33-38,
\* 75-86).  The header of a block handed out still says its size, which is what
\* Alloc_free will use.
Free == {[block |-> b, units |-> size[b]] : b \in FreeList \ {base}}
Out == {[block |-> u.block, units |-> u.units] : u \in used}
EveryUnitOwned ==
  Resting =>
    /\ \A a \in got : Cardinality({b \in Free \cup Out :
                                     b.block <= a /\ a < b.block + b.units}) = 1
    /\ \A b \in Free \cup Out : b.block..b.block + b.units - 1 \subseteq got
    /\ Free \cap Out = {}
    /\ \A b \in Out : size[b.block] = b.units

\* The list and the heap stay sound through any order of calls.
HeapSound == TypeOK /\ ListInOrder /\ EveryUnitOwned

\* The search has been round the whole list before it asks for more memory: no
\* free block was large enough, also when freep was in the middle of the list or
\* the memory just given was joined to a block behind it (alloc.c:31-47).
GrowsOnlyWhenNeeded ==
  [][(pc = "search" /\ pc' # "search" /\ used' = used) =>
       \A b \in FreeList : size[b] < nunits]_vars

\* Callers see memory of their own, large enough for what they asked for.
P == INSTANCE Pool
Implements == P!Spec

\* The loops over the circular list end (alloc.c:31, 70).
CallsReturn == (pc # "idle") ~> (pc = "idle")
=============================================================================
