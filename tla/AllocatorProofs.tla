--------------------------- MODULE AllocatorProofs ---------------------------
(***************************************************************************)
(* What the allocator keeps, for every heap size, every break, every       *)
(* request and every order of calls: the free list and the heap are sound, *)
(* memory is asked for only when no block will do, and callers see what    *)
(* Pool promises.                                                          *)
(***************************************************************************)
EXTENDS Allocator, NaturalsInduction, WellFoundedInduction, FiniteSetTheorems, TLAPS

------------------------------------------------------------------------------
(* The list as a set of headers.                                            *)

\* nxt leads from each header of F to the next higher one, and from the last to base.
Ring(nxt, F) ==
  /\ nxt \in [Units -> Units] /\ F \subseteq Units /\ base \in F
  /\ \A b \in F :
       /\ nxt[b] \in F
       /\ \/ b < nxt[b] /\ \A c \in F : c <= b \/ nxt[b] <= c
          \/ nxt[b] = base /\ \A c \in F : c <= b

\* chain and FreeList, of any list.
ChainOf(nxt) ==
  CHOOSE c : c = [n \in 0..Limit |-> IF n = 0 THEN base ELSE nxt[c[n - 1]]]
Reached(nxt) == {ChainOf(nxt)[n] : n \in 0..Limit}

LEMMA FreeListReached == FreeList = Reached(next) /\ FreeList' = Reached(next')
BY DEF FreeList, chain, Reached, ChainOf

LEMMA BaseInUnits == base \in Units /\ Limit \in Nat /\ Limit > 1
BY SizesAssumption DEF base, Units

LEMMA HasLeast ==
  ASSUME NEW S, S \subseteq Nat, S # {}
  PROVE  \E x \in S : \A y \in S : x <= y
<1>1. \E x \in S : \A y \in S : ~ (<<y, x>> \in OpToRel(<, Nat))
  BY NatLessThanWellFounded, WFMin, Zenon
<1>2. \A x, y \in S : ~ (<<y, x>> \in OpToRel(<, Nat)) => x <= y
  BY DEF OpToRel
<1> QED
  BY <1>1, <1>2

\* A walk of any length from base exists: there is no least length without one.
LEMMA WalkExists ==
  ASSUME NEW nxt \in [Units -> Units]
  PROVE  \A m \in Nat : \E w \in [0..m -> Units] :
           w[0] = base /\ \A k \in 1..m : w[k] = nxt[w[k - 1]]
<1> DEFINE Walks(m) == \E w \in [0..m -> Units] :
                         w[0] = base /\ \A k \in 1..m : w[k] = nxt[w[k - 1]]
           S == {m \in Nat : ~Walks(m)}
<1> SUFFICES ASSUME S # {} PROVE FALSE
  OBVIOUS
<1>1. PICK m \in S : \A k \in S : m <= k
  <2>1. S \subseteq Nat
    OBVIOUS
  <2> HIDE DEF S
  <2> QED
    BY <2>1, HasLeast
<1>2. m # 0
  <2>1. [k \in 0..0 |-> base] \in [0..0 -> Units]
    BY BaseInUnits
  <2>2. [k \in 0..0 |-> base][0] = base /\ 1..0 = {}
    OBVIOUS
  <2>3. Walks(0)
    BY <2>1, <2>2
  <2> QED
    BY <1>1, <2>3
<1>3. m - 1 \in Nat /\ Walks(m - 1)
  <2> HIDE DEF Walks
  <2>1. m \in Nat /\ m - 1 \in Nat /\ ~(m <= m - 1)
    BY <1>1, <1>2
  <2>2. m - 1 \notin S
    BY <1>1, <2>1
  <2> QED
    BY <2>1, <2>2
<1>4. PICK w \in [0..m - 1 -> Units] :
        w[0] = base /\ \A k \in 1..m - 1 : w[k] = nxt[w[k - 1]]
  BY <1>3
<1> DEFINE v == [k \in 0..m |-> IF k < m THEN w[k] ELSE nxt[w[m - 1]]]
<1>5. v \in [0..m -> Units] /\ v[0] = base /\ \A k \in 1..m : v[k] = nxt[v[k - 1]]
  BY <1>1, <1>2, <1>4
<1>6. Walks(m)
  BY <1>5
<1> QED
  BY <1>1, <1>6

LEMMA ChainSteps ==
  ASSUME NEW nxt \in [Units -> Units]
  PROVE  /\ ChainOf(nxt) \in [0..Limit -> Units]
         /\ ChainOf(nxt)[0] = base
         /\ \A n \in 1..Limit : ChainOf(nxt)[n] = nxt[ChainOf(nxt)[n - 1]]
<1>1. PICK w \in [0..Limit -> Units] :
        w[0] = base /\ \A k \in 1..Limit : w[k] = nxt[w[k - 1]]
  BY WalkExists, BaseInUnits
<1>2. w = [n \in 0..Limit |-> IF n = 0 THEN base ELSE nxt[w[n - 1]]]
  BY <1>1, BaseInUnits
<1> DEFINE c == ChainOf(nxt)
<1>3. c = [n \in 0..Limit |-> IF n = 0 THEN base ELSE nxt[c[n - 1]]]
  BY <1>2, Zenon DEF ChainOf
<1>4. \A m \in 0..Limit : c[m] = IF m = 0 THEN base ELSE nxt[c[m - 1]]
  <2> HIDE DEF c
  <2> QED
    BY <1>3
<1> HIDE DEF c
<1>5. \A m \in 0..Limit : c[m] \in Units
  <2> DEFINE S == {m \in 0..Limit : c[m] \notin Units}
  <2> SUFFICES ASSUME S # {} PROVE FALSE
    OBVIOUS
  <2>1. PICK m \in S : \A k \in S : m <= k
    <3>1. S \subseteq Nat
      BY BaseInUnits
    <3> HIDE DEF S
    <3> QED
      BY <3>1, HasLeast
  <2>2. m # 0
    BY <2>1, <1>4, BaseInUnits
  <2>3. m - 1 \in 0..Limit /\ c[m - 1] \in Units
    BY <2>1, <2>2, BaseInUnits
  <2> QED
    BY <2>1, <2>2, <2>3, <1>4
<1>6. DOMAIN c = 0..Limit /\ c = [n \in DOMAIN c |-> c[n]]
  BY <1>3
<1>7. c \in [0..Limit -> Units]
  BY <1>5, <1>6
<1> QED
  BY <1>4, <1>7, BaseInUnits DEF c

\* A header below another has a next one, no higher than the other.
LEMMA RingIsReached ==
  ASSUME NEW nxt, NEW F, Ring(nxt, F)
  PROVE  Reached(nxt) = F
<1> USE DEF Ring
<1> DEFINE c == ChainOf(nxt)
<1>1. /\ c \in [0..Limit -> Units] /\ c[0] = base
      /\ \A n \in 1..Limit : c[n] = nxt[c[n - 1]]
  BY ChainSteps
<1>2. Reached(nxt) = {c[n] : n \in 0..Limit}
  BY DEF Reached
<1> HIDE DEF c
<1>0. \A f \in F : f \in 0..Limit - 1
  BY DEF Units
<1>3. \A n \in 0..Limit : c[n] \in F
  <2> DEFINE S == {m \in 0..Limit : c[m] \notin F}
  <2> SUFFICES ASSUME S # {} PROVE FALSE
    OBVIOUS
  <2>1. PICK m \in S : \A k \in S : m <= k
    <3>1. S \subseteq Nat
      BY BaseInUnits
    <3> HIDE DEF S
    <3> QED
      BY <3>1, HasLeast
  <2>2. m # 0
    BY <2>1, <1>1
  <2>3. m - 1 \in 0..Limit /\ c[m - 1] \in F
    BY <2>1, <2>2, BaseInUnits
  <2> QED
    BY <1>1, <2>1, <2>2, <2>3
<1>4. ASSUME NEW f \in F PROVE \E n \in 0..f : n <= Limit /\ c[n] = f
  <2> DEFINE S == {g \in F : ~ \E n \in 0..g : n <= Limit /\ c[n] = g}
  <2> SUFFICES ASSUME S # {} PROVE FALSE
    OBVIOUS
  <2>1. PICK g \in S : \A k \in S : g <= k
    <3>1. S \subseteq Nat
      BY <1>0
    <3> HIDE DEF S
    <3> QED
      BY <3>1, HasLeast
  <2>0. g \in F /\ ~ \E n \in 0..g : n <= Limit /\ c[n] = g
    BY <2>1
  <2>2. g \in 1..Limit - 1
    <3>1. g # 0
      BY <2>0, <1>1, BaseInUnits DEF base
    <3> QED
      BY <1>0, <2>0, <3>1, BaseInUnits
  <2> DEFINE Below == {g - b : b \in {b \in F : b < g}}
  <2>3. PICK d \in Below : \A k \in Below : d <= k
    <3>1. Below \subseteq Nat
      BY <2>2 DEF Units
    <3>2. g - base \in Below
      BY <2>2 DEF base
    <3> HIDE DEF Below
    <3> QED
      BY <3>1, <3>2, HasLeast
  <2>4. PICK b \in F : b < g /\ \A e \in F : e < g => e <= b
    <3>1. PICK b \in F : b < g /\ d = g - b
      BY <2>3
    <3>2. \A e \in F : e < g => g - b <= g - e
      BY <2>3, <3>1
    <3> QED
      BY <3>1, <3>2, <2>2 DEF Units
  <2>5. nxt[b] = g
    BY <2>1, <2>4 DEF Units, base
  <2>6. PICK n \in 0..b : n <= Limit /\ c[n] = b
    BY <2>1, <2>4 DEF Units
  <2>7. n + 1 \in 0..g /\ n + 1 <= Limit /\ c[n + 1] = g
    <3>1. b \in 0..Limit - 1 /\ n \in 0..b /\ b < g
      BY <1>0, <2>4, <2>6
    <3>2. n + 1 \in 1..Limit /\ (n + 1) - 1 = n /\ n + 1 \in 0..g
      BY <2>2, <3>1, BaseInUnits
    <3> QED
      BY <1>1, <2>5, <2>6, <3>2
  <2> QED
    BY <2>0, <2>7
<1>5. F \subseteq {c[n] : n \in 0..Limit}
  <2> SUFFICES ASSUME NEW f \in F PROVE \E n \in 0..Limit : f = c[n]
    OBVIOUS
  <2> QED
    BY <1>0, <1>4, BaseInUnits
<1> QED
  BY <1>2, <1>3, <1>5

LEMMA RingSame ==
  ASSUME NEW nxt, NEW F, Ring(nxt, F), NEW other \in [Units -> Units],
         \A b \in F : other[b] = nxt[b]
  PROVE  Ring(other, F)
BY DEF Ring

LEMMA RingRemove ==
  ASSUME NEW nxt, NEW F, Ring(nxt, F), NEW a \in F, NEW b \in F, b # base, nxt[a] = b
  PROVE  Ring([nxt EXCEPT ![a] = nxt[b]], F \ {b})
<1> USE DEF Ring, base
<1> DEFINE new == [nxt EXCEPT ![a] = nxt[b]]
<1>0. \A f \in F : f \in 0..Limit - 1
  BY DEF Units
<1>1. a # b
  BY <1>0
<1>2. new \in [Units -> Units] /\ new[a] = nxt[b] /\ \A f \in F \ {a} : new[f] = nxt[f]
  OBVIOUS
<1> HIDE DEF new
<1>3. ASSUME NEW f \in F \ {b}
      PROVE  /\ new[f] \in F \ {b}
             /\ \/ f < new[f] /\ \A c \in F \ {b} : c <= f \/ new[f] <= c
                \/ new[f] = 0 /\ \A c \in F \ {b} : c <= f
  <2>1. CASE f = a
    BY <1>0, <1>1, <1>2, <2>1
  <2>2. CASE f # a
    <3>1. nxt[f] # b
      BY <1>0, <1>1, <2>2
    <3> QED
      BY <1>0, <1>2, <2>2, <3>1
  <2> QED
    BY <2>1, <2>2
<1> QED
  BY <1>2, <1>3 DEF new

LEMMA RingInsert ==
  ASSUME NEW nxt, NEW F, Ring(nxt, F), NEW a \in F, NEW b \in Units \ F,
         a < b, b < nxt[a] \/ nxt[a] = base
  PROVE  Ring([nxt EXCEPT ![b] = nxt[a], ![a] = b], F \cup {b})
<1> USE DEF Ring, base
<1> DEFINE new == [nxt EXCEPT ![b] = nxt[a], ![a] = b]
<1>0. \A f \in F \cup {b} : f \in 0..Limit - 1
  BY DEF Units
<1>1. a # b
  OBVIOUS
<1>2. /\ new \in [Units -> Units] /\ new[a] = b /\ new[b] = nxt[a]
      /\ \A f \in F \ {a} : new[f] = nxt[f]
  OBVIOUS
<1> HIDE DEF new
<1>3. ASSUME NEW f \in F \cup {b}
      PROVE  /\ new[f] \in F \cup {b}
             /\ \/ f < new[f] /\ \A c \in F \cup {b} : c <= f \/ new[f] <= c
                \/ new[f] = 0 /\ \A c \in F \cup {b} : c <= f
  <2>1. CASE f = a
    BY <1>0, <1>1, <1>2, <2>1
  <2>2. CASE f = b
    BY <1>0, <1>1, <1>2, <2>2
  <2>3. CASE f # a /\ f # b
    BY <1>0, <1>2, <2>3
  <2> QED
    BY <2>1, <2>2, <2>3
<1> QED
  BY <1>2, <1>3 DEF new

------------------------------------------------------------------------------
(* The heap as blocks.                                                      *)

\* The blocks that begin at the headers of H and are as long as sz says share out g.
Parts(H, sz, g) ==
  /\ H \subseteq Units /\ sz \in [Units -> 0..Limit] /\ g \subseteq Units
  /\ \A h \in H : sz[h] > 0 /\ h..h + sz[h] - 1 \subseteq g
  /\ \A h, k \in H : h = k \/ h + sz[h] <= k \/ k + sz[k] <= h
  /\ \A a \in g : \E h \in H : h <= a /\ a < h + sz[h]

LEMMA PartsSame ==
  ASSUME NEW H, NEW sz, NEW g, Parts(H, sz, g), NEW other \in [Units -> 0..Limit],
         \A h \in H : other[h] = sz[h]
  PROVE  Parts(H, other, g)
<1> USE DEF Parts
<1>1. \A a \in g : \E h \in H : h <= a /\ a < h + other[h]
  OBVIOUS
<1>2. \A h \in H : other[h] > 0 /\ h..h + other[h] - 1 \subseteq g
  OBVIOUS
<1>3. \A h, k \in H : h = k \/ h + other[h] <= k \/ k + other[k] <= h
  OBVIOUS
<1> QED
  BY <1>1, <1>2, <1>3

LEMMA PartsJoin ==
  ASSUME NEW H, NEW sz, NEW g, Parts(H, sz, g), NEW h \in H, NEW k \in H,
         h + sz[h] = k
  PROVE  Parts(H \ {k}, [sz EXCEPT ![h] = sz[h] + sz[k]], g)
<1> USE DEF Parts
<1> DEFINE new == [sz EXCEPT ![h] = sz[h] + sz[k]]
<1>0. /\ \A j \in H : j \in 0..Limit - 1 /\ sz[j] \in 1..Limit
      /\ \A a \in g : a \in 0..Limit - 1
  BY BaseInUnits DEF Units
<1>1. k + sz[k] - 1 \in g
  <2>1. k + sz[k] - 1 \in k..k + sz[k] - 1
    BY <1>0
  <2> QED
    BY <2>1
<1>2. sz[h] + sz[k] \in 1..Limit /\ h # k
  BY <1>0, <1>1, BaseInUnits
<1>3. new \in [Units -> 0..Limit] /\ new[h] = sz[h] + sz[k] /\ \A j \in H \ {h} : new[j] = sz[j]
  BY <1>2
<1> HIDE DEF new
<1>4. \A j \in H \ {k} : new[j] > 0 /\ j..j + new[j] - 1 \subseteq g
  <2> TAKE j \in H \ {k}
  <2>1. CASE j = h
    <3>1. \A a \in h..h + new[h] - 1 : a \in h..h + sz[h] - 1 \/ a \in k..k + sz[k] - 1
      BY <1>0, <1>3
    <3> QED
      BY <1>2, <1>3, <2>1, <3>1
  <2>2. CASE j # h
    BY <1>3, <2>2
  <2> QED
    BY <2>1, <2>2
<1>5. \A i, j \in H \ {k} : i = j \/ i + new[i] <= j \/ j + new[j] <= i
  <2> TAKE i, j \in H \ {k}
  <2>1. ASSUME NEW m \in H \ {k}, m # h PROVE h + new[h] <= m \/ m + new[m] <= h
    BY <1>0, <1>3, <2>1
  <2> QED
    BY <1>3, <2>1
<1>6. \A a \in g : \E j \in H \ {k} : j <= a /\ a < j + new[j]
  <2> TAKE a \in g
  <2>1. PICK j \in H : j <= a /\ a < j + sz[j]
    OBVIOUS
  <2>2. CASE j = k \/ j = h
    BY <1>0, <1>2, <1>3, <2>1, <2>2
  <2>3. CASE j # k /\ j # h
    BY <1>3, <2>1, <2>3
  <2> QED
    BY <2>2, <2>3
<1> QED
  BY <1>3, <1>4, <1>5, <1>6 DEF new

LEMMA PartsSplit ==
  ASSUME NEW H, NEW sz, NEW g, Parts(H, sz, g), NEW h \in H, NEW n \in 1..sz[h] - 1,
         NEW k, k = h + (sz[h] - n)
  PROVE  /\ k \in Units \ H
         /\ Parts(H \cup {k}, [sz EXCEPT ![h] = sz[h] - n, ![k] = n], g)
<1> USE DEF Parts
<1> DEFINE new == [sz EXCEPT ![h] = sz[h] - n, ![k] = n]
<1>0. /\ \A j \in H : j \in 0..Limit - 1 /\ sz[j] \in 1..Limit
      /\ \A a \in g : a \in 0..Limit - 1
  BY BaseInUnits, SMTT(30) DEF Units
<1>1. h + sz[h] - 1 \in 0..Limit - 1
  <2>1. h + sz[h] - 1 \in h..h + sz[h] - 1
    BY <1>0
  <2> QED
    BY <1>0, <2>1
<1>2. k \in Units /\ h < k /\ k + n = h + sz[h] /\ n \in 1..Limit /\ sz[h] - n \in 1..Limit
  <2>1. h \in Nat /\ sz[h] \in 1..Limit /\ n \in Nat \ {0} /\ n < sz[h] /\ Limit \in Nat
    BY <1>0, BaseInUnits
  <2>2. n \in 1..Limit /\ sz[h] - n \in 1..Limit /\ k \in Nat /\ h < k /\ k + n = h + sz[h]
    BY <2>1
  <2>3. k \in 0..Limit - 1
    BY <1>1, <2>1, <2>2
  <2> QED
    BY <2>2, <2>3 DEF Units
<1>3. k \notin H
  BY <1>0, <1>2
<1>4. /\ new \in [Units -> 0..Limit] /\ new[h] = sz[h] - n /\ new[k] = n
      /\ \A j \in H \ {h} : new[j] = sz[j]
  BY <1>2, <1>3
<1> HIDE DEF new
<1>5. \A j \in H \cup {k} : new[j] > 0 /\ j..j + new[j] - 1 \subseteq g
  <2> TAKE j \in H \cup {k}
  <2>1. CASE j = h \/ j = k
    <3>1. \A a \in j..j + new[j] - 1 : a \in h..h + sz[h] - 1
      BY <1>0, <1>2, <1>4, <2>1
    <3> QED
      BY <1>2, <1>4, <2>1, <3>1
  <2>2. CASE j # h /\ j # k
    BY <1>4, <2>2
  <2> QED
    BY <2>1, <2>2
<1>6. \A i, j \in H \cup {k} : i = j \/ i + new[i] <= j \/ j + new[j] <= i
  <2> TAKE i, j \in H \cup {k}
  <2>1. ASSUME NEW m \in H \ {h}
        PROVE  /\ h + new[h] <= m \/ m + new[m] <= h
               /\ k + new[k] <= m \/ m + new[m] <= k
    BY <1>0, <1>2, <1>4, <2>1
  <2>2. h + new[h] <= k
    BY <1>0, <1>2, <1>4
  <2> QED
    BY <1>4, <2>1, <2>2
<1>7. \A a \in g : \E j \in H \cup {k} : j <= a /\ a < j + new[j]
  <2> TAKE a \in g
  <2>1. PICK j \in H : j <= a /\ a < j + sz[j]
    OBVIOUS
  <2>2. CASE j = h
    BY <1>0, <1>2, <1>4, <2>1, <2>2
  <2>3. CASE j # h
    BY <1>4, <2>1, <2>3
  <2> QED
    BY <2>2, <2>3
<1> QED
  BY <1>2, <1>3, <1>4, <1>5, <1>6, <1>7 DEF new

LEMMA PartsExtend ==
  ASSUME NEW H, NEW sz, NEW g, Parts(H, sz, g), NEW up \in Units, NEW n \in 1..Limit,
         up + n <= Limit, \A a \in g : a < up
  PROVE  /\ up \notin H
         /\ Parts(H \cup {up}, [sz EXCEPT ![up] = n], g \cup up..up + n - 1)
<1> USE DEF Parts
<1> DEFINE new == [sz EXCEPT ![up] = n]
<1>0. /\ \A j \in H : j \in 0..Limit - 1 /\ sz[j] \in 1..Limit
      /\ \A a \in g : a \in 0..Limit - 1
      /\ up \in 0..Limit - 1
  BY BaseInUnits DEF Units
<1>1. \A j \in H : j + sz[j] <= up
  <2> TAKE j \in H
  <2>1. j + sz[j] - 1 \in j..j + sz[j] - 1
    BY <1>0
  <2>2. j + sz[j] - 1 < up
    BY <2>1
  <2> QED
    BY <1>0, <2>2
<1>2. up \notin H
  BY <1>0, <1>1
<1>3. new \in [Units -> 0..Limit] /\ new[up] = n /\ \A j \in H : new[j] = sz[j]
  BY <1>2
<1> HIDE DEF new
<1>4. up..up + n - 1 \subseteq Units
  BY <1>0, BaseInUnits DEF Units
<1>5. \A i, j \in H \cup {up} : i = j \/ i + new[i] <= j \/ j + new[j] <= i
  BY <1>1, <1>3
<1>6. \A a \in g \cup up..up + n - 1 : \E j \in H \cup {up} : j <= a /\ a < j + new[j]
  <2> TAKE a \in g \cup up..up + n - 1
  <2>1. CASE a \in g
    BY <1>3, <2>1
  <2>2. CASE a \notin g
    BY <1>0, <1>3, <2>2
  <2> QED
    BY <2>1, <2>2
<1>7. \A j \in H \cup {up} : new[j] > 0 /\ j..j + new[j] - 1 \subseteq g \cup up..up + n - 1
  BY <1>3
<1> QED
  BY <1>2, <1>3, <1>4, <1>5, <1>6, <1>7 DEF new

------------------------------------------------------------------------------
(* The inductive invariant.                                                 *)

OutHeads == {u.block : u \in used}
Pending == IF pc = "insert" THEN {bp} ELSE {}
Heads == (FreeList \ {base}) \cup OutHeads \cup Pending

\* No block of the list touches the next.
Joined == \A b \in FreeList : next[b] = base \/ b + size[b] < next[b]

\* A block handed out is known by its address and is as long as its header says.
OutSound ==
  /\ used \subseteq [block : Units \ {base}, units : 1..Limit, bytes : Requests]
  /\ \A u \in used : size[u.block] = u.units /\ u.bytes <= (u.units - 1) * HeaderSize
  /\ \A u, v \in used : u.block = v.block => u = v

\* The headers the search has been at: from the one behind freep to the one before p.
LookedAt(b) == IF freep < p THEN freep < b /\ b < p ELSE freep < b \/ b < p

Searching ==
  pc = "search" =>
    /\ freep # NULL /\ nbytes \in Requests
    /\ p \in FreeList /\ prevp \in FreeList /\ next[prevp] = p
    /\ \A b \in FreeList : LookedAt(b) => size[b] < nunits
Inserting ==
  pc = "insert" =>
    /\ freep # NULL /\ (morecore => nbytes \in Requests)
    /\ q \in FreeList /\ bp \notin FreeList /\ bp \notin OutHeads

HeapInv ==
  /\ TypeOK /\ Ring(next, FreeList) /\ Joined /\ size[base] = 0
  /\ Parts(Heads, size, got) /\ got \subseteq FirstBreak..brk - 1
  /\ OutSound /\ OutHeads \cap FreeList = {}
  /\ IF freep = NULL THEN pc = "idle" /\ used = {} /\ FreeList = {base} ELSE freep \in FreeList
  /\ Searching /\ Inserting

------------------------------------------------------------------------------
(* The steps.                                                               *)

\* The size in headers, with one for the block's own, rounds the bytes up.
LEMMA RoundedUp ==
  ASSUME nbytes \in Nat
  PROVE  nunits \in Nat \ {0} /\ nbytes <= (nunits - 1) * HeaderSize
<1>1. \A a \in Nat, d \in Nat \ {0} :
        /\ (a + d - 1) \div d \in Nat
        /\ a <= ((a + d - 1) \div d) * d
  <2> TAKE a \in Nat, d \in Nat \ {0}
  <2> DEFINE k == (a + d - 1) \div d
             r == (a + d - 1) % d
  <2>1. k \in Nat /\ r \in 0..d - 1 /\ a + d - 1 = d * k + r
    OBVIOUS
  <2> HIDE DEF k, r
  <2>2. d * k \in Nat /\ d * k = k * d
    BY <2>1
  <2>3. a <= k * d
    BY <2>1, <2>2
  <2> QED
    BY <2>1, <2>3 DEF k
<1> DEFINE k == (nbytes + HeaderSize - 1) \div HeaderSize
<1>2. k \in Nat /\ nbytes <= k * HeaderSize
  BY <1>1, SizesAssumption
<1>3. nunits = k + 1
  BY DEF nunits
<1> HIDE DEF k
<1>4. nunits \in Nat \ {0} /\ nunits - 1 = k
  BY <1>2, <1>3
<1> QED
  BY <1>2, <1>4

\* The list after a step, once a set of headers is known to be its ring.
LEMMA ListAfter ==
  ASSUME NEW F, Ring(next', F)
  PROVE  FreeList' = F /\ Ring(next', FreeList')
BY RingIsReached, FreeListReached

LEMMA SameList == next' = next => FreeList' = FreeList
BY FreeListReached

\* Headers of blocks are no header of the list's own, base.
LEMMA HeadsFacts ==
  ASSUME HeapInv
  PROVE  /\ FreeList \subseteq Units /\ base \in FreeList
         /\ OutHeads \subseteq Units \ {base}
         /\ base \notin Heads
         /\ \A h \in Heads : h >= FirstBreak
         /\ \A b \in FreeList : next[b] \in FreeList
<1> USE DEF HeapInv
<1>1. FreeList \subseteq Units /\ base \in FreeList /\ \A b \in FreeList : next[b] \in FreeList
  BY DEF Ring
<1>2. OutHeads \subseteq Units \ {base}
  BY DEF OutHeads, OutSound
<1>3. \A h \in Heads : h >= FirstBreak
  <2> TAKE h \in Heads
  <2>1. h \in Units /\ size[h] \in Nat /\ size[h] > 0
    BY DEF Parts
  <2>2. h \in h..h + size[h] - 1
    BY <2>1 DEF Units
  <2>3. h \in got
    BY <2>2 DEF Parts
  <2> QED
    BY <2>3, SizesAssumption DEF TypeOK
<1>4. base \notin Heads
  BY <1>3, SizesAssumption DEF base
<1> QED
  BY <1>1, <1>2, <1>3, <1>4

LEMMA HeapInvInit == Init => HeapInv
<1> SUFFICES ASSUME Init PROVE HeapInv
  OBVIOUS
<1> USE DEF Init
<1>1. base \in Units /\ base = 0 /\ NULL = -1
  BY BaseInUnits DEF base, NULL
<1>2. Ring(next, {base})
  BY <1>1 DEF Ring
<1>3. FreeList = {base}
  BY <1>2, RingIsReached, FreeListReached
<1>4. TypeOK
  <2>1. next \in [Units -> Units] /\ size \in [Units -> 0..Limit]
    BY <1>1, BaseInUnits
  <2>2. /\ freep \in Units \cup {NULL} /\ brk \in FirstBreak..Limit
        /\ pc \in {"idle", "search", "insert"}
        /\ nbytes \in Requests \cup {0} /\ p \in Units /\ prevp \in Units
    BY <1>1, SizesAssumption
  <2>3. bp \in Units /\ q \in Units /\ ret \in Units \cup {NULL}
    BY <1>1
  <2>4. morecore \in BOOLEAN
    BY Zenon
  <2>5. used = {} /\ got \subseteq Units /\ calls \in 0..MaxCalls
    BY CallsAssumption
  <2> QED
    BY <2>1, <2>2, <2>3, <2>4, <2>5 DEF TypeOK
<1>5. OutHeads = {} /\ Heads = {}
  BY <1>3 DEF OutHeads, Heads, Pending
<1>6. Parts(Heads, size, got)
  BY <1>5, BaseInUnits DEF Parts
<1>7. Joined /\ OutSound /\ Searching /\ Inserting
  BY <1>1, <1>3 DEF Joined, OutSound, Searching, Inserting
<1> QED
  BY <1>1, <1>2, <1>3, <1>4, <1>5, <1>6, <1>7 DEF HeapInv

\* A search begins behind freep, with nothing looked at.
LEMMA SearchBegins ==
  ASSUME NEW F, NEW nxt, Ring(nxt, F), NEW f \in F, NEW b \in F
  PROVE  ~ IF f < nxt[f] THEN f < b /\ b < nxt[f] ELSE f < b \/ b < nxt[f]
<1>1. F \subseteq 0..Limit - 1 /\ 0 \in F
  BY DEF Ring, Units, base
<1>2. \/ f < nxt[f] /\ \A c \in F : c <= f \/ nxt[f] <= c
      \/ nxt[f] = 0 /\ \A c \in F : c <= f
  BY DEF Ring, base
<1>3. PICK n \in F : n = nxt[f]
  BY DEF Ring
<1>4. f \in 0..Limit - 1 /\ b \in 0..Limit - 1 /\ n \in 0..Limit - 1
  BY <1>1
<1>5. ~ IF f < n THEN f < b /\ b < n ELSE f < b \/ b < n
  BY <1>2, <1>3, <1>4
<1> QED
  BY <1>3, <1>5

LEMMA MallocKeepsHeap ==
  ASSUME HeapInv, NEW n \in Requests, Alloc_malloc(n)
  PROVE  HeapInv'
<1> USE DEF HeapInv, Alloc_malloc
<1>0. n \in Nat /\ base \in Units /\ NULL \notin Units
  BY CallsAssumption, BaseInUnits DEF NULL, Units
<1>1. /\ pc = "idle" /\ pc' = "search" /\ nbytes' = n
      /\ prevp' = freep' /\ p' = next'[freep']
      /\ UNCHANGED <<brk, bp, q, morecore, ret, used, got>>
      /\ calls' \in 0..MaxCalls
  BY CallsAssumption DEF insert, TypeOK
<1>2. /\ Ring(next', FreeList) /\ freep' \in FreeList
      /\ size' = size /\ \A b \in FreeList : next'[b] = next[b]
  <2>1. CASE freep = NULL
    <3>1. /\ freep' = base /\ next' = [next EXCEPT ![base] = base]
          /\ size' = [size EXCEPT ![base] = 0] /\ FreeList = {base}
      BY <2>1
    <3>2. next[base] = base
      BY <3>1 DEF Ring
    <3>3. next' = next /\ size' = size
      BY <3>1, <3>2, <1>0 DEF TypeOK
    <3> QED
      BY <3>1, <3>3
  <2>2. CASE freep # NULL
    BY <2>2 DEF list
  <2> QED
    BY <2>1, <2>2
<1>3. FreeList' = FreeList /\ Ring(next', FreeList')
  BY <1>2, ListAfter
<1>4. Heads' = Heads /\ OutHeads' = OutHeads /\ Joined' /\ OutSound'
  BY <1>1, <1>2, <1>3 DEF Heads, OutHeads, Pending, Joined, OutSound
<1>5. FreeList \subseteq Units /\ next'[freep'] \in FreeList /\ next' \in [Units -> Units]
  BY <1>2 DEF Ring
<1>6. TypeOK'
  BY <1>1, <1>2, <1>5 DEF TypeOK
<1>7. \A b \in FreeList : ~LookedAt(b)'
  BY <1>1, <1>2, SearchBegins DEF LookedAt
<1>8. Searching' /\ Inserting'
  BY <1>0, <1>1, <1>2, <1>3, <1>5, <1>7 DEF Searching, Inserting
<1>9. freep' # NULL
  BY <1>0, <1>2, <1>5
<1> QED
  BY <1>1, <1>2, <1>3, <1>4, <1>6, <1>8, <1>9

LEMMA AdvanceKeepsHeap == HeapInv /\ Advance => HeapInv'
<1> SUFFICES ASSUME HeapInv, Advance PROVE HeapInv'
  OBVIOUS
<1> USE DEF HeapInv, Advance
<1>1. /\ pc = "search" /\ size[p] < nunits /\ p # freep
      /\ prevp' = p /\ p' = next[p]
      /\ UNCHANGED <<next, size, freep, brk, pc, nbytes, bp, q, morecore, ret, used, got, calls>>
  BY DEF list, insert
<1>2. /\ freep \in FreeList /\ p \in FreeList /\ next[p] \in FreeList
      /\ FreeList \subseteq Units
      /\ \A b \in FreeList : LookedAt(b) => size[b] < nunits
  BY <1>1, HeadsFacts DEF Searching
<1>3. FreeList' = FreeList
  BY <1>1, SameList
<1>4. /\ Heads' = Heads /\ OutHeads' = OutHeads /\ Joined' /\ OutSound' /\ Inserting'
      /\ Ring(next', FreeList')
  BY <1>1, <1>3 DEF Heads, OutHeads, Pending, Joined, OutSound, Inserting
<1>5. TypeOK'
  BY <1>1, <1>2 DEF TypeOK
<1>6. ASSUME NEW b \in FreeList, LookedAt(b)' PROVE size[b] < nunits
  <2>1. /\ b \in 0..Limit - 1 /\ p \in 0..Limit - 1 /\ freep \in 0..Limit - 1
        /\ next[p] \in 0..Limit - 1
    BY <1>2 DEF Units
  <2>2. \/ p < next[p] /\ \A c \in FreeList : c <= p \/ next[p] <= c
        \/ next[p] = 0 /\ \A c \in FreeList : c <= p
    BY <1>2 DEF Ring, base
  <2>3. LookedAt(b) \/ b = p
    BY <1>1, <1>2, <1>6, <2>1, <2>2 DEF LookedAt
  <2> QED
    BY <1>1, <1>2, <2>3
<1>7. nunits' = nunits
  BY <1>1 DEF nunits
<1>8. Searching'
  BY <1>1, <1>2, <1>3, <1>6, <1>7 DEF Searching
<1> QED
  BY <1>1, <1>3, <1>4, <1>5, <1>8

LEMMA WalkKeepsHeap == HeapInv /\ Walk => HeapInv'
<1> SUFFICES ASSUME HeapInv, Walk PROVE HeapInv'
  OBVIOUS
<1> USE DEF HeapInv, Walk
<1>1. /\ pc = "insert" /\ q' = next[q]
      /\ UNCHANGED <<next, size, freep, brk, pc, nbytes, p, prevp, bp, morecore, ret, used, got,
                     calls>>
  BY DEF list, search
<1>2. q \in FreeList /\ next[q] \in FreeList /\ FreeList \subseteq Units
  BY <1>1, HeadsFacts DEF Inserting
<1>3. FreeList' = FreeList
  BY <1>1, SameList
<1>4. /\ Heads' = Heads /\ OutHeads' = OutHeads /\ Joined' /\ OutSound' /\ Ring(next', FreeList')
  BY <1>1, <1>3 DEF Heads, OutHeads, Pending, Joined, OutSound
<1>5. TypeOK'
  BY <1>1, <1>2 DEF TypeOK
<1>6. Searching' /\ Inserting'
  BY <1>1, <1>2, <1>3, <1>4 DEF Searching, Inserting
<1> QED
  BY <1>1, <1>3, <1>4, <1>5, <1>6

LEMMA FreeKeepsHeap ==
  ASSUME HeapInv, NEW b \in used, Alloc_free(b)
  PROVE  HeapInv'
<1> USE DEF HeapInv, Alloc_free
<1>1. /\ pc = "idle" /\ pc' = "insert" /\ bp' = b.block /\ q' = freep /\ morecore' = FALSE
      /\ used' = used \ {b}
      /\ UNCHANGED <<next, size, freep, brk, nbytes, p, prevp, ret, got, calls>>
  BY DEF list, search
<1>2. freep # NULL /\ freep \in FreeList /\ FreeList \subseteq Units
  BY HeadsFacts
<1>3. FreeList' = FreeList /\ Ring(next', FreeList')
  BY <1>1, SameList
<1>4. b.block \in OutHeads /\ b.block \in Units /\ b.block \notin FreeList
  BY DEF OutHeads, OutSound
<1>5. OutHeads' = OutHeads \ {b.block}
  <2>1. \A u \in used : u.block = b.block <=> u = b
    BY DEF OutSound
  <2> QED
    BY <1>1, <2>1 DEF OutHeads
<1>6. Heads' = Heads
  BY <1>1, <1>3, <1>4, <1>5 DEF Heads, Pending
<1>7. Joined' /\ OutSound'
  BY <1>1, <1>3 DEF Joined, OutSound
<1>8. TypeOK'
  BY <1>1, <1>2, <1>4 DEF TypeOK
<1>9. Searching' /\ Inserting'
  BY <1>1, <1>2, <1>3, <1>4, <1>5 DEF Searching, Inserting
<1> QED
  BY <1>1, <1>2, <1>3, <1>5, <1>6, <1>7, <1>8, <1>9

LEMMA GrowKeepsHeap == HeapInv /\ Grow => HeapInv'
<1> SUFFICES ASSUME HeapInv, Grow PROVE HeapInv'
  OBVIOUS
<1> USE DEF HeapInv
<1>1. /\ pc = "search" /\ freep # NULL /\ nbytes \in Requests /\ nbytes \in Nat
      /\ p \in FreeList /\ prevp \in FreeList /\ freep \in FreeList
  BY CallsAssumption DEF Grow, Searching
<1>2. UNCHANGED <<next, freep, nbytes, p, prevp, used, calls>>
  BY DEF Grow, search
<1>3. PICK n \in Nat \ {0}, gap \in Nat : Sbrk(n, gap)
  <2>1. nunits \in Nat \ {0}
    BY <1>1, RoundedUp
  <2>2. (IF nunits < NALLOC THEN NALLOC ELSE nunits) \in Nat \ {0}
    BY <2>1, SizesAssumption
  <2> QED
    BY <2>2, CallsAssumption DEF Grow
<1>4. FreeList' = FreeList /\ OutHeads' = OutHeads /\ Ring(next', FreeList')
  BY <1>2, SameList DEF OutHeads
<1>5. CASE brk + gap + n > Limit
  <2>1. /\ pc' = "idle" /\ ret' = NULL /\ UNCHANGED <<size, brk, got, bp, q, morecore>>
    BY <1>3, <1>5 DEF Sbrk, insert
  <2>2. Heads' = Heads /\ Joined' /\ OutSound' /\ TypeOK'
    BY <1>1, <1>2, <1>4, <2>1 DEF Heads, Pending, Joined, OutSound, TypeOK
  <2>3. Searching' /\ Inserting'
    BY <2>1 DEF Searching, Inserting
  <2> QED
    BY <1>1, <1>2, <1>4, <2>1, <2>2, <2>3
<1>6. CASE ~(brk + gap + n > Limit)
  <2> DEFINE up == brk + gap
  <2>1. /\ brk' = up + n /\ got' = got \cup up..up + n - 1
        /\ size' = [size EXCEPT ![up] = n]
        /\ bp' = up /\ q' = freep /\ morecore' = TRUE
        /\ pc' = "insert" /\ ret' = ret
    BY <1>3, <1>6 DEF Sbrk
  <2>2. /\ up \in Units /\ up \in Nat /\ n \in 1..Limit /\ up + n <= Limit
        /\ brk <= up /\ FirstBreak <= brk /\ FirstBreak > 1
    BY <1>3, <1>6, SizesAssumption DEF TypeOK, Units
  <2>3. \A a \in got : a < up
    BY <2>2 DEF TypeOK
  <2> HIDE DEF up
  <2>4. up \notin Heads /\ Parts(Heads \cup {up}, size', got')
    <3>1. /\ up \notin Heads
          /\ Parts(Heads \cup {up}, [size EXCEPT ![up] = n], got \cup up..up + n - 1)
      <4>1. Parts(Heads, size, got)
        OBVIOUS
      <4> QED
        BY ONLY <2>2, <2>3, <4>1, PartsExtend
    <3> QED
      BY <2>1, <3>1
  <2>5. up # base
    BY <2>2, SizesAssumption DEF base, TypeOK
  <2>6. up \notin FreeList /\ up \notin OutHeads
    BY <2>4, <2>5 DEF Heads
  <2>7. Heads' = Heads \cup {up}
    BY <1>1, <1>4, <2>1 DEF Heads, Pending
  <2>8. \A b \in Units : b # up => size'[b] = size[b]
    BY <2>1 DEF TypeOK
  <2>9. Joined' /\ size'[base] = 0
    BY <1>2, <1>4, <2>5, <2>6, <2>8, HeadsFacts DEF Joined
  <2>10. OutSound'
    <3>1. \A u \in used : u.block \in Units /\ u.block # up
      BY <2>6 DEF OutSound, OutHeads
    <3>2. \A u \in used : size'[u.block] = u.units
      BY <2>8, <3>1 DEF OutSound
    <3> QED
      BY <1>2, <3>2 DEF OutSound
  <2>11. got' \subseteq FirstBreak..brk' - 1 /\ got' \subseteq Units
    <3>1. \A a \in got : a \in FirstBreak..brk' - 1 /\ a \in Units
      BY <2>1, <2>2, <2>3, SizesAssumption DEF TypeOK
    <3>2. \A a \in up..up + n - 1 : a \in FirstBreak..brk' - 1 /\ a \in 0..Limit - 1
      BY <2>1, <2>2, SizesAssumption DEF TypeOK
    <3> QED
      BY <2>1, <3>1, <3>2 DEF Units
  <2>12. TypeOK'
    BY <1>1, <1>2, <2>1, <2>2, <2>11, SizesAssumption, HeadsFacts DEF TypeOK
  <2>13. Searching' /\ Inserting'
    BY <1>1, <1>2, <1>4, <2>1, <2>6 DEF Searching, Inserting
  <2> QED
    BY <1>1, <1>2, <1>4, <2>4, <2>7, <2>9, <2>10, <2>11, <2>12, <2>13
<1> QED
  BY <1>3, <1>5, <1>6

\* A new block is handed out: those handed out before stay as they are.
LEMMA HandedOut ==
  ASSUME HeapInv, NEW at \in Units \ {base}, at \notin OutHeads, NEW n \in 1..Limit,
         nbytes \in Requests, nbytes <= (n - 1) * HeaderSize,
         used' = used \cup {[block |-> at, units |-> n, bytes |-> nbytes]},
         size'[at] = n, \A u \in OutHeads : size'[u] = size[u]
  PROVE  OutSound' /\ OutHeads' = OutHeads \cup {at}
<1> DEFINE r == [block |-> at, units |-> n, bytes |-> nbytes]
<1>1. /\ r \in [block : Units \ {base}, units : 1..Limit, bytes : Requests]
      /\ r.block = at /\ r.units = n /\ r.bytes = nbytes
  OBVIOUS
<1>2. used' = used \cup {r}
  OBVIOUS
<1> HIDE DEF r
<1>3. OutSound /\ \A u \in used : u.block \in OutHeads
  BY DEF HeapInv, OutHeads
<1>4. OutHeads' = OutHeads \cup {at}
  BY <1>1, <1>2 DEF OutHeads
<1>5. used' \subseteq [block : Units \ {base}, units : 1..Limit, bytes : Requests]
  BY <1>1, <1>2, <1>3 DEF OutSound
<1>6. \A u \in used' : size'[u.block] = u.units /\ u.bytes <= (u.units - 1) * HeaderSize
  BY <1>1, <1>2, <1>3 DEF OutSound
<1>7. \A u, v \in used' : u.block = v.block => u = v
  BY <1>1, <1>2, <1>3 DEF OutSound
<1> QED
  BY <1>4, <1>5, <1>6, <1>7 DEF OutSound

LEMMA TakeKeepsHeap == HeapInv /\ Take => HeapInv' /\ used' # used
<1> SUFFICES ASSUME HeapInv, Take PROVE HeapInv' /\ used' # used
  OBVIOUS
<1> USE DEF HeapInv
<1>1. /\ pc = "search" /\ freep # NULL /\ nbytes \in Requests /\ nbytes \in Nat
      /\ p \in FreeList /\ prevp \in FreeList /\ next[prevp] = p
  BY CallsAssumption DEF Take, Searching
<1>2. PICK n \in Nat \ {0} : n = nunits /\ nbytes <= (n - 1) * HeaderSize
  BY <1>1, RoundedUp
<1>3. PICK at : at = p + (size[p] - n)
  OBVIOUS
<1>4. /\ size[p] >= n
      /\ IF at = p THEN next' = [next EXCEPT ![prevp] = next[p]] /\ size' = size
         ELSE size' = [size EXCEPT ![p] = size[p] - n, ![at] = n] /\ next' = next
      /\ used' = used \cup {[block |-> at, units |-> n, bytes |-> nbytes]}
      /\ ret' = at /\ freep' = prevp /\ pc' = "idle"
      /\ UNCHANGED <<brk, nbytes, p, prevp, bp, q, morecore, got, calls>>
  BY <1>2, <1>3 DEF Take, search, insert
<1>5. /\ FreeList \subseteq Units /\ base \in FreeList /\ OutHeads \subseteq Units \ {base}
      /\ next[p] \in FreeList /\ NULL \notin Units
  BY <1>1, HeadsFacts DEF NULL, Units
<1>6. p # base /\ p \in Heads /\ p \notin OutHeads /\ size[p] \in 1..Limit
  BY <1>1, <1>2, <1>4, <1>5 DEF Heads, TypeOK
<1>7. n \in 1..Limit /\ p \in Nat /\ Limit \in Nat
  <2>1. p \in Units
    BY <1>1, <1>5
  <2> QED
    BY <1>2, <1>4, <1>6, <2>1, BaseInUnits DEF Units
<1>8. /\ Searching' /\ Inserting'
      /\ Pending = {} /\ Pending' = {}
  BY <1>1, <1>4 DEF Searching, Inserting, Pending
<1>9. CASE at = p
  <2>1. size[p] = n /\ size' = size
    BY <1>2, <1>3, <1>4, <1>6, <1>7, <1>9, SMTT(30)
  <2>2. OutSound' /\ OutHeads' = OutHeads \cup {p}
    BY <1>1, <1>2, <1>4, <1>5, <1>6, <1>7, <1>9, <2>1, HandedOut
  <2>3. next' = [next EXCEPT ![prevp] = next[p]]
    BY <1>4, <1>9
  <2>4. Ring(next', FreeList \ {p})
    BY <1>1, <1>6, <2>3, RingRemove
  <2>5. FreeList' = FreeList \ {p} /\ Ring(next', FreeList')
    BY <2>4, ListAfter
  <2>6. p < next[p] \/ next[p] = base
    BY <1>1 DEF Ring
  <2>7. prevp # p
    BY <1>1, <1>5, <1>6, <2>6 DEF Units
  <2>8. Heads' = Heads
    BY <1>1, <1>6, <1>8, <2>2, <2>5 DEF Heads
  <2>9. Joined'
    <3>1. ASSUME NEW b \in FreeList \ {p} PROVE next'[b] = base \/ b + size[b] < next'[b]
      <4>1. CASE b = prevp
        <5>1. next'[b] = next[p]
          BY <1>1, <1>5, <2>3, <4>1 DEF TypeOK
        <5>2. prevp + size[prevp] < p
          BY <1>1, <1>6 DEF Joined
        <5>3. /\ prevp \in Nat /\ p \in Nat /\ next[p] \in Nat /\ size[prevp] \in Nat
          BY <1>1, <1>5, SMTT(30) DEF TypeOK, Units
        <5> QED
          BY <2>6, <4>1, <5>1, <5>2, <5>3
      <4>2. CASE b # prevp
        BY <1>5, <2>3, <4>2 DEF Joined, TypeOK
      <4> QED
        BY <4>1, <4>2
    <3> QED
      BY <2>1, <2>5, <3>1 DEF Joined
  <2>10. TypeOK'
    <3>1. \A u \in used' : u.block \in Units \ {base} /\ u.units \in 1..Limit /\ u.bytes \in Requests
      BY <2>2 DEF OutSound
    <3> QED
      BY <1>1, <1>4, <1>5, <1>9, <2>1, <2>3, <3>1 DEF TypeOK
  <2>11. used' # used
    BY <1>6, <2>2 DEF OutHeads
  <2> QED
    BY <1>1, <1>4, <1>5, <1>6, <1>8, <2>1, <2>2, <2>5, <2>7, <2>8, <2>9, <2>10, <2>11
<1>10. CASE at # p
  <2>1. n \in 1..size[p] - 1
    BY <1>2, <1>3, <1>4, <1>6, <1>7, <1>10
  <2>2. size' = [size EXCEPT ![p] = size[p] - n, ![at] = n] /\ next' = next
    BY <1>4, <1>10
  <2>3. at \in Units \ Heads /\ Parts(Heads \cup {at}, size', got)
    BY <1>3, <1>6, <2>1, <2>2, PartsSplit
  <2>4. p < at /\ at # base
    BY <1>1, <1>3, <1>5, <1>6, <2>1 DEF Units, base
  <2>5. at \notin FreeList /\ at \notin OutHeads
    BY <2>3, <2>4 DEF Heads
  <2>6. /\ size'[at] = n /\ size'[p] = size[p] - n
        /\ \A b \in Units \ {p, at} : size'[b] = size[b]
    BY <1>5, <1>10, <2>2, <2>3 DEF TypeOK
  <2>7. OutSound' /\ OutHeads' = OutHeads \cup {at}
    BY <1>1, <1>2, <1>4, <1>5, <1>6, <1>7, <2>3, <2>4, <2>5, <2>6, HandedOut
  <2>8. FreeList' = FreeList /\ Ring(next', FreeList')
    BY <2>2, SameList
  <2>9. Heads' = Heads \cup {at}
    BY <1>8, <2>7, <2>8 DEF Heads
  <2>10. Joined'
    <3>1. ASSUME NEW b \in FreeList PROVE size'[b] <= size[b] /\ size'[b] \in Nat /\ size[b] \in Nat
      BY <1>5, <1>6, <1>7, <2>1, <2>5, <2>6 DEF TypeOK
    <3>2. \A b \in Units : b \in Nat
      BY <1>7 DEF Units
    <3>3. ASSUME NEW b \in FreeList PROVE next'[b] = base \/ b + size'[b] < next'[b]
      <4>1. b \in Nat /\ next[b] \in Nat
        BY <1>5, <3>2, HeadsFacts
      <4>2. next[b] = base \/ b + size[b] < next[b]
        BY DEF Joined
      <4>3. next'[b] = next[b] /\ size'[b] <= size[b] /\ size'[b] \in Nat /\ size[b] \in Nat
        BY <2>2, <3>1
      <4> QED
        BY ONLY <4>1, <4>2, <4>3
    <3> QED
      BY <2>8, <3>3 DEF Joined
  <2>11. size'[base] = 0
    BY <1>5, <1>6, <2>4, <2>6
  <2>12. TypeOK'
    <3>1. \A u \in used' : u.block \in Units \ {base} /\ u.units \in 1..Limit /\ u.bytes \in Requests
      BY <2>7 DEF OutSound
    <3>2. size' \in [Units -> 0..Limit]
      BY <2>3 DEF Parts
    <3> QED
      BY <1>1, <1>4, <1>5, <2>2, <2>3, <3>1, <3>2 DEF TypeOK
  <2>13. used' # used
    BY <2>5, <2>7 DEF OutHeads
  <2> QED
    BY <1>1, <1>4, <1>5, <1>8, <2>2, <2>3, <2>5, <2>7, <2>8, <2>9, <2>10, <2>11, <2>12, <2>13
<1> QED
  BY <1>9, <1>10

------------------------------------------------------------------------------
(* The end of Alloc_free.                                                   *)

Above == next[q]
Up == bp + size[bp] = Above
Down == q + size[q] = bp
After == IF Up THEN next[Above] ELSE Above
Long == size[bp] + IF Up THEN size[Above] ELSE 0
\* The headers that are none after the block is joined to its neighbours.
Gone == (IF Up THEN {Above} ELSE {}) \cup (IF Down THEN {bp} ELSE {})

LEMMA LinkFacts ==
  ASSUME HeapInv, Link
  PROVE  /\ pc = "insert" /\ freep # NULL
         /\ q \in FreeList /\ Above \in FreeList /\ bp \in Units \ FreeList
         /\ bp \in Heads /\ bp \notin OutHeads
         /\ FreeList \subseteq Units /\ base \in FreeList
         /\ \A a \in Units : a \in Nat
         /\ \A a \in Units : size[a] \in Nat
         /\ q < bp /\ (bp < Above \/ Above = base)
         /\ size[bp] > 0
         /\ Up => Above # base /\ Above # q /\ Above # bp
         /\ Down => q # base
         /\ next' = [next EXCEPT ![bp] = After, ![q] = IF Down THEN After ELSE bp]
         /\ size' = [size EXCEPT ![bp] = Long, ![q] = IF Down THEN size[q] + Long ELSE size[q]]
         /\ freep' = q
         /\ UNCHANGED <<brk, bp, q, morecore, ret, used, got, calls>>
<1> USE DEF HeapInv
<1>1. pc = "insert" /\ freep # NULL /\ q \in FreeList /\ bp \notin FreeList /\ bp \notin OutHeads
  BY DEF Link, Inserting
<1>2. /\ FreeList \subseteq Units /\ base \in FreeList /\ Above \in FreeList
      /\ bp \in Units /\ bp \in Heads
  BY <1>1, HeadsFacts DEF Above, TypeOK, Heads, Pending
<1>3. /\ \A a \in Units : a \in Nat
      /\ \A a \in Units : size[a] \in Nat
  BY BaseInUnits, SMTT(30) DEF Units, TypeOK
<1>4. size[bp] > 0
  BY <1>2 DEF Parts
<1>5. \/ q < bp /\ bp < Above
      \/ q >= Above /\ (bp > q \/ bp < Above)
  BY DEF Link, Between, Above
<1>6. Above > q \/ Above = base
  BY <1>1 DEF Ring, Above
<1>7. q < bp /\ (bp < Above \/ Above = base)
  BY <1>1, <1>2, <1>3, <1>5, <1>6 DEF base
<1>8. Up => Above # base /\ Above # q /\ Above # bp
  BY <1>1, <1>2, <1>3, <1>4, <1>7 DEF Up, base
<1>9. Down => q # base
  BY <1>1, <1>2, <1>3, <1>7 DEF Down, base
<1>10. Join(Up, Down) /\ freep' = q
  BY DEF Link, Up, Down, Above
<1>11. /\ next' = [next EXCEPT ![bp] = After, ![q] = IF Down THEN After ELSE bp]
       /\ size' = [size EXCEPT ![bp] = Long, ![q] = IF Down THEN size[q] + Long ELSE size[q]]
  <2>1. q # bp
    BY <1>1
  <2> QED
    BY <1>10, <2>1 DEF Join, After, Long, Above
<1>12. UNCHANGED <<brk, bp, q, morecore, ret, used, got, calls>>
  BY DEF Link, insert
<1> QED
  BY <1>1, <1>2, <1>3, <1>4, <1>7, <1>8, <1>9, <1>10, <1>11, <1>12

\* What the step does at each header.
LEMMA LinkAt ==
  ASSUME HeapInv, Link
  PROVE  /\ next'[bp] = After /\ next'[q] = (IF Down THEN After ELSE bp)
         /\ \A a \in Units \ {q, bp} : next'[a] = next[a]
         /\ size'[bp] = Long /\ size'[q] = (IF Down THEN size[q] + Long ELSE size[q])
         /\ \A a \in Units \ {q, bp} : size'[a] = size[a]
         /\ After \in FreeList
         /\ DOMAIN next' = Units /\ DOMAIN size' = Units
         /\ next' = [a \in Units |-> next'[a]] /\ size' = [a \in Units |-> size'[a]]
<1>1. next \in [Units -> Units] /\ size \in [Units -> 0..Limit]
  BY DEF HeapInv, TypeOK
<1>2. q \in Units /\ bp \in Units /\ q # bp
  BY LinkFacts
<1>3. After \in FreeList
  BY LinkFacts, HeadsFacts DEF After
<1> QED
  BY <1>1, <1>2, <1>3, LinkFacts

LEMMA LinkRing ==
  ASSUME HeapInv, Link
  PROVE  /\ Ring(next', (FreeList \cup {bp}) \ Gone)
         /\ FreeList' = (FreeList \cup {bp}) \ Gone /\ Ring(next', FreeList')
<1> DEFINE one == [next EXCEPT ![bp] = next[q], ![q] = bp]
           two == IF Up THEN [one EXCEPT ![bp] = one[Above]] ELSE one
           three == IF Down THEN [two EXCEPT ![q] = two[bp]] ELSE two
           F1 == FreeList \cup {bp}
           F2 == IF Up THEN F1 \ {Above} ELSE F1
           F3 == IF Down THEN F2 \ {bp} ELSE F2
<1>0. next \in [Units -> Units] /\ q \in Units /\ bp \in Units /\ q # bp /\ Ring(next, FreeList)
  BY LinkFacts DEF HeapInv, TypeOK
<1>1. Ring(one, F1)
  BY <1>0, LinkFacts, RingInsert DEF Above
<1>2. /\ one[bp] = Above /\ one[q] = bp /\ \A a \in Units \ {q, bp} : one[a] = next[a]
      /\ one \in [Units -> Units]
  BY <1>0 DEF Above
<1> HIDE DEF one
<1>3. Ring(two, F2)
  <2>1. CASE Up
    BY <1>1, <1>2, <2>1, LinkFacts, RingRemove
  <2>2. CASE ~Up
    BY <1>1, <2>2
  <2> QED
    BY <2>1, <2>2
<1>4. two[bp] = After /\ two[q] = bp /\ \A a \in Units \ {q, bp} : two[a] = next[a]
  <2>1. CASE Up
    <3>1. one[Above] = next[Above]
      BY <1>2, <2>1, LinkFacts
    <3> QED
      BY <1>0, <1>2, <2>1, <3>1 DEF After
  <2>2. CASE ~Up
    BY <1>2, <2>2 DEF After
  <2> QED
    BY <2>1, <2>2
<1>5. q \in F2 /\ bp \in F2 /\ bp # base
  BY LinkFacts
<1> HIDE DEF two, F2
<1>6. Ring(three, F3)
  <2>1. CASE Down
    BY <1>3, <1>4, <1>5, <2>1, RingRemove
  <2>2. CASE ~Down
    BY <1>3, <2>2
  <2> QED
    BY <2>1, <2>2
<1>7. three \in [Units -> Units]
  BY <1>6 DEF Ring
<1>8. /\ three[bp] = After /\ three[q] = (IF Down THEN After ELSE bp)
      /\ \A a \in Units \ {q, bp} : three[a] = next[a]
  <2>1. two \in [Units -> Units]
    BY <1>3 DEF Ring
  <2> QED
    BY <1>0, <1>4, <2>1
<1> HIDE DEF three
<1>9. next' = three
  <2>1. \A a \in Units : next'[a] = three[a]
    BY <1>8, LinkAt
  <2>2. three = [a \in Units |-> three[a]]
    BY <1>7
  <2>3. next' = [a \in Units |-> next'[a]]
    BY LinkAt
  <2> QED
    BY <2>1, <2>2, <2>3
<1>10. F3 = (FreeList \cup {bp}) \ Gone
  BY DEF F2, Gone
<1> HIDE DEF F3
<1>11. Ring(next', (FreeList \cup {bp}) \ Gone)
  BY <1>6, <1>9, <1>10
<1> QED
  BY <1>11, ListAfter

LEMMA LinkParts ==
  ASSUME HeapInv, Link
  PROVE  Parts(Heads', size', got) /\ Heads' = Heads \ Gone
<1> DEFINE one == IF Up THEN [size EXCEPT ![bp] = size[bp] + size[Above]] ELSE size
           two == IF Down THEN [one EXCEPT ![q] = one[q] + one[bp]] ELSE one
           H1 == IF Up THEN Heads \ {Above} ELSE Heads
           H2 == IF Down THEN H1 \ {bp} ELSE H1
<1>0. /\ size \in [Units -> 0..Limit] /\ q \in Units /\ bp \in Units /\ q # bp
      /\ Parts(Heads, size, got)
  BY LinkFacts DEF HeapInv, TypeOK
<1>1. Up => Above \in Heads
  BY LinkFacts DEF Heads
<1>2. Parts(H1, one, got)
  <2>1. CASE Up
    <3>1. bp + size[bp] = Above
      BY <2>1 DEF Up
    <3> QED
      BY <1>0, <1>1, <2>1, <3>1, LinkFacts, PartsJoin
  <2>2. CASE ~Up
    BY <1>0, <2>2
  <2> QED
    BY <2>1, <2>2
<1>3. one[bp] = Long /\ \A a \in Units \ {bp} : one[a] = size[a]
  BY <1>0, LinkFacts DEF Long
<1>4. bp \in H1 /\ (Down => q \in H1)
  BY LinkFacts DEF Heads
<1> HIDE DEF one, H1
<1>5. Parts(H2, two, got)
  <2>1. CASE Down
    <3>1. q + one[q] = bp
      BY <1>0, <1>3, <2>1 DEF Down
    <3> QED
      BY <1>2, <1>4, <2>1, <3>1, PartsJoin
  <2>2. CASE ~Down
    BY <1>2, <2>2
  <2> QED
    BY <2>1, <2>2
<1>6. two \in [Units -> 0..Limit]
  BY <1>5 DEF Parts
<1>7. /\ two[bp] = Long /\ two[q] = (IF Down THEN size[q] + Long ELSE size[q])
      /\ \A a \in Units \ {q, bp} : two[a] = size[a]
  <2>1. one \in [Units -> 0..Limit]
    BY <1>2 DEF Parts
  <2> QED
    BY <1>0, <1>3, <2>1
<1> HIDE DEF two
<1>8. size' = two
  <2>1. \A a \in Units : size'[a] = two[a]
    BY <1>7, LinkAt
  <2>2. two = [a \in Units |-> two[a]]
    BY <1>6
  <2>3. size' = [a \in Units |-> size'[a]]
    BY LinkAt
  <2> QED
    BY <2>1, <2>2, <2>3
<1>9. H2 = Heads \ Gone
  BY DEF H1, Gone
<1> HIDE DEF H2
<1>10. Heads' = Heads \ Gone
  <2>1. Pending = {bp} /\ Pending' = {} /\ OutHeads' = OutHeads
    BY LinkFacts DEF Pending, OutHeads, Link
  <2>2. OutHeads \cap Gone = {}
    BY LinkFacts DEF Gone, HeapInv
  <2>3. FreeList' = (FreeList \cup {bp}) \ Gone
    BY LinkRing
  <2> QED
    BY <2>1, <2>2, <2>3, LinkFacts DEF Heads
<1> QED
  BY <1>5, <1>8, <1>9, <1>10

\* The block and its neighbours are joined wherever they touch.
LEMMA LinkJoins ==
  ASSUME HeapInv, Link
  PROVE  Joined' /\ size'[base] = 0
<1>1. /\ FreeList' \subseteq Units /\ base \in FreeList' /\ Ring(next', FreeList')
      /\ FreeList' = (FreeList \cup {bp}) \ Gone
      /\ Parts(Heads', size', got) /\ FreeList' \ {base} \subseteq Heads'
  BY LinkRing, LinkParts DEF Ring, Heads
<1>2. size'[base] = 0 /\ base # bp
  <2>1. size[base] = 0 /\ base \in Units /\ base # bp
    BY LinkFacts DEF HeapInv
  <2>2. CASE base = q
    <3>1. ~Down
      BY <2>2, LinkFacts
    <3> QED
      BY <2>1, <2>2, <3>1, LinkAt
  <2>3. CASE base # q
    BY <2>1, <2>3, LinkAt
  <2> QED
    BY <2>1, <2>2, <2>3
<1>3. \A a \in Units : a \in Nat /\ size[a] \in Nat /\ size'[a] \in Nat
  BY <1>1, LinkFacts, BaseInUnits DEF Parts
<1>4. ASSUME NEW b \in FreeList', next'[b] # base PROVE b + size'[b] # next'[b]
  <2>1. After # base => bp + Long # After
    <3>1. CASE Up
      <4>1. bp + Long = Above + size[Above]
        BY <1>3, <3>1, LinkFacts DEF Up, Long
      <4>2. next[Above] = base \/ Above + size[Above] < next[Above]
        BY LinkFacts DEF HeapInv, Joined
      <4> QED
        BY <1>3, <3>1, <4>1, <4>2, LinkFacts, LinkAt DEF After
    <3>2. CASE ~Up
      BY <1>3, <3>2, LinkFacts DEF Up, Long, After
    <3> QED
      BY <3>1, <3>2
  <2>2. CASE b = bp
    BY <1>4, <2>1, <2>2, LinkAt
  <2>3. CASE b = q
    <3>1. CASE Down
      <4>1. next'[q] = After /\ size'[q] = size[q] + Long /\ q + size[q] = bp
        BY <3>1, LinkAt DEF Down
      <4>2. q + size'[q] = bp + Long
        <5>1. q \in Nat /\ size[q] \in Nat /\ Long \in Nat
          BY <1>3, LinkFacts DEF Long
        <5> QED
          BY <4>1, <5>1
      <4> QED
        BY <1>4, <2>1, <2>3, <4>1, <4>2
    <3>2. CASE ~Down
      BY <2>3, <3>2, LinkAt DEF Down
    <3> QED
      BY <3>1, <3>2
  <2>4. CASE b # bp /\ b # q
    <3>1. b \in FreeList /\ next'[b] = next[b] /\ size'[b] = size[b]
      BY <1>1, <2>4, LinkFacts, LinkAt
    <3>2. next[b] = base \/ b + size[b] < next[b]
      BY <3>1 DEF HeapInv, Joined
    <3>3. next[b] \in Nat /\ b \in Nat /\ size[b] \in Nat
      BY <1>3, <3>1, LinkFacts, HeadsFacts
    <3> QED
      BY <1>4, <3>1, <3>2, <3>3
  <2> QED
    BY <2>2, <2>3, <2>4
<1>5. ASSUME NEW b \in FreeList', next'[b] # base PROVE b + size'[b] < next'[b]
  <2>1. PICK c \in FreeList' : c = next'[b]
    BY <1>1 DEF Ring
  <2>2. b < c
    BY <1>1, <1>5, <2>1 DEF Ring
  <2>3. b \in Nat /\ c \in Nat /\ size'[b] \in Nat /\ size'[c] \in Nat
    BY <1>1, <1>3, <2>1
  <2>4. CASE b = base
    BY <1>2, <2>1, <2>2, <2>3, <2>4
  <2>5. CASE b # base
    <3>1. b + size'[b] <= c \/ c + size'[c] <= b
      BY <1>1, <1>5, <2>1, <2>2, <2>3, <2>5 DEF Parts
    <3> QED
      BY <1>4, <1>5, <2>1, <2>2, <2>3, <3>1
  <2> QED
    BY <2>4, <2>5
<1> QED
  BY <1>2, <1>5 DEF Joined

LEMMA LinkKeepsHeap == HeapInv /\ Link => HeapInv'
<1> SUFFICES ASSUME HeapInv, Link PROVE HeapInv'
  OBVIOUS
<1>1. /\ Ring(next', FreeList') /\ FreeList' = (FreeList \cup {bp}) \ Gone
      /\ Parts(Heads', size', got) /\ Joined' /\ size'[base] = 0
      /\ used' = used /\ got' = got /\ brk' = brk /\ freep' = q /\ q' = q /\ bp' = bp
      /\ morecore' = morecore /\ ret' = ret /\ calls' = calls
  BY LinkRing, LinkParts, LinkJoins, LinkFacts
<1>2. OutHeads' = OutHeads /\ OutHeads \cap FreeList' = {}
  BY <1>1, LinkFacts DEF OutHeads, HeapInv
<1>3. OutSound'
  <2>1. \A u \in used : u.block \in OutHeads /\ u.block \in Units
    BY DEF OutHeads, HeapInv, OutSound
  <2>2. \A u \in used : size'[u.block] = size[u.block]
    BY <2>1, LinkFacts, LinkAt DEF HeapInv
  <2> QED
    BY <1>1, <2>2 DEF HeapInv, OutSound
<1>4. q \in FreeList' /\ q # NULL
  <2>1. q \in Units
    BY LinkFacts
  <2> QED
    BY <1>1, <2>1, LinkFacts DEF Gone, NULL
<1>5. /\ nbytes' = nbytes
      /\ pc' = IF morecore THEN "search" ELSE "idle"
      /\ IF morecore THEN prevp' = q /\ p' = next'[q] ELSE prevp' = prevp /\ p' = p
  BY DEF Link, search
<1>6. next'[q] \in FreeList' /\ FreeList' \subseteq Units
  BY <1>1, <1>4 DEF Ring
<1>7. TypeOK'
  <2>1. next' \in [Units -> Units] /\ size' \in [Units -> 0..Limit]
    BY <1>1 DEF Ring, Parts
  <2>2. TypeOK
    BY DEF HeapInv
  <2> QED
    BY <1>1, <1>4, <1>5, <1>6, <2>1, <2>2 DEF TypeOK
<1>8. ASSUME morecore, NEW b \in FreeList' PROVE ~LookedAt(b)'
  BY <1>1, <1>4, <1>5, <1>8, SearchBegins DEF LookedAt
<1>9. Searching'
  <2>1. ASSUME morecore PROVE nbytes \in Requests
    BY <2>1, LinkFacts DEF HeapInv, Inserting
  <2> QED
    BY <1>1, <1>4, <1>5, <1>6, <1>8, <2>1 DEF Searching
<1>10. Inserting'
  BY <1>5 DEF Inserting
<1>11. got \subseteq FirstBreak..brk - 1
  BY DEF HeapInv
<1> QED
  BY <1>1, <1>2, <1>3, <1>4, <1>7, <1>9, <1>10, <1>11 DEF HeapInv

------------------------------------------------------------------------------
(* Theorems.                                                                *)

LEMMA HeapInvStep == HeapInv /\ [Next]_vars => HeapInv'
<1> SUFFICES ASSUME HeapInv, [Next]_vars PROVE HeapInv'
  OBVIOUS
<1>1. CASE UNCHANGED vars
  <2>1. UNCHANGED <<next, size, freep, brk, pc, nbytes, p, prevp, bp, q, morecore, ret, used, got,
                    calls>>
    BY <1>1 DEF vars, list, search, insert
  <2>2. FreeList' = FreeList
    BY <2>1, SameList
  <2>3. /\ TypeOK' /\ Joined' /\ OutSound' /\ Searching' /\ Inserting'
        /\ OutHeads' = OutHeads /\ Heads' = Heads
    BY <2>1, <2>2 DEF HeapInv, TypeOK, Joined, OutSound, Searching, Inserting, LookedAt, nunits,
                      OutHeads, Heads, Pending
  <2> QED
    BY <2>1, <2>2, <2>3 DEF HeapInv
<1> QED
  BY <1>1, TakeKeepsHeap, AdvanceKeepsHeap, GrowKeepsHeap, WalkKeepsHeap, LinkKeepsHeap,
     MallocKeepsHeap, FreeKeepsHeap
  DEF Next, Loops

LEMMA HeapInvHolds == Spec => []HeapInv
BY HeapInvInit, HeapInvStep, PTL DEF Spec

LEMMA InvOwnsEveryUnit == HeapInv => EveryUnitOwned
<1> SUFFICES ASSUME HeapInv, Resting PROVE EveryUnitOwned
  BY DEF EveryUnitOwned
<1>1. Heads = (FreeList \ {base}) \cup OutHeads
  BY DEF Resting, Heads, Pending
<1>2. Out = {[block |-> h, units |-> size[h]] : h \in OutHeads}
  BY DEF Out, OutHeads, HeapInv, OutSound
<1>3. Free \cup Out = {[block |-> h, units |-> size[h]] : h \in Heads}
  BY <1>1, <1>2 DEF Free
<1>4. \A h \in Heads : h \in Nat /\ size[h] \in Nat
  BY BaseInUnits DEF HeapInv, Parts, Units
<1>5. ASSUME NEW a \in got
      PROVE  Cardinality({b \in Free \cup Out : b.block <= a /\ a < b.block + b.units}) = 1
  <2>1. PICK h \in Heads : h <= a /\ a < h + size[h]
    BY DEF HeapInv, Parts
  <2>2. a \in Nat
    BY BaseInUnits DEF HeapInv, TypeOK, Units
  <2>3. ASSUME NEW k \in Heads, k <= a, a < k + size[k] PROVE k = h
    <3>1. h = k \/ h + size[h] <= k \/ k + size[k] <= h
      BY DEF HeapInv, Parts
    <3> QED
      BY <1>4, <2>1, <2>2, <2>3, <3>1
  <2> DEFINE r == [block |-> h, units |-> size[h]]
             Around == {b \in Free \cup Out : b.block <= a /\ a < b.block + b.units}
  <2>4. r \in Around
    BY <1>3, <2>1
  <2>5. \A b \in Around : b = r
    <3> TAKE b \in Around
    <3>1. PICK k \in Heads : b = [block |-> k, units |-> size[k]]
      BY <1>3
    <3>2. k <= a /\ a < k + size[k]
      BY <3>1
    <3> QED
      BY <2>3, <3>1, <3>2
  <2>6. Around = {r}
    <3> HIDE DEF Around, r
    <3> QED
      BY <2>4, <2>5
  <2> QED
    BY <2>6, FS_Singleton
<1>6. \A b \in Free \cup Out : b.block..b.block + b.units - 1 \subseteq got
  BY <1>3 DEF HeapInv, Parts
<1>7. Free \cap Out = {}
  BY <1>2 DEF Free, HeapInv
<1>8. \A b \in Out : size[b.block] = b.units
  BY <1>2
<1> QED
  BY <1>5, <1>6, <1>7, <1>8 DEF EveryUnitOwned

\* The free list is in order, joined and complete, and every unit of the heap belongs
\* to one block, through any calls, also while the break is moved by others
\* (alloc.c:24-86).
THEOREM HeapIsSound == Spec => []HeapSound
<1>1. ASSUME HeapInv PROVE ListInOrder
  <2>1. ASSUME Resting PROVE freep \in FreeList /\ \A b \in FreeList \ {base} : size[b] > 0
    BY <1>1, <2>1 DEF HeapInv, Resting, Parts, Heads
  <2> QED
    BY <1>1, <2>1 DEF ListInOrder, HeapInv, Joined
<1>2. HeapInv => HeapSound
  BY <1>1, InvOwnsEveryUnit DEF HeapSound, HeapInv
<1> QED
  BY HeapInvHolds, <1>2, PTL

\* Alloc_malloc asks for memory when no free block is large enough, and only then
\* (alloc.c:31-47).
THEOREM GrowsWhenNeeded == Spec => GrowsOnlyWhenNeeded
<1> DEFINE Grows == pc = "search" /\ pc' # "search" /\ used' = used
                    => \A b \in FreeList : size[b] < nunits
<1>1. ASSUME HeapInv, [Next]_vars PROVE [Grows]_vars
  <2> SUFFICES ASSUME pc = "search", pc' # "search", used' = used
               PROVE  \A b \in FreeList : size[b] < nunits
    OBVIOUS
  <2>1. Take \/ Grow
    BY <1>1 DEF Next, Loops, Advance, Walk, Link, Alloc_malloc, Alloc_free, vars
  <2>2. Grow
    BY <1>1, <2>1, TakeKeepsHeap
  <2>3. p = freep /\ size[p] < nunits
    BY <2>2 DEF Grow
  <2>4. ASSUME NEW b \in FreeList PROVE size[b] < nunits
    <3>1. b \in Nat /\ freep \in Nat
      BY <1>1, HeadsFacts, BaseInUnits DEF HeapInv, Searching, Units
    <3>2. LookedAt(b) \/ b = p
      BY <2>3, <3>1 DEF LookedAt
    <3> QED
      BY <1>1, <2>3, <2>4, <3>2 DEF HeapInv, Searching
  <2> QED
    BY <2>4
<1> QED
  BY HeapInvHolds, <1>1, PTL DEF Spec, GrowsOnlyWhenNeeded

\* A step of the allocator that hands out or takes back is a step of the pool, and
\* every other leaves the pool alone.
LEMMA TakeGets ==
  ASSUME HeapInv, Take
  PROVE  \E at \in Units, n \in Units, bytes \in Requests :
           P!Get([block |-> at, units |-> n, bytes |-> bytes])
<1>1. /\ pc = "search" /\ nbytes \in Requests /\ nbytes \in Nat /\ p \in FreeList
  BY CallsAssumption DEF Take, HeapInv, Searching
<1>2. PICK n \in Nat \ {0} : n = nunits /\ nbytes <= (n - 1) * HeaderSize
  BY <1>1, RoundedUp
<1> DEFINE at == p + (size[p] - n)
           r == [block |-> at, units |-> n, bytes |-> nbytes]
<1>3. size[p] >= n /\ used' = used \cup {r}
  BY <1>2 DEF Take
<1>4. p \in Heads /\ p \in Nat /\ size[p] \in Nat
  <2>1. p \in Units /\ size[p] \in Nat
    BY <1>1, HeadsFacts, BaseInUnits DEF HeapInv, TypeOK
  <2>2. size[base] = 0
    BY DEF HeapInv
  <2> QED
    BY <1>1, <1>2, <1>3, <2>1, <2>2, BaseInUnits DEF Heads, Units
<1>5. p \notin OutHeads
  BY <1>1 DEF HeapInv
<1>6. \A a \in p..p + size[p] - 1 : a \in Units /\ a >= FirstBreak
  BY <1>4, SizesAssumption DEF HeapInv, Parts, TypeOK
<1>7. at \in Units /\ at + n - 1 \in Units /\ n \in Units
  <2>1. at \in p..p + size[p] - 1 /\ at + n - 1 \in p..p + size[p] - 1
    BY <1>2, <1>3, <1>4
  <2>2. at \in Units /\ at + n - 1 \in Units /\ at >= FirstBreak
    BY <1>6, <2>1
  <2>3. n <= Limit - 1
    BY <1>2, <1>4, <2>2, SizesAssumption DEF Units
  <2> QED
    BY <1>2, <2>2, <2>3, BaseInUnits DEF Units
<1>8. ASSUME NEW c \in used PROVE P!Apart(r, c)
  <2>1. c.block \in OutHeads /\ c.block \in Heads /\ size[c.block] = c.units /\ c.block # p
    BY <1>5 DEF OutHeads, Heads, HeapInv, OutSound
  <2>2. p + size[p] <= c.block \/ c.block + c.units <= p
    BY <1>4, <2>1 DEF HeapInv, Parts
  <2>3. c.block \in Nat /\ c.units \in Nat
    <3>1. c.block \in Units /\ c.units \in 1..Limit
      BY DEF HeapInv, OutSound
    <3> QED
      BY <3>1, BaseInUnits DEF Units
  <2>4. at + n <= c.block \/ c.block + c.units <= at
    BY <1>2, <1>3, <1>4, <2>2, <2>3
  <2> QED
    BY <2>4 DEF P!Apart
<1>9. P!Get(r)
  BY <1>2, <1>3, <1>7, <1>8 DEF P!Get
<1> QED
  BY <1>1, <1>7, <1>9

\* Blocks handed out are apart from each other and large enough, for every heap and
\* order of calls: the allocator implements Pool (alloc.c:20-86).
THEOREM IsPool == Spec => Implements
<1>1. Init => P!Init
  BY DEF Init, P!Init
<1>2. ASSUME HeapInv, [Next]_vars PROVE [P!Next]_used
  <2>1. CASE Take
    BY <1>2, <2>1, TakeGets DEF P!Next
  <2>2. ASSUME NEW b \in used, Alloc_free(b) PROVE P!Next
    BY <2>2 DEF Alloc_free, P!Next, P!Put
  <2>3. CASE used' = used
    BY <2>3
  <2> QED
    BY <1>2, <2>1, <2>2, <2>3
    DEF Next, Loops, Advance, Grow, Walk, Link, Alloc_malloc, vars
<1> QED
  BY HeapInvHolds, <1>1, <1>2, PTL DEF Spec, Implements, P!Spec
=============================================================================
