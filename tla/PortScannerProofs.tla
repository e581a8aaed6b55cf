-------------------------- MODULE PortScannerProofs --------------------------
(***************************************************************************)
(* Theorems about PortScanner, for every range of ports, number of threads *)
(* and network: types, no port is scanned twice, every port is scanned     *)
(* when the range starts at 1, and the report is sorted and complete.      *)
(***************************************************************************)
EXTENDS PortScanner, SequenceTheorems, TLAPS

\* The ports divide into `wanted' segments and a remainder.
LEMMA Division ==
  /\ nports \in Nat \ {0} /\ wanted \in Nat \ {0} /\ wanted <= nports
  /\ port_num_per_seg \in Nat \ {0}
  /\ wanted * port_num_per_seg <= nports
  /\ nports % wanted = 0 => wanted * port_num_per_seg = nports
  /\ nthreads \in Nat \ {0} /\ nthreads \in {wanted, wanted + 1}
  /\ nthreads = wanted => wanted * port_num_per_seg = nports
<1>1. nports \in Nat \ {0}
  BY OptionsAssumption DEF nports
<1>2. wanted \in Nat \ {0} /\ wanted <= nports
  BY OptionsAssumption, <1>1 DEF wanted
<1>3. \A a, b \in Nat \ {0} : b <= a =>
        /\ a \div b \in Nat \ {0}
        /\ a = b * (a \div b) + (a % b)
        /\ a % b \in Nat
  OBVIOUS
<1>4. /\ port_num_per_seg \in Nat \ {0}
      /\ nports = wanted * port_num_per_seg + (nports % wanted)
      /\ nports % wanted \in Nat
  BY <1>1, <1>2, <1>3 DEF port_num_per_seg
<1>5. wanted * port_num_per_seg \in Nat
  BY <1>2, <1>4
<1>6. /\ wanted * port_num_per_seg <= nports
      /\ nports % wanted = 0 => wanted * port_num_per_seg = nports
  BY <1>1, <1>4, <1>5
<1>7. /\ nthreads \in Nat \ {0} /\ nthreads \in {wanted, wanted + 1}
      /\ nthreads = wanted => nports % wanted = 0
  BY <1>2 DEF nthreads
<1> QED
  BY <1>1, <1>2, <1>4, <1>6, <1>7

\* Products that the arithmetic of the segments needs.
LEMMA Times ==
  ASSUME NEW i \in Nat, NEW j \in Nat, NEW n \in Nat, i <= j
  PROVE  i * n \in Nat /\ j * n \in Nat /\ i * n <= j * n
<1>1. \A a, b \in Nat : a * b \in Nat
  OBVIOUS
<1>2. PICK d \in Nat : j = i + d
  <2>1. j - i \in Nat /\ j = i + (j - i)
    OBVIOUS
  <2> QED
    BY <2>1
<1>3. j * n = i * n + d * n
  BY <1>2
<1> QED
  BY <1>1, <1>3

\* Where a segment begins and ends.
LEMMA SegmentBounds ==
  ASSUME NEW i \in Threads
  PROVE  /\ seg_min(i) \in min_port..max_port
         /\ seg_max(i) \in Int /\ seg_max(i) <= max_port
<1> DEFINE n == port_num_per_seg
<1>1. /\ i \in Nat /\ i <= nthreads - 1 /\ n \in Nat \ {0}
      /\ wanted \in Nat /\ nthreads \in Nat
  BY Division DEF Threads
<1>2. i <= wanted /\ wanted * n <= nports
  BY <1>1, Division
<1>3. i * n \in Nat /\ i * n <= wanted * n
  BY <1>1, <1>2, Times
<1>4. i # 0 => i * n >= 1
  <2>1. i # 0 => 1 * n <= i * n
    BY <1>1, Times
  <2> QED
    BY <2>1, <1>1, <1>3
<1>5. seg_min(i) \in min_port..max_port
  <2> HIDE DEF n
  <2>1. i * n <= nports /\ wanted * n \in Nat
    BY <1>1, <1>2, <1>3, Times, Division
  <2>2. seg_min(i) = IF i = 0 THEN min_port ELSE min_port + i * n - 1
    BY DEF seg_min, n
  <2> DEFINE k == i * n
  <2>3. k \in Nat /\ (i # 0 => k >= 1) /\ k <= nports
    BY <2>1, <1>3, <1>4
  <2>4. seg_min(i) = IF i = 0 THEN min_port ELSE min_port + k - 1
    BY <2>2
  <2> QED
    BY <2>3, <2>4, OptionsAssumption DEF nports
<1>6. i < nthreads - 1 => (i + 1) * n \in Nat /\ (i + 1) * n <= nports
  <2>1. i < nthreads - 1 => i + 1 <= wanted
    BY <1>1, Division
  <2> QED
    BY <2>1, <1>1, <1>2, Times, Division
<1>7. seg_max(i) \in Int /\ seg_max(i) <= max_port
  <2>1. CASE i = nthreads - 1
    BY <2>1, OptionsAssumption DEF seg_max
  <2>2. CASE i # nthreads - 1
    <3> DEFINE k == (i + 1) * n
    <3>1. k \in Nat /\ k <= nports
      BY <2>2, <1>1, <1>6
    <3>2. seg_max(i) = k - 1
      BY <2>2 DEF seg_max
    <3> HIDE DEF k
    <3> QED
      BY <3>1, <3>2, OptionsAssumption DEF nports
  <2> QED
    BY <2>1, <2>2
<1> QED
  BY <1>5, <1>7

\* The segments lie in the order of their threads.
LEMMA SegmentsOrdered ==
  ASSUME NEW a \in Threads, NEW b \in Threads, a < b
  PROVE  seg_max(a) < seg_min(b)
<1> DEFINE n == port_num_per_seg
           k == (a + 1) * n
           l == b * n
<1>1. a \in Nat /\ b \in Nat /\ a + 1 <= b /\ b # 0 /\ a # nthreads - 1 /\ n \in Nat
  BY Division DEF Threads
<1>2. k \in Nat /\ l \in Nat /\ k <= l
  BY <1>1, Times
<1>3. seg_max(a) = k - 1 /\ seg_min(b) = min_port + l - 1
  BY <1>1 DEF seg_max, seg_min
<1> HIDE DEF k, l
<1> QED
  BY <1>2, <1>3, OptionsAssumption

\* A port lies in one segment at most.
LEMMA SegmentsApart ==
  ASSUME NEW i \in Threads, NEW j \in Threads, NEW p \in Int,
         seg_min(i) <= p, p <= seg_max(i), seg_min(j) <= p, p <= seg_max(j)
  PROVE  i = j
<1>1. \A a, b \in Threads : a < b => seg_max(a) < seg_min(b)
  BY SegmentsOrdered
<1>2. i \in Nat /\ j \in Nat
  BY Division DEF Threads
<1>3. /\ seg_min(i) \in Int /\ seg_max(i) \in Int
      /\ seg_min(j) \in Int /\ seg_max(j) \in Int
  BY SegmentBounds, OptionsAssumption
<1> QED
  BY <1>1, <1>2, <1>3

\* When the range starts at 1, every port lies in a segment.
LEMMA SegmentsCover ==
  ASSUME min_port = 1, NEW p \in Ports
  PROVE  \E i \in Threads : seg_min(i) <= p /\ p <= seg_max(i)
<1> DEFINE n == port_num_per_seg
           last == nthreads - 1
<1>1. /\ n \in Nat \ {0} /\ last \in Nat /\ p \in Nat \ {0} /\ p <= max_port
      /\ last \in Threads
  BY Division, OptionsAssumption DEF Ports, Threads
<1>2. last * n \in Nat
  BY <1>1, Times
<1>3. CASE p >= last * n
  <2>1. seg_max(last) = max_port
    BY DEF seg_max
  <2>2. seg_min(last) = IF last = 0 THEN 1 ELSE last * n
    BY <1>1, <1>2 DEF seg_min
  <2>3. seg_min(last) <= p
    BY <1>1, <1>3, <2>2
  <2> QED
    BY <1>1, <2>1, <2>3
<1>4. CASE p < last * n
  <2> DEFINE i == p \div n
  <2>1. /\ i \in Nat /\ i * n \in Nat /\ i * n <= p
        /\ (i + 1) * n \in Nat /\ p < (i + 1) * n
    BY <1>1
  <2> HIDE DEF i, last
  <2>2. i < last
    <3>1. CASE last <= i
      <4>1. last * n <= i * n
        BY <3>1, <1>1, <2>1, Times
      <4> QED
        BY <4>1, <1>1, <1>2, <1>4, <2>1
    <3> QED
      BY <3>1, <1>1, <2>1
  <2>3. i \in Threads /\ i # nthreads - 1
    BY <2>1, <2>2, <1>1, Division DEF Threads, last
  <2>4. seg_max(i) = (i + 1) * n - 1
    BY <2>3 DEF seg_max
  <2>5. seg_min(i) = IF i = 0 THEN 1 ELSE i * n
    BY <2>1 DEF seg_min
  <2>6. seg_min(i) <= p /\ p <= seg_max(i)
    BY <2>1, <2>4, <2>5, <1>1
  <2> QED
    BY <2>3, <2>6
<1> QED
  BY <1>1, <1>2, <1>3, <1>4

------------------------------------------------------------------------------
(* The inductive invariant: what a thread's place says about its port, and  *)
(* the visits counted from the threads' places.                             *)

Busy == {"connect", "lookup", "strdup"}
Started == Busy \cup {"loop", "exit"}

Place ==
  \A i \in Threads :
    /\ at[i] \in Started => seg_min(i) <= port[i]
    /\ at[i] \in Busy => port[i] <= seg_max(i)
    /\ at[i] = "exit" => port[i] > seg_max(i)
    /\ (main = "create" /\ i >= turn) => at[i] = "none"
    /\ (main = "join" /\ i < turn) => at[i] = "exit"
    /\ main = "end" => at[i] = "exit"

Passed(i, p) ==
  /\ at[i] \in Started /\ seg_min(i) <= p /\ p <= seg_max(i)
  /\ p < port[i] \/ (p = port[i] /\ at[i] \in Busy)

Counted == \A p \in Ports : visits[p] = IF \E i \in Threads : Passed(i, p) THEN 1 ELSE 0

IInv == TypeOK /\ Place /\ Counted

LEMMA InitInv == Init => IInv
<1> SUFFICES ASSUME Init PROVE IInv
  OBVIOUS
<1>1. 0 \in Threads /\ min_port \in min_port..max_port + 1
  BY Division, OptionsAssumption DEF Threads
<1>2. TypeOK
  BY <1>1 DEF Init, TypeOK
<1>3. Place
  BY DEF Init, Place, Started, Busy
<1>4. Counted
  BY DEF Init, Counted, Passed, Started, Busy
<1> QED
  BY <1>2, <1>3, <1>4 DEF IInv

\* A step that moves no thread past a port keeps the count.
LEMMA CountedSame ==
  ASSUME Counted, visits' = visits,
         \A i \in Threads, p \in Ports : Passed(i, p)' <=> Passed(i, p)
  PROVE  Counted'
BY DEF Counted

\* A step of thread i that keeps main and turn and leaves it in its segment.
LEMMA PlaceKept ==
  ASSUME IInv, NEW i \in Threads, NEW where \in Started, NEW q \in Int,
         at' = [at EXCEPT ![i] = where], port' = [port EXCEPT ![i] = q],
         main' = main, turn' = turn, at[i] \in Started \ {"exit"},
         seg_min(i) <= q, where \in Busy => q <= seg_max(i),
         where = "exit" => q > seg_max(i)
  PROVE  Place'
<1> SUFFICES ASSUME NEW j \in Threads
             PROVE  (/\ at[j] \in Started => seg_min(j) <= port[j]
                     /\ at[j] \in Busy => port[j] <= seg_max(j)
                     /\ at[j] = "exit" => port[j] > seg_max(j)
                     /\ (main = "create" /\ j >= turn) => at[j] = "none"
                     /\ (main = "join" /\ j < turn) => at[j] = "exit"
                     /\ main = "end" => at[j] = "exit")'
  BY DEF Place
<1>1. at \in [Threads -> {"none", "failed", "loop", "connect", "lookup", "strdup", "exit"}]
      /\ port \in [Threads -> min_port..max_port + 1]
  BY DEF IInv, TypeOK
<1>2. seg_min(j)' = seg_min(j) /\ seg_max(j)' = seg_max(j)
  BY DEF seg_min, seg_max, nthreads, port_num_per_seg, wanted, nports
<1>3. CASE j = i
  BY <1>1, <1>2, <1>3 DEF IInv, Place, Started, Busy
<1>4. CASE j # i
  BY <1>1, <1>2, <1>4 DEF IInv, Place
<1> QED
  BY <1>3, <1>4

\* What the step of a running thread may rely on.
LEMMA Running ==
  ASSUME IInv, NEW i \in Threads, at[i] \in Started \ {"exit"}
  PROVE  /\ port[i] \in min_port..max_port + 1 /\ port[i] \in Int
         /\ seg_min(i) <= port[i] /\ seg_min(i) \in Int
         /\ at[i] \in Busy => port[i] \in Ports /\ port[i] <= seg_max(i)
         /\ port[i] <= seg_max(i) => port[i] \in Ports
<1>1. port[i] \in min_port..max_port + 1 /\ port[i] \in Int
  BY OptionsAssumption DEF IInv, TypeOK
<1>2. seg_min(i) <= port[i] /\ (at[i] \in Busy => port[i] <= seg_max(i))
  BY DEF IInv, Place
<1>3. seg_min(i) \in Int /\ seg_max(i) \in Int /\ seg_max(i) <= max_port
  BY SegmentBounds, OptionsAssumption
<1> QED
  BY <1>1, <1>2, <1>3, OptionsAssumption DEF Ports

LEMMA CreateStep == ASSUME IInv, Create PROVE IInv'
<1>1. turn \in Threads /\ main = "create" /\ at[turn] = "none"
  <2>1. turn \in Threads /\ main = "create"
    BY DEF Create, IInv, TypeOK
  <2>2. turn >= turn
    BY <2>1, Division DEF Threads
  <2> QED
    BY <2>1, <2>2 DEF IInv, Place
<1>2. /\ at' \in {[at EXCEPT ![turn] = "loop"], [at EXCEPT ![turn] = "failed"]}
      /\ port' \in {port, [port EXCEPT ![turn] = seg_min(turn)]}
      /\ at' = [at EXCEPT ![turn] = "loop"] => port' = [port EXCEPT ![turn] = seg_min(turn)]
  BY <1>1 DEF Create, IInv, TypeOK
<1>3. /\ main' \in {"create", "join"} /\ turn' \in Threads
      /\ main' = "create" => turn' = turn + 1
      /\ main' = "join" => turn' = 0
  BY <1>1, Division DEF Create, Threads
<1>4. seg_min(turn) \in min_port..max_port
  BY <1>1, SegmentBounds
<1>5. TypeOK'
  <2>1. at' \in [Threads -> {"none", "failed", "loop", "connect", "lookup", "strdup", "exit"}]
    BY <1>1, <1>2 DEF IInv, TypeOK
  <2>2. min_port..max_port \subseteq min_port..max_port + 1
    BY OptionsAssumption
  <2>3. port' \in [Threads -> min_port..max_port + 1]
    BY <1>1, <1>2, <1>4, <2>2 DEF IInv, TypeOK
  <2>4. UNCHANGED <<found, servent, skipped, printed, visits>>
    BY DEF Create
  <2> QED
    BY <1>3, <2>1, <2>3, <2>4 DEF IInv, TypeOK
<1>6. Place'
  <2> SUFFICES ASSUME NEW j \in Threads
               PROVE  (/\ at[j] \in Started => seg_min(j) <= port[j]
                       /\ at[j] \in Busy => port[j] <= seg_max(j)
                       /\ at[j] = "exit" => port[j] > seg_max(j)
                       /\ (main = "create" /\ j >= turn) => at[j] = "none"
                       /\ (main = "join" /\ j < turn) => at[j] = "exit"
                       /\ main = "end" => at[j] = "exit")'
    BY DEF Place
  <2>1. seg_min(j)' = seg_min(j) /\ seg_max(j)' = seg_max(j)
    BY DEF seg_min, seg_max, nthreads, port_num_per_seg, wanted, nports
  <2>2. j \in Nat /\ turn \in Nat
    BY <1>1, Division DEF Threads
  <2>3. at \in [Threads -> {"none", "failed", "loop", "connect", "lookup", "strdup", "exit"}]
        /\ port \in [Threads -> min_port..max_port + 1]
    BY DEF IInv, TypeOK
  <2>4. CASE j = turn
    <3>1. /\ at'[j] \in {"loop", "failed"}
          /\ at'[j] = "loop" => port'[j] = seg_min(j)
      BY <1>1, <1>2, <2>3, <2>4
    <3> QED
      BY <1>3, <1>4, <2>1, <2>2, <2>4, <3>1, OptionsAssumption DEF Started, Busy
  <2>5. CASE j # turn
    <3>1. at'[j] = at[j] /\ port'[j] = port[j]
      BY <1>1, <1>2, <2>3, <2>5
    <3>2. main' = "create" /\ j >= turn' => j >= turn
      BY <1>3, <2>2
    <3>3. ~(main' = "join" /\ j < turn')
      BY <1>3, <2>2
    <3> QED
      BY <1>1, <1>3, <2>1, <2>2, <3>1, <3>2, <3>3 DEF IInv, Place
  <2> QED
    BY <2>4, <2>5
<1>7. ASSUME NEW i \in Threads, NEW p \in Ports
      PROVE  Passed(i, p)' <=> Passed(i, p)
  <2>1. seg_min(i)' = seg_min(i) /\ seg_max(i)' = seg_max(i)
    BY DEF seg_min, seg_max, nthreads, port_num_per_seg, wanted, nports
  <2>2. at \in [Threads -> {"none", "failed", "loop", "connect", "lookup", "strdup", "exit"}]
        /\ port \in [Threads -> min_port..max_port + 1]
    BY DEF IInv, TypeOK
  <2>3. CASE i = turn
    <3>1. /\ at'[i] \in {"loop", "failed"}
          /\ at'[i] = "loop" => port'[i] = seg_min(i)
      BY <1>1, <1>2, <2>2, <2>3
    <3>2. p \in Int /\ seg_min(i) \in Int
      BY <1>4, <2>3, OptionsAssumption DEF Ports
    <3> QED
      BY <1>1, <2>1, <2>3, <3>1, <3>2 DEF Passed, Started, Busy
  <2>4. CASE i # turn
    <3>1. at'[i] = at[i] /\ port'[i] = port[i]
      BY <1>1, <1>2, <2>2, <2>4
    <3> QED
      BY <2>1, <3>1 DEF Passed
  <2> QED
    BY <2>3, <2>4
<1>8. Counted'
  BY <1>7, CountedSame DEF Create, IInv
<1> QED
  BY <1>5, <1>6, <1>8 DEF IInv

LEMMA JoinStep == ASSUME IInv, Join PROVE IInv'
<1>1. turn \in Threads /\ main = "join" /\ at[turn] = "exit" /\ UNCHANGED <<at, port, visits>>
  BY DEF Join, IInv, TypeOK
<1>2. \/ turn + 1 < nthreads /\ turn' = turn + 1 /\ main' = "join"
      \/ turn + 1 >= nthreads /\ turn' = turn /\ main' = "end"
  BY <1>1, Division DEF Join, Threads
<1>3. turn' \in Threads
  BY <1>1, <1>2, Division DEF Threads
<1>4. printed' \in Seq(Result)
  BY <1>1, ConcatProperties DEF Join, IInv, TypeOK
<1>5. TypeOK'
  BY <1>1, <1>2, <1>3, <1>4 DEF Join, IInv, TypeOK
<1>6. Place'
  <2> SUFFICES ASSUME NEW j \in Threads
               PROVE  (/\ at[j] \in Started => seg_min(j) <= port[j]
                       /\ at[j] \in Busy => port[j] <= seg_max(j)
                       /\ at[j] = "exit" => port[j] > seg_max(j)
                       /\ (main = "create" /\ j >= turn) => at[j] = "none"
                       /\ (main = "join" /\ j < turn) => at[j] = "exit"
                       /\ main = "end" => at[j] = "exit")'
    BY DEF Place
  <2>1. seg_min(j)' = seg_min(j) /\ seg_max(j)' = seg_max(j)
    BY DEF seg_min, seg_max, nthreads, port_num_per_seg, wanted, nports
  <2>2. j \in Nat /\ turn \in Nat /\ (j < turn \/ j = turn \/ j > turn) /\ j <= nthreads - 1
    BY <1>1, Division DEF Threads
  <2>3. (main' = "join" /\ j < turn') \/ main' = "end" => at[j] = "exit"
    BY <1>1, <1>2, <2>2, Division DEF IInv, Place
  <2> QED
    BY <1>1, <1>2, <2>1, <2>3 DEF IInv, Place
<1>7. ASSUME NEW i \in Threads, NEW p \in Ports
      PROVE  Passed(i, p)' <=> Passed(i, p)
  BY <1>1 DEF Passed, seg_min, seg_max, nthreads, port_num_per_seg, wanted, nports
<1>8. Counted'
  BY <1>1, <1>7, CountedSame DEF IInv
<1> QED
  BY <1>5, <1>6, <1>8 DEF IInv

LEMMA JoinFailedStep == ASSUME IInv, JoinFailed PROVE IInv'
<1>1. UNCHANGED <<turn, at, port, found, servent, skipped, printed, visits>> /\ main' = "crash"
  BY DEF JoinFailed
<1>2. TypeOK'
  BY <1>1 DEF IInv, TypeOK
<1>3. Place'
  BY <1>1 DEF IInv, Place, seg_min, seg_max, nthreads, port_num_per_seg, wanted, nports
<1>4. ASSUME NEW i \in Threads, NEW p \in Ports
      PROVE  Passed(i, p)' <=> Passed(i, p)
  BY <1>1 DEF Passed, seg_min, seg_max, nthreads, port_num_per_seg, wanted, nports
<1>5. Counted'
  BY <1>1, <1>4, CountedSame DEF IInv
<1> QED
  BY <1>2, <1>3, <1>5 DEF IInv

\* A step of a thread within its segment: the types of `at' and `port', Place,
\* and which ports the thread has passed.
LEMMA MoveThread ==
  ASSUME IInv, NEW i \in Threads, NEW where \in Started, NEW q \in {port[i], port[i] + 1},
         at' = [at EXCEPT ![i] = where], port' = [port EXCEPT ![i] = q],
         main' = main, turn' = turn, at[i] \in Started \ {"exit"},
         q = port[i] + 1 => port[i] <= seg_max(i),
         where \in Busy => q <= seg_max(i),
         where = "exit" => q > seg_max(i)
  PROVE  /\ at' \in [Threads -> {"none", "failed", "loop", "connect", "lookup", "strdup", "exit"}]
         /\ port' \in [Threads -> min_port..max_port + 1]
         /\ Place'
         /\ \A j \in Threads \ {i}, p \in Ports : Passed(j, p)' <=> Passed(j, p)
         /\ \A p \in Ports : Passed(i, p)' <=>
              /\ seg_min(i) <= p /\ p <= seg_max(i)
              /\ p < q \/ (p = q /\ where \in Busy)
<1>1. /\ port[i] \in Int /\ port[i] \in min_port..max_port + 1 /\ seg_min(i) <= port[i]
      /\ seg_min(i) \in Int /\ (port[i] <= seg_max(i) => port[i] \in Ports)
  BY Running
<1>2. q \in Int /\ q \in min_port..max_port + 1 /\ seg_min(i) <= q
  BY <1>1, OptionsAssumption DEF Ports
<1>3. at \in [Threads -> {"none", "failed", "loop", "connect", "lookup", "strdup", "exit"}]
      /\ port \in [Threads -> min_port..max_port + 1]
  BY DEF IInv, TypeOK
<1>4. at' \in [Threads -> {"none", "failed", "loop", "connect", "lookup", "strdup", "exit"}]
      /\ port' \in [Threads -> min_port..max_port + 1]
  BY <1>2, <1>3 DEF Started, Busy
<1>5. Place'
  BY <1>2, PlaceKept
<1>6. ASSUME NEW j \in Threads \ {i}, NEW p \in Ports
      PROVE  Passed(j, p)' <=> Passed(j, p)
  <2>1. at'[j] = at[j] /\ port'[j] = port[j]
    BY <1>3
  <2> QED
    BY <2>1 DEF Passed, seg_min, seg_max, nthreads, port_num_per_seg, wanted, nports
<1>7. ASSUME NEW p \in Ports
      PROVE  Passed(i, p)' <=> /\ seg_min(i) <= p /\ p <= seg_max(i)
                               /\ p < q \/ (p = q /\ where \in Busy)
  <2>1. at'[i] = where /\ port'[i] = q
    BY <1>3
  <2>2. seg_min(i)' = seg_min(i) /\ seg_max(i)' = seg_max(i)
    BY DEF seg_min, seg_max, nthreads, port_num_per_seg, wanted, nports
  <2> QED
    BY <2>1, <2>2 DEF Passed
<1> QED
  BY <1>4, <1>5, <1>6, <1>7

\* The thread has passed the port it is busy with, and before and after closing
\* its socket it has passed the same ports.
LEMMA SamePassed ==
  ASSUME IInv, NEW i \in Threads, NEW where \in Started, NEW q \in {port[i], port[i] + 1},
         at' = [at EXCEPT ![i] = where], port' = [port EXCEPT ![i] = q],
         main' = main, turn' = turn, visits' = visits, at[i] \in Started \ {"exit"},
         q = port[i] + 1 => port[i] <= seg_max(i),
         where \in Busy => q <= seg_max(i),
         where = "exit" => q > seg_max(i),
         \/ at[i] \in Busy /\ q = port[i] + 1 /\ where \notin Busy
         \/ at[i] \in Busy /\ q = port[i] /\ where \in Busy
         \/ at[i] \notin Busy /\ q = port[i] /\ where \notin Busy
  PROVE  Counted'
<1>1. /\ \A j \in Threads \ {i}, p \in Ports : Passed(j, p)' <=> Passed(j, p)
      /\ \A p \in Ports : Passed(i, p)' <=>
              /\ seg_min(i) <= p /\ p <= seg_max(i)
              /\ p < q \/ (p = q /\ where \in Busy)
  BY MoveThread, ZenonT(60)
<1>2. port[i] \in Int
  BY Running
<1>3. ASSUME NEW p \in Ports
      PROVE  Passed(i, p)' <=> Passed(i, p)
  <2>1. p \in Int
    BY OptionsAssumption DEF Ports
  <2>2. (p < q \/ (p = q /\ where \in Busy)) <=> (p < port[i] \/ (p = port[i] /\ at[i] \in Busy))
    BY <1>2, <2>1
  <2> QED
    BY <1>1, <2>2 DEF Passed
<1> QED
  BY <1>1, <1>3, CountedSame DEF IInv
LEMMA ExitStep == ASSUME IInv, NEW i \in Threads, Exit(i) PROVE IInv'
<1>1. /\ at[i] = "loop" /\ port[i] > seg_max(i)
      /\ at' = [at EXCEPT ![i] = "exit"]
      /\ UNCHANGED <<main, turn, port, found, servent, skipped, printed, visits>>
  BY DEF Exit, Runs
<1>2. port' = [port EXCEPT ![i] = port[i]]
  BY <1>1 DEF IInv, TypeOK
<1>3. /\ at[i] \in Started \ {"exit"} /\ at[i] \notin Busy
      /\ "exit" \in Started /\ "exit" \notin Busy
  BY <1>1 DEF Started, Busy
<1>4. port[i] # port[i] + 1
  BY <1>3, Running
<1>5. /\ at' \in [Threads -> {"none", "failed", "loop", "connect", "lookup", "strdup", "exit"}]
      /\ port' \in [Threads -> min_port..max_port + 1] /\ Place'
  BY <1>1, <1>2, <1>3, <1>4, MoveThread
<1>6. Counted'
  BY <1>1, <1>2, <1>3, <1>4, SamePassed
<1> QED
  BY <1>1, <1>5, <1>6 DEF IInv, TypeOK

LEMMA ConnectStep == ASSUME IInv, NEW i \in Threads, Connect(i) PROVE IInv'
<1>1. /\ at[i] = "connect"
      /\ UNCHANGED <<main, turn, found, servent, skipped, printed, visits>>
  BY DEF Connect, Runs
<1>2. /\ at[i] \in Started \ {"exit"} /\ at[i] \in Busy
      /\ {"loop", "lookup"} \subseteq Started /\ "loop" \notin Busy /\ "lookup" \in Busy
  BY <1>1 DEF Started, Busy
<1>3. port[i] # port[i] + 1 /\ port[i] <= seg_max(i)
  BY <1>2, Running
<1>4. \/ /\ at' = [at EXCEPT ![i] = "lookup"] /\ port' = [port EXCEPT ![i] = port[i]]
      \/ /\ at' = [at EXCEPT ![i] = "loop"] /\ port' = [port EXCEPT ![i] = port[i] + 1]
  BY DEF Connect, NextPort, IInv, TypeOK
<1>5. /\ at' \in [Threads -> {"none", "failed", "loop", "connect", "lookup", "strdup", "exit"}]
      /\ port' \in [Threads -> min_port..max_port + 1] /\ Place'
  BY <1>1, <1>2, <1>3, <1>4, MoveThread
<1>6. Counted'
  BY <1>1, <1>2, <1>3, <1>4, SamePassed
<1> QED
  BY <1>1, <1>5, <1>6 DEF IInv, TypeOK

LEMMA LookupStep == ASSUME IInv, NEW i \in Threads, Lookup(i) PROVE IInv'
<1>1. /\ at[i] = "lookup"
      /\ UNCHANGED <<main, turn, found, skipped, printed, visits>>
  BY DEF Lookup, Runs
<1>2. /\ at[i] \in Started \ {"exit"} /\ at[i] \in Busy
      /\ {"loop", "strdup"} \subseteq Started /\ "loop" \notin Busy /\ "strdup" \in Busy
  BY <1>1 DEF Started, Busy
<1>3. port[i] # port[i] + 1 /\ port[i] <= seg_max(i) /\ port[i] \in Ports
  BY <1>2, Running
<1>4. \/ /\ at' = [at EXCEPT ![i] = "strdup"] /\ port' = [port EXCEPT ![i] = port[i]]
      \/ /\ at' = [at EXCEPT ![i] = "loop"] /\ port' = [port EXCEPT ![i] = port[i] + 1]
  BY DEF Lookup, NextPort, IInv, TypeOK
<1>5. servent' \in Ports \cup {Torn}
  BY <1>3 DEF Lookup, IInv, TypeOK
<1>6. /\ at' \in [Threads -> {"none", "failed", "loop", "connect", "lookup", "strdup", "exit"}]
      /\ port' \in [Threads -> min_port..max_port + 1] /\ Place'
  BY <1>1, <1>2, <1>3, <1>4, MoveThread
<1>7. Counted'
  BY <1>1, <1>2, <1>3, <1>4, SamePassed
<1> QED
  BY <1>1, <1>5, <1>6, <1>7 DEF IInv, TypeOK

LEMMA StrdupStep == ASSUME IInv, NEW i \in Threads, Strdup(i) PROVE IInv'
<1>1. /\ at[i] = "strdup"
      /\ UNCHANGED <<main, turn, servent, skipped, printed, visits>>
  BY DEF Strdup, Runs
<1>2. /\ at[i] \in Started \ {"exit"} /\ at[i] \in Busy
      /\ "loop" \in Started /\ "loop" \notin Busy
  BY <1>1 DEF Started, Busy
<1>3. port[i] # port[i] + 1 /\ port[i] <= seg_max(i) /\ port[i] \in Ports
  BY <1>2, Running
<1>4. at' = [at EXCEPT ![i] = "loop"] /\ port' = [port EXCEPT ![i] = port[i] + 1]
  BY DEF Strdup, NextPort
<1>5. found' \in [Threads -> Seq(Result)]
  <2>1. PICK s \in Copies(i) :
          found' = [found EXCEPT ![i] = Append(@, [port |-> port[i], s_name |-> s])]
    BY DEF Strdup
  <2>2. s \in Ports \cup {Torn}
    BY <2>1 DEF Copies, IInv, TypeOK
  <2>3. [port |-> port[i], s_name |-> s] \in Result
    BY <1>3, <2>2 DEF Result
  <2>4. found \in [Threads -> Seq(Result)]
    BY DEF IInv, TypeOK
  <2>5. Append(found[i], [port |-> port[i], s_name |-> s]) \in Seq(Result)
    BY <2>3, <2>4, AppendProperties
  <2> QED
    BY <2>1, <2>4, <2>5
<1>6. /\ at' \in [Threads -> {"none", "failed", "loop", "connect", "lookup", "strdup", "exit"}]
      /\ port' \in [Threads -> min_port..max_port + 1] /\ Place'
  BY <1>1, <1>2, <1>3, <1>4, MoveThread
<1>7. Counted'
  BY <1>1, <1>2, <1>3, <1>4, SamePassed
<1> QED
  BY <1>1, <1>5, <1>6, <1>7 DEF IInv, TypeOK

\* The round that visits a port is the only one: no other thread has the port
\* in its segment, and this one has not passed it before.
LEMMA SocketStep == ASSUME IInv, NEW i \in Threads, Socket(i) PROVE IInv'
<1>1. /\ at[i] = "loop" /\ port[i] <= seg_max(i)
      /\ visits' = [visits EXCEPT ![port[i]] = @ + 1]
      /\ UNCHANGED <<main, turn, found, servent, printed>>
  BY DEF Socket, Runs
<1>2. /\ at[i] \in Started \ {"exit"} /\ at[i] \notin Busy
      /\ {"loop", "connect"} \subseteq Started /\ "loop" \notin Busy /\ "connect" \in Busy
  BY <1>1 DEF Started, Busy
<1>3. /\ port[i] # port[i] + 1 /\ port[i] \in Ports /\ port[i] \in Int
      /\ seg_min(i) <= port[i] /\ seg_max(i) \in Int
  BY <1>1, <1>2, Running, SegmentBounds
<1>4. \/ /\ at' = [at EXCEPT ![i] = "connect"] /\ port' = [port EXCEPT ![i] = port[i]]
         /\ skipped' = skipped
      \/ /\ at' = [at EXCEPT ![i] = "loop"] /\ port' = [port EXCEPT ![i] = port[i] + 1]
         /\ skipped' = skipped \cup {port[i]}
  BY DEF Socket, NextPort, IInv, TypeOK
<1>5. PICK where \in {"loop", "connect"}, q \in {port[i], port[i] + 1} :
        /\ at' = [at EXCEPT ![i] = where] /\ port' = [port EXCEPT ![i] = q]
        /\ (where = "connect" /\ q = port[i]) \/ (where = "loop" /\ q = port[i] + 1)
  BY <1>4
<1>6. /\ at' \in [Threads -> {"none", "failed", "loop", "connect", "lookup", "strdup", "exit"}]
      /\ port' \in [Threads -> min_port..max_port + 1] /\ Place'
      /\ \A j \in Threads \ {i}, p \in Ports : Passed(j, p)' <=> Passed(j, p)
      /\ \A p \in Ports : Passed(i, p)' <=>
              /\ seg_min(i) <= p /\ p <= seg_max(i)
              /\ p < q \/ (p = q /\ where \in Busy)
  <2>1. where \in Started /\ (where = "exit" => q > seg_max(i))
    BY <1>2, <1>5
  <2>2. where \in Busy => q <= seg_max(i)
    BY <1>1, <1>2, <1>5
  <2> QED
    BY <1>1, <1>2, <1>5, <2>1, <2>2, MoveThread
<1>7. ASSUME NEW p \in Ports
      PROVE  Passed(i, p)' <=> (Passed(i, p) \/ p = port[i])
  <2>1. p \in Int
    BY OptionsAssumption DEF Ports
  <2>2. (p < q \/ (p = q /\ where \in Busy)) <=> (p < port[i] \/ p = port[i])
    BY <1>2, <1>3, <1>5, <2>1
  <2>3. Passed(i, p) <=> seg_min(i) <= p /\ p <= seg_max(i) /\ p < port[i]
    BY <1>2 DEF Passed
  <2> QED
    BY <1>1, <1>3, <1>6, <2>2, <2>3
<1>8. Counted'
  <2>1. visits \in [Ports -> Nat]
    BY DEF IInv, TypeOK
  <2>2. visits[port[i]] = 0
    <3>1. ~ Passed(i, port[i])
      BY <1>2, <1>3 DEF Passed
    <3>2. ASSUME NEW j \in Threads, Passed(j, port[i]) PROVE j = i
      BY <1>1, <1>3, <3>2, SegmentsApart DEF Passed
    <3> QED
      BY <1>3, <3>1, <3>2 DEF IInv, Counted
  <2>3. ASSUME NEW p \in Ports
        PROVE  visits'[p] = IF \E j \in Threads : Passed(j, p)' THEN 1 ELSE 0
    <3>1. CASE p = port[i]
      <4>1. visits'[p] = 1
        BY <1>1, <1>3, <2>1, <2>2, <3>1
      <4>2. Passed(i, p)'
        BY <1>7, <3>1
      <4> QED
        BY <4>1, <4>2
    <3>2. CASE p # port[i]
      <4>1. visits'[p] = visits[p]
        BY <1>1, <2>1, <3>2
      <4>2. \A j \in Threads : Passed(j, p)' <=> Passed(j, p)
        BY <1>6, <1>7, <3>2
      <4>3. visits[p] = IF \E j \in Threads : Passed(j, p) THEN 1 ELSE 0
        BY DEF IInv, Counted
      <4> QED
        BY <4>1, <4>2, <4>3
    <3> QED
      BY <3>1, <3>2
  <2>4. Ports' = Ports /\ Threads' = Threads
    BY DEF Ports, Threads, nthreads, wanted, nports
  <2> QED
    BY <2>3, <2>4 DEF Counted
<1>9. visits' \in [Ports -> Nat] /\ skipped' \subseteq Ports
  BY <1>1, <1>3, <1>4 DEF IInv, TypeOK
<1> QED
  BY <1>1, <1>6, <1>8, <1>9 DEF IInv, TypeOK

LEMMA NextInv == ASSUME IInv, [Next]_vars PROVE IInv'
<1>1. CASE UNCHANGED vars
  BY <1>1 DEF vars, IInv, TypeOK, Place, Counted, Passed, seg_min, seg_max,
              nthreads, port_num_per_seg, wanted, nports
<1>2. CASE Main
  BY <1>2, CreateStep, JoinStep, JoinFailedStep DEF Main
<1>3. ASSUME NEW i \in Threads, Scan(i) PROVE IInv'
  BY <1>3, SocketStep, ExitStep, ConnectStep, LookupStep, StrdupStep DEF Scan
<1> QED
  BY <1>1, <1>2, <1>3 DEF Next

THEOREM Invariant == Spec => []IInv
<1>1. Init => IInv
  BY InitInv
<1>2. IInv /\ [Next]_vars => IInv'
  BY NextInv
<1> QED
  BY <1>1, <1>2, PTL DEF Spec

\* Every state is well typed; in particular a thread's port never leaves the
\* range by more than the one that ends its loop (tcp.c:78).
THEOREM TypeCorrect == Spec => []TypeOK
<1>1. IInv => TypeOK
  BY DEF IInv
<1> QED
  BY <1>1, Invariant, PTL

\* Whatever the range, the number of threads asked for and the interleaving, no
\* port is scanned by two threads (tcp.c:197-206).
THEOREM ScannedOnce == Spec => []VisitedOnce
<1>1. IInv => VisitedOnce
  <2> SUFFICES ASSUME IInv, NEW p \in Ports PROVE visits[p] <= 1
    BY DEF VisitedOnce
  <2>1. visits[p] \in {0, 1}
    BY DEF IInv, Counted
  <2> QED
    BY <2>1
<1> QED
  BY <1>1, Invariant, PTL

\* A range that starts at 1 is scanned whole before main prints its number of
\* ports (tcp.c:229): the segments overlook ports only when min_port > 1.
THEOREM ScannedAll == ASSUME min_port = 1 PROVE Spec => []AllScanned
<1>1. IInv => AllScanned
  <2> SUFFICES ASSUME IInv, main = "end", NEW p \in Ports PROVE visits[p] >= 1
    BY DEF AllScanned
  <2>1. PICK i \in Threads : seg_min(i) <= p /\ p <= seg_max(i)
    BY SegmentsCover
  <2>2. at[i] = "exit" /\ port[i] > seg_max(i)
    BY DEF IInv, Place
  <2>3. p \in Int /\ seg_max(i) \in Int /\ port[i] \in Int
    BY SegmentBounds, OptionsAssumption DEF Ports, IInv, TypeOK
  <2>4. Passed(i, p)
    BY <2>1, <2>2, <2>3 DEF Passed, Started
  <2>5. visits[p] = 1
    BY <2>4 DEF IInv, Counted
  <2> QED
    BY <2>5
<1> QED
  BY <1>1, Invariant, PTL

------------------------------------------------------------------------------
(* The report.  A second invariant, on top of the first: the list of a       *)
(* thread holds, in order, the ports it has done with that are open and      *)
(* named and got a socket, and what main has printed is the lists of the     *)
(* threads it has joined.                                                    *)

Ordered(s) == \A k, l \in DOMAIN s : k < l => s[k].port < s[l].port
PortsIn(s) == {s[k].port : k \in DOMAIN s}

Done(i, p) == at[i] \in Started /\ seg_min(i) <= p /\ p <= seg_max(i) /\ p < port[i]

ThreadReport(i) ==
  /\ Ordered(found[i])
  /\ PortsIn(found[i]) = {p \in Ports : Done(i, p) /\ p \in Open /\ p \in Named /\ p \notin skipped}
  /\ at[i] \in {"lookup", "strdup"} => port[i] \in Open
  /\ at[i] = "strdup" => port[i] \in Named
  /\ at[i] \in Busy => port[i] \notin skipped

Joined(i) == (main = "join" /\ i < turn) \/ main = "end"

MainReport ==
  /\ Ordered(printed)
  /\ main = "create" => printed = <<>>
  /\ main \in {"join", "end"} =>
       PortsIn(printed) = UNION {PortsIn(found[i]) : i \in {j \in Threads : Joined(j)}}

SkippedDone == \A p \in skipped : \E i \in Threads : Done(i, p)

ReportInv == IInv /\ (\A i \in Threads : ThreadReport(i)) /\ MainReport /\ SkippedDone

LEMMA SegmentsConstant ==
  ASSUME NEW i
  PROVE  seg_min(i)' = seg_min(i) /\ seg_max(i)' = seg_max(i) /\ Threads' = Threads /\ Ports' = Ports
BY DEF seg_min, seg_max, Threads, Ports, nthreads, port_num_per_seg, wanted, nports

\* What one list keeps when another, of greater ports, is put after it.
LEMMA OrderedConcat ==
  ASSUME NEW s \in Seq(Result), NEW t \in Seq(Result), Ordered(s), Ordered(t),
         \A p \in PortsIn(s), q \in PortsIn(t) : p < q
  PROVE  Ordered(s \o t) /\ PortsIn(s \o t) = PortsIn(s) \cup PortsIn(t)
<1> DEFINE u == s \o t
<1>1. /\ u \in Seq(Result) /\ Len(u) = Len(s) + Len(t) /\ Len(s) \in Nat /\ Len(t) \in Nat
      /\ \A k \in 1..Len(s) + Len(t) : u[k] = IF k <= Len(s) THEN s[k] ELSE t[k - Len(s)]
  BY ConcatProperties, LenProperties
<1>2. DOMAIN s = 1..Len(s) /\ DOMAIN t = 1..Len(t) /\ DOMAIN u = 1..Len(s) + Len(t)
  BY <1>1, LenProperties
<1> HIDE DEF u
<1>3. ASSUME NEW k \in DOMAIN u
      PROVE  \/ k \in DOMAIN s /\ u[k] = s[k]
             \/ k - Len(s) \in DOMAIN t /\ k \notin DOMAIN s /\ u[k] = t[k - Len(s)]
  BY <1>1, <1>2
<1>4. \A k \in DOMAIN s : k \in DOMAIN u /\ u[k] = s[k]
  BY <1>1, <1>2
<1>5. \A k \in DOMAIN t : k + Len(s) \in DOMAIN u /\ u[k + Len(s)] = t[k]
  <2> SUFFICES ASSUME NEW k \in DOMAIN t
               PROVE  k + Len(s) \in DOMAIN u /\ u[k + Len(s)] = t[k]
    OBVIOUS
  <2>1. k + Len(s) \in DOMAIN u /\ ~ (k + Len(s) <= Len(s)) /\ (k + Len(s)) - Len(s) = k
    BY <1>1, <1>2
  <2> QED
    BY <2>1, <1>1, <1>2
<1>6. PortsIn(u) = PortsIn(s) \cup PortsIn(t)
  BY <1>3, <1>4, <1>5 DEF PortsIn
<1>7. ASSUME NEW k \in DOMAIN u, NEW l \in DOMAIN u, k < l PROVE u[k].port < u[l].port
  <2>1. CASE l \in DOMAIN s
    <3>1. k \in DOMAIN s
      BY <1>1, <1>2, <1>7, <2>1
    <3> QED
      BY <1>4, <1>7, <2>1, <3>1 DEF Ordered
  <2>2. CASE k \in DOMAIN s /\ l \notin DOMAIN s
    BY <1>3, <2>2 DEF PortsIn
  <2>3. CASE k \notin DOMAIN s /\ l \notin DOMAIN s
    <3>1. k - Len(s) \in DOMAIN t /\ l - Len(s) \in DOMAIN t
          /\ u[k] = t[k - Len(s)] /\ u[l] = t[l - Len(s)]
      BY <1>3, <2>3
    <3>2. k - Len(s) < l - Len(s)
      BY <1>1, <1>2, <1>7
    <3> QED
      BY <3>1, <3>2 DEF Ordered
  <2> QED
    BY <2>1, <2>2, <2>3
<1> QED
  BY <1>6, <1>7 DEF Ordered, u

LEMMA OrderedAppend ==
  ASSUME NEW s \in Seq(Result), NEW r \in Result, Ordered(s),
         \A p \in PortsIn(s) : p < r.port
  PROVE  Ordered(Append(s, r)) /\ PortsIn(Append(s, r)) = PortsIn(s) \cup {r.port}
<1> DEFINE u == Append(s, r)
<1>1. /\ Len(u) = Len(s) + 1 /\ u[Len(s) + 1] = r /\ Len(s) \in Nat
      /\ \A k \in 1..Len(s) : u[k] = s[k]
      /\ u \in Seq(Result)
  BY AppendProperties, LenProperties
<1>2. DOMAIN s = 1..Len(s) /\ DOMAIN u = 1..Len(s) + 1
  BY <1>1, LenProperties
<1> HIDE DEF u
<1>3. DOMAIN u = DOMAIN s \cup {Len(s) + 1} /\ \A k \in DOMAIN s : u[k] = s[k] /\ k < Len(s) + 1
  BY <1>1, <1>2
<1>4. PortsIn(u) = PortsIn(s) \cup {r.port}
  BY <1>1, <1>3 DEF PortsIn
<1>5. ASSUME NEW k \in DOMAIN u, NEW l \in DOMAIN u, k < l PROVE u[k].port < u[l].port
  <2>1. k \in DOMAIN s
    BY <1>1, <1>2, <1>5
  <2>2. CASE l \in DOMAIN s
    BY <1>3, <1>5, <2>1, <2>2 DEF Ordered
  <2>3. CASE l = Len(s) + 1
    BY <1>1, <1>3, <2>1, <2>3 DEF PortsIn
  <2> QED
    BY <1>3, <2>2, <2>3
<1> QED
  BY <1>4, <1>5 DEF Ordered, u

\* A port is done with by the thread in whose segment it lies, and no other.
LEMMA DoneOnce ==
  ASSUME IInv, NEW i \in Threads, NEW j \in Threads, NEW p \in Int, Done(j, p),
         seg_min(i) <= p, p <= seg_max(i)
  PROVE  i = j
BY SegmentsApart DEF Done

\* What a step of thread i changes in the ports that are done with.
LEMMA MoveDone ==
  ASSUME IInv, NEW i \in Threads, NEW where \in Started, NEW q \in Int,
         at' = [at EXCEPT ![i] = where], port' = [port EXCEPT ![i] = q]
  PROVE  /\ \A j \in Threads \ {i} : at'[j] = at[j] /\ port'[j] = port[j]
         /\ at'[i] = where /\ port'[i] = q
         /\ \A j \in Threads \ {i}, p \in Int : Done(j, p)' <=> Done(j, p)
         /\ \A p \in Int : Done(i, p)' <=> seg_min(i) <= p /\ p <= seg_max(i) /\ p < q
<1>1. at \in [Threads -> {"none", "failed", "loop", "connect", "lookup", "strdup", "exit"}]
      /\ port \in [Threads -> min_port..max_port + 1]
  BY DEF IInv, TypeOK
<1>2. at'[i] = where /\ port'[i] = q
  BY <1>1
<1>3. \A j \in Threads \ {i} : at'[j] = at[j] /\ port'[j] = port[j]
  BY <1>1
<1>4. ASSUME NEW j \in Threads \ {i}, NEW p \in Int
      PROVE  Done(j, p)' <=> Done(j, p)
  BY <1>3, SegmentsConstant DEF Done
<1>5. ASSUME NEW p \in Int
      PROVE  Done(i, p)' <=> seg_min(i) <= p /\ p <= seg_max(i) /\ p < q
  BY <1>2, SegmentsConstant DEF Done
<1> QED
  BY <1>2, <1>3, <1>4, <1>5

\* A step of thread i that moves it within its segment keeps the whole report
\* when its own list is right again: the other threads' lists are not touched,
\* and a port that i skips is none of theirs.
LEMMA ReportKept ==
  ASSUME ReportInv, NEW i \in Threads, NEW where \in Started, NEW q \in {port[i], port[i] + 1},
         at' = [at EXCEPT ![i] = where], port' = [port EXCEPT ![i] = q],
         main' = main, turn' = turn, printed' = printed,
         at[i] \in Started \ {"exit"}, port[i] \in Ports \/ q = port[i],
         \A j \in Threads \ {i} : found'[j] = found[j],
         q = port[i] + 1 => port[i] <= seg_max(i),
         skipped' = skipped \/ (skipped' = skipped \cup {port[i]} /\ q = port[i] + 1),
         IInv', ThreadReport(i)'
  PROVE  ReportInv'
<1>1. /\ port[i] \in Int /\ seg_min(i) <= port[i] /\ q \in Int
      /\ port[i] <= seg_max(i) => port[i] \in Ports
  BY Running, OptionsAssumption DEF ReportInv, IInv, Ports
<1>2. /\ \A j \in Threads \ {i} : at'[j] = at[j] /\ port'[j] = port[j]
      /\ at'[i] = where /\ port'[i] = q
      /\ \A j \in Threads \ {i}, p \in Int : Done(j, p)' <=> Done(j, p)
      /\ \A p \in Int : Done(i, p)' <=> seg_min(i) <= p /\ p <= seg_max(i) /\ p < q
  BY <1>1, MoveDone DEF ReportInv
<1>3. Ports \subseteq Int /\ skipped \subseteq Ports
  BY OptionsAssumption DEF Ports, ReportInv, IInv, TypeOK
<1>4. ASSUME NEW j \in Threads \ {i}
      PROVE  ThreadReport(j)'
  <2>1. \A p \in Int : p = port[i] /\ q = port[i] + 1 => ~ Done(j, p)
    BY <1>1, DoneOnce DEF ReportInv
  <2>2. at[j] \in Busy /\ q = port[i] + 1 => port[j] # port[i]
    <3>1. at[j] \in Busy => seg_min(j) <= port[j] /\ port[j] <= seg_max(j)
      BY DEF ReportInv, IInv, Place, Started, Busy
    <3> QED
      BY <1>1, <3>1, SegmentsApart
  <2>3. \A p \in Ports : (Done(j, p) /\ p \notin skipped)' <=> Done(j, p) /\ p \notin skipped
    BY <1>2, <1>3, <2>1
  <2>4. at[j] \in Busy /\ port[j] \notin skipped => port[j] \notin skipped'
    BY <2>2
  <2>5. PortsIn(found[j])' = {p \in Ports : Done(j, p)' /\ p \in Open /\ p \in Named /\ p \notin skipped'}
    <3>1. PortsIn(found[j])' = PortsIn(found[j])
      BY DEF PortsIn
    <3>2. PortsIn(found[j]) = {p \in Ports : Done(j, p) /\ p \in Open /\ p \in Named /\ p \notin skipped}
      BY DEF ReportInv, ThreadReport
    <3> QED
      BY <2>3, <3>1, <3>2
  <2>6. Ordered(found[j])'
    BY DEF ReportInv, ThreadReport, Ordered
  <2> QED
    BY <1>2, <2>4, <2>5, <2>6, SegmentsConstant DEF ReportInv, ThreadReport
<1>5. MainReport'
  <2>1. ASSUME NEW j \in Threads, Joined(j) PROVE j # i
    BY <2>1 DEF Joined, ReportInv, IInv, Place, Started, Busy
  <2>2. \A j \in Threads : Joined(j)' <=> Joined(j)
    BY DEF Joined
  <2>3. \A j \in Threads : Joined(j) => found'[j] = found[j]
    BY <2>1
  <2>4. UNION {PortsIn(found[j]) : j \in {l \in Threads : Joined(l)}}
          = UNION {PortsIn(found'[j]) : j \in {l \in Threads : Joined(l)'}}
    BY <2>2, <2>3
  <2>5. /\ Ordered(printed)' /\ PortsIn(printed)' = PortsIn(printed)
        /\ \A j \in Threads : PortsIn(found'[j]) = PortsIn(found[j])'
    BY DEF ReportInv, MainReport, Ordered, PortsIn
  <2> QED
    BY <2>4, <2>5, SegmentsConstant DEF ReportInv, MainReport
<1>6. SkippedDone'
  <2> SUFFICES ASSUME NEW p \in skipped' PROVE \E j \in Threads : Done(j, p)'
    BY SegmentsConstant DEF SkippedDone
  <2>1. CASE p \in skipped
    <3>1. PICK j \in Threads : Done(j, p)
      BY <2>1 DEF ReportInv, SkippedDone
    <3>2. p \in Int /\ seg_min(j) <= p /\ p <= seg_max(j) /\ p < port[j]
      BY <2>1, <3>1, <1>3 DEF Done
    <3>3. Done(j, p)'
      <4>1. CASE j = i
        BY <1>1, <1>2, <3>2, <4>1
      <4>2. CASE j # i
        BY <1>2, <3>1, <3>2, <4>2
      <4> QED
        BY <4>1, <4>2
    <3> QED
      BY <3>3
  <2>2. CASE p = port[i] /\ q = port[i] + 1
    BY <1>1, <1>2, <2>2
  <2> QED
    BY <2>1, <2>2
<1> QED
  BY <1>4, <1>5, <1>6, SegmentsConstant DEF ReportInv

\* A list that does not change stays right when the thread has not yet done with
\* its port, or leaves it for a reason that keeps it out of the report.
LEMMA ListKept ==
  ASSUME ReportInv, NEW i \in Threads, NEW where \in Started, NEW q \in {port[i], port[i] + 1},
         at' = [at EXCEPT ![i] = where], port' = [port EXCEPT ![i] = q],
         at[i] \in Started \ {"exit"}, found' = found, skipped' \in {skipped, skipped \cup {port[i]}},
         q = port[i] + 1 => where = "loop" /\ (port[i] \notin Open \cap Named \/ port[i] \in skipped'),
         q = port[i] => skipped' = skipped,
         where \in Busy => port[i] \notin skipped,
         where \in {"lookup", "strdup"} => port[i] \in Open,
         where = "strdup" => port[i] \in Named
  PROVE  ThreadReport(i)'
<1>1. port[i] \in Int /\ q \in Int /\ port[i] # port[i] + 1
  BY Running DEF ReportInv
<1>2. /\ at'[i] = where /\ port'[i] = q
      /\ \A p \in Int : Done(i, p)' <=> seg_min(i) <= p /\ p <= seg_max(i) /\ p < q
  BY <1>1, MoveDone DEF ReportInv
<1>3. Ports \subseteq Int
  BY OptionsAssumption DEF Ports
<1>4. ASSUME NEW p \in Ports, p \in Open, p \in Named
      PROVE  (Done(i, p)' /\ p \notin skipped') <=> (Done(i, p) /\ p \notin skipped)
  <2>1. Done(i, p) <=> seg_min(i) <= p /\ p <= seg_max(i) /\ p < port[i]
    BY DEF Done
  <2>2. CASE q = port[i]
    BY <1>1, <1>2, <1>3, <2>1, <2>2
  <2>3. CASE q = port[i] + 1
    <3>1. p = port[i] => p \in skipped'
      BY <1>4, <2>3, <1>1
    <3>2. p # port[i] => (p < q <=> p < port[i]) /\ (p \in skipped' <=> p \in skipped)
      BY <1>1, <1>3, <2>3
    <3> QED
      BY <1>1, <1>2, <1>3, <2>1, <3>1, <3>2
  <2> QED
    BY <2>2, <2>3
<1>5. Ordered(found[i])' /\ PortsIn(found[i])' = PortsIn(found[i])
  BY DEF ReportInv, ThreadReport, Ordered, PortsIn
<1>6. PortsIn(found[i])' = {p \in Ports : Done(i, p)' /\ p \in Open /\ p \in Named /\ p \notin skipped'}
  <2>1. PortsIn(found[i]) = {p \in Ports : Done(i, p) /\ p \in Open /\ p \in Named /\ p \notin skipped}
    BY DEF ReportInv, ThreadReport
  <2> QED
    BY <1>4, <1>5, <2>1
<1>7. where \in Busy => q = port[i]
  BY DEF Busy
<1>8. /\ where \in {"lookup", "strdup"} => q \in Open
      /\ where = "strdup" => q \in Named
      /\ where \in Busy => q \notin skipped'
  BY <1>1, <1>7 DEF Busy
<1> QED
  BY <1>2, <1>5, <1>6, <1>8, SegmentsConstant DEF ThreadReport

\* The facts about a thread between two steps of its loop.
LEMMA Scanning ==
  ASSUME ReportInv, NEW i \in Threads, at[i] \in Started \ {"exit"}
  PROVE  /\ port[i] \in Int /\ port[i] # port[i] + 1
         /\ at[i] \in Busy => port[i] \in Ports /\ port[i] <= seg_max(i) /\ port[i] \notin skipped
         /\ at[i] \in {"lookup", "strdup"} => port[i] \in Open
         /\ at[i] = "strdup" => port[i] \in Named
         /\ port[i] <= seg_max(i) => port[i] \in Ports
         /\ port = [port EXCEPT ![i] = port[i]] /\ at = [at EXCEPT ![i] = at[i]]
         /\ at[i] = "loop" => port[i] \notin skipped \/ port[i] > seg_max(i)
<1>1. IInv /\ ThreadReport(i)
  BY DEF ReportInv
<1>2. port[i] \in Int /\ port[i] # port[i] + 1 /\ seg_max(i) \in Int /\ seg_min(i) <= port[i]
      /\ (at[i] \in Busy => port[i] \in Ports /\ port[i] <= seg_max(i))
      /\ (port[i] <= seg_max(i) => port[i] \in Ports)
  BY <1>1, Running, SegmentBounds
<1>3. at = [at EXCEPT ![i] = at[i]] /\ port = [port EXCEPT ![i] = port[i]]
  BY <1>1 DEF IInv, TypeOK
<1>4. ASSUME port[i] <= seg_max(i), port[i] \in skipped PROVE FALSE
  <2>1. PICK j \in Threads : Done(j, port[i])
    BY <1>4 DEF ReportInv, SkippedDone
  <2>2. j = i
    BY <1>1, <1>2, <1>4, <2>1, DoneOnce
  <2> QED
    BY <1>2, <2>1, <2>2 DEF Done
<1> QED
  BY <1>1, <1>2, <1>3, <1>4 DEF ThreadReport

LEMMA SocketReport == ASSUME ReportInv, NEW i \in Threads, Socket(i) PROVE ReportInv'
<1>1. /\ at[i] = "loop" /\ port[i] <= seg_max(i)
      /\ UNCHANGED <<main, turn, found, servent, printed>>
  BY DEF Socket, Runs
<1>2. at[i] \in Started \ {"exit"} /\ {"loop", "connect"} \subseteq Started /\ "loop" \notin Busy
  BY <1>1 DEF Started, Busy
<1>3. /\ port[i] \in Int /\ port[i] # port[i] + 1 /\ port[i] \in Ports
      /\ port = [port EXCEPT ![i] = port[i]] /\ port[i] \notin skipped
  <2>1. seg_max(i) \in Int
    BY SegmentBounds
  <2> QED
    BY <1>1, <1>2, <2>1, Scanning
<1>4. \/ /\ at' = [at EXCEPT ![i] = "connect"] /\ port' = [port EXCEPT ![i] = port[i]]
         /\ skipped' = skipped
      \/ /\ at' = [at EXCEPT ![i] = "loop"] /\ port' = [port EXCEPT ![i] = port[i] + 1]
         /\ skipped' = skipped \cup {port[i]}
  BY <1>3 DEF Socket, NextPort
<1>5. PICK where \in {"loop", "connect"}, q \in {port[i], port[i] + 1} :
        /\ at' = [at EXCEPT ![i] = where] /\ port' = [port EXCEPT ![i] = q]
        /\ \/ where = "connect" /\ q = port[i] /\ skipped' = skipped
           \/ where = "loop" /\ q = port[i] + 1 /\ skipped' = skipped \cup {port[i]}
  BY <1>4
<1>6. IInv'
  BY SocketStep DEF ReportInv
<1>7. ThreadReport(i)'
  BY <1>1, <1>2, <1>3, <1>5, ListKept
<1> QED
  BY <1>1, <1>2, <1>3, <1>5, <1>6, <1>7, ReportKept

LEMMA ExitReport == ASSUME ReportInv, NEW i \in Threads, Exit(i) PROVE ReportInv'
<1>1. /\ at[i] = "loop" /\ at' = [at EXCEPT ![i] = "exit"]
      /\ UNCHANGED <<main, turn, port, found, servent, skipped, printed, visits>>
  BY DEF Exit, Runs
<1>2. at[i] \in Started \ {"exit"} /\ "exit" \in Started /\ "exit" \notin Busy
  BY <1>1 DEF Started, Busy
<1>3. port[i] \in Int /\ port[i] # port[i] + 1 /\ port' = [port EXCEPT ![i] = port[i]]
  BY <1>1, <1>2, Scanning
<1>4. IInv'
  BY ExitStep DEF ReportInv
<1>5. ThreadReport(i)'
  BY <1>1, <1>2, <1>3, ListKept
<1> QED
  BY <1>1, <1>2, <1>3, <1>4, <1>5, ReportKept

LEMMA ConnectReport == ASSUME ReportInv, NEW i \in Threads, Connect(i) PROVE ReportInv'
<1>1. /\ at[i] = "connect" /\ UNCHANGED <<main, turn, found, servent, skipped, printed, visits>>
  BY DEF Connect, Runs
<1>2. /\ at[i] \in Started \ {"exit"} /\ at[i] \in Busy
      /\ {"loop", "lookup"} \subseteq Started /\ "loop" \notin Busy
  BY <1>1 DEF Started, Busy
<1>3. /\ port[i] \in Int /\ port[i] # port[i] + 1 /\ port[i] \in Ports
      /\ port[i] <= seg_max(i) /\ port = [port EXCEPT ![i] = port[i]] /\ port[i] \notin skipped
  BY <1>2, Scanning
<1>4. PICK where \in {"loop", "lookup"}, q \in {port[i], port[i] + 1} :
        /\ at' = [at EXCEPT ![i] = where] /\ port' = [port EXCEPT ![i] = q]
        /\ \/ where = "lookup" /\ q = port[i] /\ port[i] \in Open
           \/ where = "loop" /\ q = port[i] + 1 /\ port[i] \notin Open
  BY <1>3 DEF Connect, NextPort
<1>5. IInv'
  BY ConnectStep DEF ReportInv
<1>6. ThreadReport(i)'
  BY <1>1, <1>2, <1>3, <1>4, ListKept
<1> QED
  BY <1>1, <1>2, <1>3, <1>4, <1>5, <1>6, ReportKept

LEMMA LookupReport == ASSUME ReportInv, NEW i \in Threads, Lookup(i) PROVE ReportInv'
<1>1. /\ at[i] = "lookup" /\ UNCHANGED <<main, turn, visits, found, skipped, printed>>
  BY DEF Lookup, Runs
<1>2. /\ at[i] \in Started \ {"exit"} /\ at[i] \in Busy
      /\ {"loop", "strdup"} \subseteq Started /\ "loop" \notin Busy
  BY <1>1 DEF Started, Busy
<1>3. /\ port[i] \in Int /\ port[i] # port[i] + 1 /\ port[i] \in Ports /\ port[i] \in Open
      /\ port[i] <= seg_max(i) /\ port = [port EXCEPT ![i] = port[i]] /\ port[i] \notin skipped
  BY <1>1, <1>2, Scanning
<1>4. PICK where \in {"loop", "strdup"}, q \in {port[i], port[i] + 1} :
        /\ at' = [at EXCEPT ![i] = where] /\ port' = [port EXCEPT ![i] = q]
        /\ \/ where = "strdup" /\ q = port[i] /\ port[i] \in Named
           \/ where = "loop" /\ q = port[i] + 1 /\ port[i] \notin Named
  BY <1>3 DEF Lookup, NextPort
<1>5. IInv'
  BY LookupStep DEF ReportInv
<1>6. ThreadReport(i)'
  BY <1>1, <1>2, <1>3, <1>4, ListKept
<1> QED
  BY <1>1, <1>2, <1>3, <1>4, <1>5, <1>6, ReportKept

\* The one step that adds to a list: the port is greater than those in it.
LEMMA StrdupReport == ASSUME ReportInv, NEW i \in Threads, Strdup(i) PROVE ReportInv'
<1>1. /\ at[i] = "strdup" /\ UNCHANGED <<main, turn, servent, skipped, printed, visits>>
      /\ at' = [at EXCEPT ![i] = "loop"] /\ port' = [port EXCEPT ![i] = port[i] + 1]
  BY DEF Strdup, Runs, NextPort
<1>2. /\ at[i] \in Started \ {"exit"} /\ at[i] \in Busy
      /\ "loop" \in Started /\ "loop" \notin Busy
  BY <1>1 DEF Started, Busy
<1>3. /\ port[i] \in Int /\ port[i] \in Ports /\ port[i] \in Open \cap Named
      /\ port[i] <= seg_max(i) /\ port[i] \notin skipped
  BY <1>1, <1>2, Scanning
<1>4. PICK r \in Result : r.port = port[i] /\ found' = [found EXCEPT ![i] = Append(@, r)]
  <2>1. PICK s \in Copies(i) :
          found' = [found EXCEPT ![i] = Append(@, [port |-> port[i], s_name |-> s])]
    BY DEF Strdup
  <2>2. s \in Ports \cup {Torn}
    BY <2>1 DEF Copies, ReportInv, IInv, TypeOK
  <2>3. [port |-> port[i], s_name |-> s] \in Result
    BY <1>3, <2>2 DEF Result
  <2> QED
    BY <2>1, <2>3
<1>5. found \in [Threads -> Seq(Result)]
  BY DEF ReportInv, IInv, TypeOK
<1>6. /\ found'[i] = Append(found[i], r)
      /\ \A j \in Threads \ {i} : found'[j] = found[j]
  BY <1>4, <1>5
<1>7. /\ Ordered(found[i])
      /\ PortsIn(found[i]) = {p \in Ports : Done(i, p) /\ p \in Open /\ p \in Named /\ p \notin skipped}
  BY DEF ReportInv, ThreadReport
<1>8. Ordered(found'[i]) /\ PortsIn(found'[i]) = PortsIn(found[i]) \cup {port[i]}
  <2>1. \A p \in PortsIn(found[i]) : p < r.port
    BY <1>4, <1>7 DEF Done
  <2> QED
    BY <1>4, <1>5, <1>6, <1>7, <2>1, OrderedAppend
<1>9. /\ at'[i] = "loop" /\ port'[i] = port[i] + 1
      /\ \A p \in Int : Done(i, p)' <=> seg_min(i) <= p /\ p <= seg_max(i) /\ p < port[i] + 1
  <2> DEFINE q == port[i] + 1
  <2>1. q \in Int /\ IInv /\ port' = [port EXCEPT ![i] = q]
    BY <1>1, <1>3 DEF ReportInv
  <2> HIDE DEF q
  <2>2. /\ at'[i] = "loop" /\ port'[i] = q
        /\ \A p \in Int : Done(i, p)' <=> seg_min(i) <= p /\ p <= seg_max(i) /\ p < q
    BY <1>1, <1>2, <2>1, MoveDone
  <2> QED
    BY <2>2 DEF q
<1>10. ThreadReport(i)'
  <2>1. ASSUME NEW p \in Ports
        PROVE  Done(i, p)' <=> Done(i, p) \/ p = port[i]
    <3>1. p \in Int /\ seg_min(i) <= port[i]
      BY <1>2, Running, OptionsAssumption DEF Ports, ReportInv
    <3>2. p < port[i] + 1 <=> p < port[i] \/ p = port[i]
      BY <1>3, <3>1
    <3>3. Done(i, p) <=> seg_min(i) <= p /\ p <= seg_max(i) /\ p < port[i]
      BY <1>2 DEF Done
    <3> QED
      BY <1>3, <1>9, <3>1, <3>2, <3>3
  <2>2. PortsIn(found'[i]) = {p \in Ports : Done(i, p)' /\ p \in Open /\ p \in Named /\ p \notin skipped'}
    BY <1>1, <1>3, <1>7, <1>8, <2>1
  <2>3. Ordered(found[i])' /\ PortsIn(found[i])' = PortsIn(found'[i])
    BY <1>8 DEF Ordered, PortsIn
  <2> QED
    BY <1>2, <1>9, <2>2, <2>3, SegmentsConstant DEF ThreadReport
<1>11. IInv'
  BY StrdupStep DEF ReportInv
<1> QED
  BY <1>1, <1>2, <1>3, <1>6, <1>10, <1>11, ReportKept

\* A thread that is created has done with no port, nor has one that is not.
LEMMA CreateReport == ASSUME ReportInv, Create PROVE ReportInv'
<1>1. /\ turn \in Threads /\ main = "create" /\ at[turn] = "none" /\ turn \in Nat
      /\ UNCHANGED <<found, servent, skipped, printed, visits>>
  <2>1. turn \in Threads /\ main = "create" /\ turn \in Nat
    BY Division DEF Create, ReportInv, IInv, TypeOK, Threads
  <2>2. turn >= turn
    BY <2>1
  <2> QED
    BY <2>1, <2>2 DEF Create, ReportInv, IInv, Place
<1>2. /\ at' \in {[at EXCEPT ![turn] = "loop"], [at EXCEPT ![turn] = "failed"]}
      /\ port' \in {port, [port EXCEPT ![turn] = seg_min(turn)]}
      /\ at' = [at EXCEPT ![turn] = "loop"] => port' = [port EXCEPT ![turn] = seg_min(turn)]
  BY <1>1 DEF Create, ReportInv, IInv, TypeOK
<1>3. /\ main' \in {"create", "join"} /\ turn' \in Nat
      /\ main' = "join" => turn' = 0
  BY <1>1, Division DEF Create, Threads
<1>4. /\ at \in [Threads -> {"none", "failed", "loop", "connect", "lookup", "strdup", "exit"}]
      /\ port \in [Threads -> min_port..max_port + 1]
  BY DEF ReportInv, IInv, TypeOK
<1>5. Ports \subseteq Int /\ skipped \subseteq Ports
  BY OptionsAssumption DEF Ports, ReportInv, IInv, TypeOK
<1>6. ASSUME NEW j \in Threads \ {turn}
      PROVE  at'[j] = at[j] /\ port'[j] = port[j]
  BY <1>1, <1>2, <1>4
<1>7. /\ at'[turn] \in {"loop", "failed"}
      /\ at'[turn] = "loop" => port'[turn] = seg_min(turn)
  BY <1>1, <1>2, <1>4
<1>8. ASSUME NEW j \in Threads, NEW p \in Int
      PROVE  Done(j, p)' <=> Done(j, p)
  <2>1. CASE j = turn
    <3>1. ~ Done(j, p)
      BY <1>1, <2>1 DEF Done, Started, Busy
    <3>2. seg_min(turn) \in Int
      BY <1>1, SegmentBounds, OptionsAssumption
    <3>3. ~ Done(j, p)'
      BY <1>7, <2>1, <3>2, SegmentsConstant DEF Done, Started, Busy
    <3> QED
      BY <3>1, <3>3
  <2>2. CASE j # turn
    BY <1>6, <2>2, SegmentsConstant DEF Done
  <2> QED
    BY <2>1, <2>2
<1>9. ASSUME NEW j \in Threads
      PROVE  ThreadReport(j)'
  <2>1. Ordered(found[j])' /\ PortsIn(found[j])' = PortsIn(found[j])
    BY <1>1 DEF ReportInv, ThreadReport, Ordered, PortsIn
  <2>2. PortsIn(found[j])' = {p \in Ports : Done(j, p)' /\ p \in Open /\ p \in Named /\ p \notin skipped'}
    <3>1. PortsIn(found[j]) = {p \in Ports : Done(j, p) /\ p \in Open /\ p \in Named /\ p \notin skipped}
      BY DEF ReportInv, ThreadReport
    <3> QED
      BY <1>1, <1>5, <1>8, <2>1, <3>1
  <2>3. at'[j] \in Busy => j # turn
    BY <1>7 DEF Busy
  <2> QED
    BY <1>1, <1>6, <2>1, <2>2, <2>3, SegmentsConstant DEF ReportInv, ThreadReport, Busy
<1>10. MainReport'
  <2>1. printed = <<>> /\ printed' = <<>>
    BY <1>1 DEF ReportInv, MainReport
  <2>2. \A j \in Threads : ~ Joined(j)'
    BY <1>3, Division DEF Joined, Threads
  <2>3. Ordered(printed)' /\ PortsIn(printed)' = {}
    BY <2>1 DEF Ordered, PortsIn
  <2> QED
    BY <2>1, <2>2, <2>3, SegmentsConstant DEF MainReport
<1>11. SkippedDone'
  BY <1>1, <1>5, <1>8, SegmentsConstant DEF ReportInv, SkippedDone
<1>12. IInv'
  BY CreateStep DEF ReportInv
<1> QED
  BY <1>9, <1>10, <1>11, <1>12, SegmentsConstant DEF ReportInv

\* A step of main that leaves the threads as they are.
LEMMA ThreadsKept ==
  ASSUME ReportInv, UNCHANGED <<at, port, found, skipped>>
  PROVE  (\A i \in Threads : ThreadReport(i))' /\ SkippedDone'
<1>1. \A i \in Threads, p \in skipped \cup Ports : Done(i, p)' <=> Done(i, p)
  BY SegmentsConstant DEF Done
<1>2. ASSUME NEW i \in Threads PROVE ThreadReport(i)'
  <2>1. Ordered(found[i])' /\ PortsIn(found[i])' = PortsIn(found[i])
    BY DEF ReportInv, ThreadReport, Ordered, PortsIn
  <2>2. PortsIn(found[i])' = {p \in Ports : Done(i, p)' /\ p \in Open /\ p \in Named /\ p \notin skipped'}
    BY <1>1, <2>1 DEF ReportInv, ThreadReport
  <2> QED
    BY <2>1, <2>2, SegmentsConstant DEF ReportInv, ThreadReport
<1> QED
  BY <1>1, <1>2, SegmentsConstant DEF ReportInv, SkippedDone

\* main appends the list of the next thread, whose segment comes after those of
\* the threads it has joined.
LEMMA JoinReport == ASSUME ReportInv, Join PROVE ReportInv'
<1>1. /\ turn \in Threads /\ main = "join" /\ UNCHANGED <<at, port, found, servent, skipped, visits>>
      /\ printed' = printed \o found[turn]
  BY DEF Join, ReportInv, IInv, TypeOK
<1>2. \/ turn + 1 < nthreads /\ turn' = turn + 1 /\ main' = "join"
      \/ turn + 1 >= nthreads /\ turn' = turn /\ main' = "end"
  BY <1>1, Division DEF Join, Threads
<1>3. \A j \in Threads : Joined(j) <=> j < turn
  BY <1>1 DEF Joined
<1>4. \A j \in Threads : Joined(j)' <=> Joined(j) \/ j = turn
  <2> SUFFICES ASSUME NEW j \in Threads PROVE Joined(j)' <=> j < turn \/ j = turn
    BY <1>3
  <2>1. j \in Nat /\ turn \in Nat /\ j <= nthreads - 1 /\ nthreads \in Nat
    BY <1>1, Division DEF Threads
  <2> QED
    BY <1>2, <2>1 DEF Joined
<1>5. \A j \in Threads : /\ Ordered(found[j])
                         /\ \A p \in PortsIn(found[j]) : p \in Int /\ seg_min(j) <= p /\ p <= seg_max(j)
  BY OptionsAssumption DEF ReportInv, ThreadReport, Done, Ports
<1>6. /\ Ordered(printed)
      /\ PortsIn(printed) = UNION {PortsIn(found[j]) : j \in {l \in Threads : Joined(l)}}
  BY <1>1 DEF ReportInv, MainReport
<1>7. ASSUME NEW p \in PortsIn(printed), NEW q \in PortsIn(found[turn])
      PROVE  p < q
  <2>1. PICK j \in Threads : j < turn /\ p \in PortsIn(found[j])
    BY <1>3, <1>6
  <2>2. seg_max(j) < seg_min(turn) /\ seg_max(j) \in Int /\ seg_min(turn) \in Int
    BY <1>1, <2>1, SegmentsOrdered, SegmentBounds, OptionsAssumption
  <2>3. p \in Int /\ p <= seg_max(j)
    BY <1>5, <2>1
  <2>4. q \in Int /\ seg_min(turn) <= q
    BY <1>1, <1>5
  <2> QED
    BY <2>2, <2>3, <2>4
<1>8. /\ Ordered(printed \o found[turn])
      /\ PortsIn(printed \o found[turn]) = PortsIn(printed) \cup PortsIn(found[turn])
  <2>1. printed \in Seq(Result) /\ found[turn] \in Seq(Result)
    BY <1>1 DEF ReportInv, IInv, TypeOK
  <2> QED
    BY <1>1, <1>5, <1>6, <1>7, <2>1, OrderedConcat
<1>9. MainReport'
  <2>1. PortsIn(printed) \cup PortsIn(found[turn])
          = UNION {PortsIn(found[j]) : j \in {l \in Threads : Joined(l)'}}
    BY <1>1, <1>4, <1>6
  <2>2. /\ Ordered(printed)' /\ PortsIn(printed)' = PortsIn(printed \o found[turn])
        /\ \A j \in Threads : PortsIn(found[j])' = PortsIn(found[j])
    BY <1>1, <1>8 DEF Ordered, PortsIn
  <2>3. {PortsIn(found[j])' : j \in {l \in Threads : Joined(l)'}}
          = {PortsIn(found[j]) : j \in {l \in Threads : Joined(l)'}}
    BY <2>2
  <2> QED
    BY <1>2, <1>8, <2>1, <2>2, <2>3, SegmentsConstant DEF MainReport
<1>10. IInv'
  BY JoinStep DEF ReportInv
<1> QED
  BY <1>1, <1>9, <1>10, ThreadsKept, SegmentsConstant DEF ReportInv

LEMMA ReportStep == ASSUME ReportInv, [Next]_vars PROVE ReportInv'
<1>1. CASE UNCHANGED vars
  <2>1. IInv'
    BY <1>1, NextInv DEF ReportInv
  <2>2. MainReport'
    <3>1. /\ Ordered(printed)' = Ordered(printed) /\ PortsIn(printed)' = PortsIn(printed)
          /\ \A j \in Threads : PortsIn(found[j])' = PortsIn(found[j]) /\ Joined(j)' = Joined(j)
      BY <1>1 DEF vars, Ordered, PortsIn, Joined
    <3>2. {PortsIn(found[j])' : j \in {l \in Threads : Joined(l)'}}
            = {PortsIn(found[j]) : j \in {l \in Threads : Joined(l)}}
      BY <3>1
    <3> QED
      BY <1>1, <3>1, <3>2, SegmentsConstant DEF vars, ReportInv, MainReport
  <2> QED
    BY <1>1, <2>1, <2>2, ThreadsKept DEF vars, ReportInv
<1>2. CASE JoinFailed
  <2>1. IInv'
    BY <1>2, JoinFailedStep DEF ReportInv
  <2>2. /\ UNCHANGED <<turn, at, port, found, servent, skipped, printed, visits>>
        /\ main' = "crash"
    BY <1>2 DEF JoinFailed
  <2>3. MainReport'
    BY <2>2 DEF ReportInv, MainReport, Ordered
  <2> QED
    BY <2>1, <2>2, <2>3, ThreadsKept DEF ReportInv
<1>3. CASE Create \/ Join
  BY <1>3, CreateReport, JoinReport
<1>4. ASSUME NEW i \in Threads, Scan(i) PROVE ReportInv'
  BY <1>4, SocketReport, ExitReport, ConnectReport, LookupReport, StrdupReport DEF Scan
<1> QED
  BY <1>1, <1>2, <1>3, <1>4 DEF Next, Main

\* The report is right, whatever the range, the number of threads and the order in
\* which they finish (tcp.c:58-105, 208-229): sorted by port at every moment, and
\* at the end exactly the visited ports that are open and named and got a socket.
THEOREM Complete == Spec => []ReportIsComplete
<1>1. Init => ReportInv
  <2> SUFFICES ASSUME Init PROVE ReportInv
    OBVIOUS
  <2>1. IInv
    BY InitInv
  <2>2. ASSUME NEW i \in Threads PROVE ThreadReport(i)
    BY <2>2 DEF Init, ThreadReport, Ordered, PortsIn, Done, Started, Busy
  <2>3. MainReport
    BY DEF Init, MainReport, Ordered
  <2> QED
    BY <2>1, <2>2, <2>3 DEF Init, ReportInv, SkippedDone
<1>2. ReportInv /\ [Next]_vars => ReportInv'
  BY ReportStep
<1>3. ReportInv => ReportIsComplete
  <2> SUFFICES ASSUME ReportInv PROVE ReportIsComplete
    OBVIOUS
  <2>1. \A k, l \in DOMAIN printed : k < l => printed[k].port < printed[l].port
    BY DEF ReportInv, MainReport, Ordered
  <2>2. ASSUME main = "end"
        PROVE  {printed[k].port : k \in DOMAIN printed} =
                 {p \in (Open \cap Named) \cap Ports : visits[p] > 0} \ skipped
    <3>1. \A j \in Threads : Joined(j)
      BY <2>2 DEF Joined
    <3>2. PortsIn(printed) = UNION {PortsIn(found[j]) : j \in Threads}
      BY <2>2, <3>1 DEF ReportInv, MainReport
    <3>3. \A p \in Ports : visits[p] > 0 <=> \E j \in Threads : Passed(j, p)
      <4>1. \A p \in Ports : visits[p] = IF \E j \in Threads : Passed(j, p) THEN 1 ELSE 0
        BY DEF ReportInv, IInv, Counted
      <4> QED
        BY <4>1
    <3>4. \A j \in Threads, p \in Ports : Passed(j, p) <=> Done(j, p)
      BY <2>2 DEF ReportInv, IInv, Place, Passed, Done, Busy
    <3>5. \A j \in Threads :
            PortsIn(found[j]) = {p \in Ports : Done(j, p) /\ p \in Open /\ p \in Named /\ p \notin skipped}
      BY DEF ReportInv, ThreadReport
    <3>6. PortsIn(printed) = {p \in (Open \cap Named) \cap Ports : visits[p] > 0} \ skipped
      BY <3>2, <3>3, <3>4, <3>5
    <3> QED
      BY <3>6 DEF PortsIn
  <2> QED
    BY <2>1, <2>2 DEF ReportIsComplete
<1> QED
  BY <1>1, <1>2, <1>3, PTL DEF Spec
=============================================================================
