----------------------------- MODULE PortScanner -----------------------------
(***************************************************************************)
(* thread/portscanner: main cuts the range of ports into segments, starts  *)
(* a thread for each, joins them in order and prints what they found.  A   *)
(* thread connects to its ports one after the other and looks the name of  *)
(* each open one up with getservbyport, whose result all threads share.    *)
(***************************************************************************)
EXTENDS Integers, Sequences, FiniteSets

CONSTANTS
  min_port, max_port,  \* options -s and -m
  nthreads_asked,      \* option -n
  Open,        \* ports that accept a connection
  Named,       \* ports with a name in the services database
  MaxSockets,  \* sockets the process can have open at a time
  MayFail      \* threads that pthread_create may fail to create

\* What main checks of its options (tcp.c:154-178).
ASSUME OptionsAssumption ==
  /\ min_port \in Nat \ {0} /\ max_port \in Nat
  /\ min_port <= max_port /\ max_port <= 65535
  /\ nthreads_asked \in Nat \ {0}
ASSUME WorldAssumption ==
  Open \subseteq Nat /\ Named \subseteq Nat /\ MaxSockets \in Nat /\ MayFail \subseteq Nat

Ports == min_port..max_port
nports == max_port - min_port + 1
wanted == IF nports < nthreads_asked THEN nports ELSE nthreads_asked
port_num_per_seg == nports \div wanted
nthreads == IF nports % wanted # 0 THEN wanted + 1 ELSE wanted
Threads == 0..nthreads - 1

seg_min(i) == IF i = 0 THEN min_port ELSE min_port + i * port_num_per_seg - 1
\* Slip: a segment ends at the first port of the next one.
seg_max_Inclusive(i) == IF i = nthreads - 1 THEN max_port ELSE (i + 1) * port_num_per_seg
seg_max(i) == IF i = nthreads - 1 THEN max_port ELSE (i + 1) * port_num_per_seg - 1

VARIABLES
  main, turn,  \* main: "create", "join", "end" or "crash", and its i
  at, port,    \* where each thread is, and its i
  found,       \* its list of results
  servent,     \* the static buffer of getservbyport, as the port it is about
  skipped,     \* ports reported by perror("socket")
  printed,     \* results main has printed
  visits       \* history: rounds of a thread's loop for each port

vars == <<main, turn, at, port, found, servent, skipped, printed, visits>>

Torn == -1   \* a name copied while it was being overwritten

------------------------------------------------------------------------------
\* A thread whose creation fails is only reported.
Create ==
  /\ main = "create"
  /\ \/ at' = [at EXCEPT ![turn] = "loop"] /\ port' = [port EXCEPT ![turn] = seg_min(turn)]
     \/ turn \in MayFail /\ at' = [at EXCEPT ![turn] = "failed"] /\ UNCHANGED port
  /\ IF turn + 1 < nthreads THEN turn' = turn + 1 /\ UNCHANGED main
                            ELSE turn' = 0 /\ main' = "join"
  /\ UNCHANGED <<found, servent, skipped, printed, visits>>

\* Slip: the results are printed as threads happen to finish.
Join_Any ==
  /\ main = "join"
  /\ \E i \in Threads :
        /\ at[i] = "exit"
        /\ at' = [at EXCEPT ![i] = "failed"]
        /\ printed' = printed \o found[i]
  /\ IF turn + 1 < nthreads THEN turn' = turn + 1 /\ UNCHANGED main
                            ELSE turn' = turn /\ main' = "end"
  /\ UNCHANGED <<port, found, servent, skipped, visits>>
Join ==
  /\ main = "join" /\ at[turn] = "exit"
  /\ printed' = printed \o found[turn]
  /\ IF turn + 1 < nthreads THEN turn' = turn + 1 /\ UNCHANGED main
                            ELSE turn' = turn /\ main' = "end"
  /\ UNCHANGED <<at, port, found, servent, skipped, visits>>

\* The pthread_t of a thread that was not created is uninitialized: joining it
\* faults, or fails and leaves reslist NULL, which is followed.
JoinFailed ==
  /\ main = "join" /\ at[turn] = "failed"
  /\ main' = "crash"
  /\ UNCHANGED <<turn, at, port, found, servent, skipped, printed, visits>>

------------------------------------------------------------------------------
Runs(i, where) == main # "crash" /\ at[i] = where
Sockets == {i \in Threads : at[i] \in {"connect", "lookup", "strdup"}}

\* close(sfd) and the loop's i++.
NextPort(i) ==
  /\ port' = [port EXCEPT ![i] = @ + 1]
  /\ at' = [at EXCEPT ![i] = "loop"]

Socket(i) ==
  /\ Runs(i, "loop") /\ port[i] <= seg_max(i)
  /\ visits' = [visits EXCEPT ![port[i]] = @ + 1]
  /\ IF Cardinality(Sockets) < MaxSockets
     THEN at' = [at EXCEPT ![i] = "connect"] /\ UNCHANGED <<port, skipped>>
     ELSE skipped' = skipped \cup {port[i]} /\ NextPort(i)
  /\ UNCHANGED <<main, turn, found, servent, printed>>

Exit(i) ==
  /\ Runs(i, "loop") /\ port[i] > seg_max(i)
  /\ at' = [at EXCEPT ![i] = "exit"]
  /\ UNCHANGED <<main, turn, port, found, servent, skipped, printed, visits>>

\* Slip: a refused port is tried again.
Connect_Again(i) ==
  /\ Runs(i, "connect")
  /\ IF port[i] \in Open THEN at' = [at EXCEPT ![i] = "lookup"] ELSE UNCHANGED at
  /\ UNCHANGED <<main, turn, port, found, servent, skipped, printed, visits>>
\* set_nonblock sets a flag of the descriptor (F_SETFD) that does not exist: the
\* socket blocks, and connect never fails with EINPROGRESS.
Connect(i) ==
  /\ Runs(i, "connect")
  /\ IF port[i] \in Open THEN at' = [at EXCEPT ![i] = "lookup"] /\ UNCHANGED port
                         ELSE NextPort(i)
  /\ UNCHANGED <<main, turn, found, servent, skipped, printed, visits>>

\* An open port without a name is not reported.
Lookup(i) ==
  /\ Runs(i, "lookup")
  /\ IF port[i] \in Named
     THEN servent' = port[i] /\ at' = [at EXCEPT ![i] = "strdup"] /\ UNCHANGED port
     ELSE NextPort(i) /\ UNCHANGED servent
  /\ UNCHANGED <<main, turn, found, skipped, printed, visits>>

\* Another thread's lookup may have replaced the name, or be replacing it.
Copies(i) ==
  {servent} \cup IF \E j \in Threads \ {i} : at[j] = "lookup" /\ port[j] \in Named
                 THEN {Torn} ELSE {}

Strdup(i) ==
  /\ Runs(i, "strdup")
  /\ \E s \in Copies(i) :
        found' = [found EXCEPT ![i] = Append(@, [port |-> port[i], s_name |-> s])]
  /\ NextPort(i)
  /\ UNCHANGED <<main, turn, servent, skipped, printed, visits>>

Scan(i) == Socket(i) \/ Exit(i) \/ Connect(i) \/ Lookup(i) \/ Strdup(i)

------------------------------------------------------------------------------
Init ==
  /\ main = "create" /\ turn = 0
  /\ at = [i \in Threads |-> "none"] /\ port = [i \in Threads |-> min_port]
  /\ found = [i \in Threads |-> <<>>]
  /\ servent = Torn /\ skipped = {} /\ printed = <<>>
  /\ visits = [p \in Ports |-> 0]

Main == Create \/ Join \/ JoinFailed
Next == Main \/ \E i \in Threads : Scan(i)
Spec == Init /\ [][Next]_vars
\* A blocking connect returns in the end, if only by the kernel's timeout.
FairSpec == Spec /\ WF_vars(Main) /\ \A i \in Threads : WF_vars(Scan(i))

------------------------------------------------------------------------------
Result == [port : Ports, s_name : Ports \cup {Torn}]

TypeOK ==
  /\ main \in {"create", "join", "end", "crash"} /\ turn \in Threads
  /\ at \in [Threads -> {"none", "failed", "loop", "connect", "lookup", "strdup", "exit"}]
  /\ port \in [Threads -> min_port..max_port + 1]
  /\ found \in [Threads -> Seq(Result)]
  /\ servent \in Ports \cup {Torn} /\ skipped \subseteq Ports
  /\ printed \in Seq(Result)
  /\ visits \in [Ports -> Nat]

\* No port is scanned by two threads, wherever the range starts and however it
\* divides: the end of a segment, which does not count from min_port, never
\* reaches the start of the next (tcp.c:197-206).
VisitedOnce == \A p \in Ports : visits[p] <= 1

\* "%d ports scanned." (tcp.c:229): when main has printed the number of ports,
\* each of them has been visited.
AllScanned == main = "end" => \A p \in Ports : visits[p] >= 1

\* The report is sorted by port, though the threads finish in any order, and names
\* exactly the visited ports that are open, have a name and got a socket.
ReportIsComplete ==
  /\ \A k, l \in DOMAIN printed : k < l => printed[k].port < printed[l].port
  /\ main = "end" =>
       {printed[k].port : k \in DOMAIN printed} =
         {p \in (Open \cap Named) \cap Ports : visits[p] > 0} \ skipped

\* The scan ends, at the latest when the last connect has timed out.
Finishes == <>(main \in {"end", "crash"})
=============================================================================
