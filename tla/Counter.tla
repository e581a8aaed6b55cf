------------------------------- MODULE Counter -------------------------------
(***************************************************************************)
(* thread/var/var.c: threads add to a volatile total, each a number of     *)
(* times, without a lock.  An increment is a load and a store.             *)
(***************************************************************************)
EXTENDS Integers

CONSTANTS
  NThreads,   \* threads main creates
  Rounds      \* increments of each

ASSUME CounterAssumption == NThreads \in Nat \ {0} /\ Rounds \in Nat \ {0}

Adders == 1..NThreads

VARIABLES
  total,    \* count
  loop,     \* each thread's i, -1 before main has come to it, -2 if it was not created
  loaded,   \* the value it is about to add to, or -1
  boss, p   \* main: "create", "join", "end" or "crash", and its i

counterVars == <<total, loop, loaded, boss, p>>

NextAdder(then) ==
  IF p < NThreads THEN p' = p + 1 /\ UNCHANGED boss ELSE p' = 1 /\ boss' = then
\* Whether pthread_create has failed is not looked at.
CreateAdder ==
  /\ boss = "create" /\ NextAdder("join")
  /\ \E i \in {0, -2} : loop' = [loop EXCEPT ![p] = i]
\* The id of a thread that was not created is uninitialized: joining it faults, or
\* returns an error that is ignored.
JoinAdder ==
  /\ boss = "join" /\ UNCHANGED loop
  /\ \/ loop[p] \in {Rounds, -2} /\ NextAdder("end")
     \/ loop[p] = -2 /\ boss' = "crash" /\ UNCHANGED p
MainCounter == (CreateAdder \/ JoinAdder) /\ UNCHANGED <<total, loaded>>

\* Slip: without volatile the loop adds to what was there before it.
LoadTotal_Once(t) ==
  /\ boss # "crash" /\ loop[t] \in 0..Rounds - 1 /\ loaded[t] = -1
  /\ loaded' = [loaded EXCEPT ![t] = 0]
  /\ UNCHANGED <<total, loop, boss, p>>
LoadTotal(t) ==
  /\ boss # "crash" /\ loop[t] \in 0..Rounds - 1 /\ loaded[t] = -1
  /\ loaded' = [loaded EXCEPT ![t] = total]
  /\ UNCHANGED <<total, loop, boss, p>>
StoreTotal(t) ==
  /\ boss # "crash" /\ loaded[t] # -1
  /\ total' = loaded[t] + 1
  /\ loaded' = [loaded EXCEPT ![t] = -1] /\ loop' = [loop EXCEPT ![t] = @ + 1]
  /\ UNCHANGED <<boss, p>>

Adder(t) == LoadTotal(t) \/ StoreTotal(t)

CounterInit ==
  /\ total = 0 /\ boss = "create" /\ p = 1
  /\ loop = [t \in Adders |-> -1] /\ loaded = [t \in Adders |-> -1]
CounterNext == MainCounter \/ \E t \in Adders : Adder(t)
CounterSpec == CounterInit /\ [][CounterNext]_counterVars

------------------------------------------------------------------------------
CounterTypeOK ==
  /\ total \in Nat /\ boss \in {"create", "join", "end", "crash"} /\ p \in Adders
  /\ loop \in [Adders -> -2..Rounds] /\ loaded \in [Adders -> Nat \cup {-1}]

\* How wrong the total printed can be: as long as one thread could be created, it may
\* be as little as two, but not one.  Whoever stores last loaded for the last time after
\* a store of its own, whatever the interleaving (var.c:7-10, 20).
TotalAtLeastTwo ==
  boss = "end" /\ Rounds > 1 /\ (\E t \in Adders : loop[t] # -2) => total >= 2
=============================================================================
