--------------------------------- MODULE Mux ---------------------------------
(***************************************************************************)
(* thread/mutex: workers guard a shared count with a lock of their own, a  *)
(* compare-and-swap of three statements that is not atomic.  Every load    *)
(* and store of mux and count is a step, as in a build that does not       *)
(* optimise: neither variable is volatile.                                 *)
(***************************************************************************)
EXTENDS Integers, Sequences

CONSTANT NJobs   \* threads main creates

ASSUME NJobsAssumption == NJobs \in Nat \ {0}

Workers == 1..NJobs

VARIABLES
  mux, count,
  phase, next,  \* main: "create", "join", "end" or "crash", and its i
  wpc,          \* where each worker is
  oldval,       \* what its cmp_and_swap read
  reg,          \* its copy of count
  shown,        \* the counts printed
  overlapped    \* history: two workers have been inside at once

muxVars == <<mux, count, phase, next, wpc, oldval, reg, shown, overlapped>>

Inside(w) == wpc[w] \in {"load", "store", "print", "clear"}
At(w, where) == wpc[w] = where
Works(w, where) == phase # "crash" /\ At(w, where)
Move(w, where) == wpc' = [wpc EXCEPT ![w] = where]

------------------------------------------------------------------------------
NextWorker(then) ==
  IF next < NJobs THEN next' = next + 1 /\ UNCHANGED phase ELSE next' = 1 /\ phase' = then
\* Whether pthread_create has failed is not looked at.
CreateWorker ==
  /\ phase = "create" /\ (Move(next, "read") \/ Move(next, "failed"))
  /\ NextWorker("join")
\* The id of a worker that was not created is uninitialized: joining it faults, or
\* returns an error that is ignored.
JoinWorker ==
  /\ phase = "join" /\ UNCHANGED wpc
  /\ \/ wpc[next] \in {"done", "failed"} /\ NextWorker("end")
     \/ wpc[next] = "failed" /\ phase' = "crash" /\ UNCHANGED next
MainMux ==
  /\ CreateWorker \/ JoinWorker
  /\ UNCHANGED <<mux, count, oldval, reg, shown, overlapped>>

\* cmp_and_swap(&mux, 0, 1).
ReadMux(w) ==
  /\ Works(w, "read") /\ Move(w, "swap")
  /\ oldval' = [oldval EXCEPT ![w] = mux]
  /\ UNCHANGED <<mux, count, phase, next, reg, shown, overlapped>>
\* The lock was taken: round the loop once more.
Spin(w) ==
  /\ Works(w, "swap") /\ oldval[w] # 0 /\ Move(w, "read")
  /\ UNCHANGED <<mux, count, phase, next, oldval, reg, shown, overlapped>>
Swap(w) ==
  /\ Works(w, "swap") /\ oldval[w] = 0 /\ Move(w, "load")
  /\ mux' = 1
  /\ overlapped' = (overlapped \/ \E v \in Workers \ {w} : Inside(v))
  /\ UNCHANGED <<count, phase, next, oldval, reg, shown>>

\* Slip: count stays in a register from before the lock was taken.
LoadCount_Stale(w) ==
  /\ Works(w, "load") /\ Move(w, "store")
  /\ UNCHANGED <<mux, count, phase, next, oldval, reg, shown, overlapped>>
\* count++.
LoadCount(w) ==
  /\ Works(w, "load") /\ Move(w, "store")
  /\ reg' = [reg EXCEPT ![w] = count]
  /\ UNCHANGED <<mux, count, phase, next, oldval, shown, overlapped>>
StoreCount(w) ==
  /\ Works(w, "store") /\ Move(w, "print")
  /\ count' = reg[w] + 1
  /\ UNCHANGED <<mux, phase, next, oldval, reg, shown, overlapped>>
\* What is printed is read again.
PrintCount(w) ==
  /\ Works(w, "print") /\ Move(w, "clear")
  /\ shown' = Append(shown, count)
  /\ UNCHANGED <<mux, count, phase, next, oldval, reg, overlapped>>
\* Slip: the lock is not given back.
ClearMux_Keeps(w) ==
  /\ Works(w, "clear") /\ Move(w, "done")
  /\ UNCHANGED <<mux, count, phase, next, oldval, reg, shown, overlapped>>
ClearMux(w) ==
  /\ Works(w, "clear") /\ Move(w, "done")
  /\ mux' = 0
  /\ UNCHANGED <<count, phase, next, oldval, reg, shown, overlapped>>

Worker(w) ==
  \/ ReadMux(w) \/ Spin(w) \/ Swap(w) \/ LoadCount(w) \/ StoreCount(w)
  \/ PrintCount(w) \/ ClearMux(w)

MuxInit ==
  /\ mux = 0 /\ count = 0 /\ phase = "create" /\ next = 1
  /\ wpc = [w \in Workers |-> "none"]
  /\ oldval = [w \in Workers |-> 0] /\ reg = [w \in Workers |-> 0]
  /\ shown = <<>> /\ overlapped = FALSE
MuxNext == MainMux \/ \E w \in Workers : Worker(w)
MuxSpec == MuxInit /\ [][MuxNext]_muxVars

------------------------------------------------------------------------------
(* Properties.                                                              *)

MuxTypeOK ==
  /\ mux \in 0..1 /\ count \in Nat
  /\ phase \in {"create", "join", "end", "crash"} /\ next \in Workers
  /\ wpc \in [Workers -> {"none", "failed", "read", "swap", "load", "store", "print",
                         "clear", "done"}]
  /\ oldval \in [Workers -> 0..1] /\ reg \in [Workers -> Nat]
  /\ shown \in Seq(Nat) /\ overlapped \in BOOLEAN

\* The lock is not one: two workers that read 0 before either has stored 1 are both
\* inside.  But only then is anything wrong: as long as no two have been inside at
\* once, the counts printed are 1, 2, 3, ... whatever the workers outside read
\* (mux.c:31-34, 38-42).
CountsExactUnlessOverlapped ==
  ~overlapped => \A k \in DOMAIN shown : shown[k] = k

\* What makes the workers end all the same: the lock is never left taken.  The last
\* store to mux is that of a worker still inside, or a release (mux.c:34, 40).
HeldMeansInside == mux = 1 => \E w \in Workers : Inside(w)
=============================================================================
