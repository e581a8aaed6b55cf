---------------------------- MODULE WebServProofs ----------------------------
(***************************************************************************)
(* Theorems about WebServ, for any clients, numbers of descriptors, slots  *)
(* and threads: descriptors have one owner at a time, openserver's         *)
(* bookkeeping stays in step with the descriptor table, and connections    *)
(* end answered or by their clients.                                       *)
(***************************************************************************)
EXTENDS WebServ, SequenceTheorems, FunctionTheorems, FiniteSetTheorems,
        WellFoundedInduction, TLAPS

HasFile(t) == threads[t].pc \in {"header", "body", "close_file"}

\* The connections are told apart: none is behind two descriptors, none is in the
\* table and in the backlog, and one that has not begun is in neither.
ConnsOnce ==
  /\ table[Listener] = "listen"
  /\ \A d, e \in Fds : table[d] \in Conns /\ table[d] = table[e] => d = e
  /\ \A i, j \in 1..Len(backlog) : backlog[i] = backlog[j] => i = j
  /\ \A i \in 1..Len(backlog) : side[backlog[i]] # "new" /\ \A d \in Fds : table[d] # backlog[i]
  /\ \A d \in Fds : table[d] \in Conns => side[table[d]] # "new"

\* What each thread holds, and that no two hold the same.
ThreadsHold ==
  /\ \A t \in Live :
       /\ Peer(t) = threads[t].for /\ threads[t].fd \notin Waiting
       /\ HasFile(t) => threads[t].file \in Fds /\ table[threads[t].file] = "file"
       /\ threads[t].got + inbox[threads[t].for] <= wrote[threads[t].for]
  /\ \A t, u \in Live :
       t # u => /\ threads[t].fd # threads[u].fd
                /\ HasFile(t) /\ HasFile(u) => threads[t].file # threads[u].file

\* What arrives was sent.
Arrives == \A c \in Conns : inbox[c] <= wrote[c]

\* A round of openserver uses up what select found.
Round ==
  /\ CountMatchesReady
  /\ pc = "accept" => ready \subseteq rfs

WebInv == TypeOK /\ WatchedAreWaiting /\ ConnsOnce /\ ThreadsHold /\ Arrives /\ Round

------------------------------------------------------------------------------
(* Lemmas.                                                                  *)

LEMMA LeastIsIn ==
  ASSUME NEW S, S \subseteq Nat, S # {}
  PROVE  Least(S) \in S
<1>1. \E x \in S : \A y \in S : ~ (<<y, x>> \in OpToRel(<, Nat))
  BY NatLessThanWellFounded, WFMin, Zenon
<1>2. \A x, y \in S : ~ (<<y, x>> \in OpToRel(<, Nat)) => x <= y
  BY DEF OpToRel
<1>3. \E x \in S : \A y \in S : x <= y
  BY <1>1, <1>2
<1> QED
  BY <1>3 DEF Least

LEMMA FreeFdIsFree ==
  ASSUME FreeFds # {}
  PROVE  Least(FreeFds) \in Fds /\ table[Least(FreeFds)] = "free"
<1>1. FreeFds \subseteq Nat
  BY SizesAssumption DEF FreeFds, Fds
<1> QED
  BY <1>1, LeastIsIn DEF FreeFds

LEMMA FreeSlotIsFree ==
  ASSUME FreeSlots # {}
  PROVE  Least(FreeSlots) \in Slots /\ clis[Least(FreeSlots)] = -1
<1>1. FreeSlots \subseteq Nat
  BY SizesAssumption DEF FreeSlots, Slots
<1> QED
  BY <1>1, LeastIsIn DEF FreeSlots

LEMMA FinishedIsDone == Finished.pc = "done" /\ \A x \in Thread : x.pc # "done"
BY DEF Finished, Thread

\* A thread that has not returned is a whole one.
LEMMA LiveThread ==
  ASSUME TypeOK, NEW t \in DOMAIN threads, threads[t].pc # "done"
  PROVE  threads[t] \in Thread
BY FinishedIsDone DEF TypeOK

LEMMA ThreadUpdate ==
  ASSUME TypeOK, NEW t \in DOMAIN threads, NEW r \in Thread \cup {Finished}
  PROVE  LET s == [threads EXCEPT ![t] = r]
         IN  /\ s \in Seq(Thread \cup {Finished}) /\ Len(s) = Len(threads)
             /\ DOMAIN s = DOMAIN threads /\ s[t] = r
             /\ \A u \in DOMAIN threads : u # t => s[u] = threads[u]
<1>1. threads \in Seq(Thread \cup {Finished}) /\ t \in 1..Len(threads)
  BY DEF TypeOK
<1> QED
  BY <1>1, ExceptSeq

\* What a step of a serving thread changes: its own record, at most one entry of the
\* descriptor table, and its own connection.
Opens(t, r) ==
  \E d \in Fds : /\ table[d] = "free" /\ table' = [table EXCEPT ![d] = "file"]
                 /\ r.file = d
KeepsTable(t, r) ==
  /\ table' = table
  /\ r.pc \in {"header", "body", "close_file"} => HasFile(t) /\ r.file = threads[t].file
ClosesFile(t, r) ==
  /\ threads[t].pc = "close_file" /\ r.pc = "close"
  /\ table' = [table EXCEPT ![threads[t].file] = "free"]
Closes(t, r) ==
  /\ r = Finished /\ table' = [table EXCEPT ![threads[t].fd] = "free"]
PeersKept ==
  /\ side' \in [Conns -> {"new", "up", "fin", "rst"}] /\ DOMAIN replies' = Conns
  /\ \A c \in Conns : side'[c] = "new" <=> side[c] = "new"
OwnStep(t, r) ==
  /\ threads' = [threads EXCEPT ![t] = r]
  /\ r.pc # "done" => r.fd = threads[t].fd /\ r.for = threads[t].for
  /\ KeepsTable(t, r) \/ Opens(t, r) \/ ClosesFile(t, r) \/ Closes(t, r)
  /\ \/ inbox' = inbox /\ (r.pc # "done" => r.got = threads[t].got)
     \/ /\ inbox' = [inbox EXCEPT ![Peer(t)] = 0]
        /\ r.got = threads[t].got + inbox[Peer(t)]
  /\ PeersKept /\ main' = main /\ backlog' = backlog /\ wrote' = wrote

LEMMA WriteChanges ==
  ASSUME TypeOK, NEW c \in Conns, NEW what, Write(c, what)
  PROVE  PeersKept
BY DEF TypeOK, Write, PeersKept

LEMMA ClientsUnchanged ==
  ASSUME TypeOK, UNCHANGED clients
  PROVE  PeersKept /\ backlog' = backlog /\ wrote' = wrote /\ inbox' = inbox
BY DEF TypeOK, PeersKept, clients

LEMMA PeerIsConn ==
  ASSUME TypeOK, ThreadsHold, NEW t \in DOMAIN threads, threads[t].pc # "done"
  PROVE  /\ threads[t] \in Thread /\ t \in Live
         /\ Peer(t) \in Conns /\ Peer(t) = threads[t].for /\ threads[t].fd \in Fds
<1>1. threads[t] \in Thread
  BY LiveThread
<1>2. t \in Live /\ Peer(t) = threads[t].for
  BY DEF Live, ThreadsHold
<1> QED
  BY <1>1, <1>2 DEF Thread

LEMMA ProvservOwnStep ==
  ASSUME WebInv, NEW t \in 1..MaxThreads, Provserv(t)
  PROVE  /\ t \in DOMAIN threads /\ threads[t] \in Thread /\ t \in Live
         /\ \E r \in Thread \cup {Finished} : OwnStep(t, r)
<1> DEFINE old == threads[t]
<1>1. t \in DOMAIN threads /\ threads[t].pc # "done"
  BY DEF Provserv, ReadData, Parse, PeerClosed, ReadFails, Open, Header, Body, CloseFile,
         Elog, Close, Runs
<1>2. /\ old \in Thread /\ t \in Live /\ Peer(t) \in Conns /\ Peer(t) = old.for
      /\ old.fd \in Fds
  BY <1>1, PeerIsConn DEF WebInv
<1> SUFFICES \E r \in Thread \cup {Finished} : OwnStep(t, r)
  BY <1>1, <1>2
<1>3. /\ inbox \in [Conns -> 0..2] /\ wrote \in [Conns -> 0..2]
      /\ side \in [Conns -> {"new", "up", "fin", "rst"}] /\ DOMAIN replies = Conns
  BY DEF WebInv, TypeOK
<1>4. Finished \in Thread \cup {Finished} /\ Finished.pc = "done" /\ old.pc # "done"
  BY <1>1, FinishedIsDone
<1>5. ASSUME NEW at \in {"open", "body", "close_file", "close", "elog"}
      PROVE  /\ [old EXCEPT !.pc = at] \in Thread
             /\ [old EXCEPT !.pc = at].fd = old.fd /\ [old EXCEPT !.pc = at].for = old.for
             /\ [old EXCEPT !.pc = at].got = old.got /\ [old EXCEPT !.pc = at].file = old.file
             /\ [old EXCEPT !.pc = at].pc = at
  BY <1>2 DEF Thread
<1>6. ASSUME NEW e \in {"METHOD", "PROTO", "MIME", "NOT_FOUND", "INTERNAL"}, Log(t, e)
      PROVE  \E r \in Thread :
               /\ threads' = [threads EXCEPT ![t] = r]
               /\ r.fd = old.fd /\ r.for = old.for /\ r.got = old.got /\ r.pc = "elog"
  <2> DEFINE r == [old EXCEPT !.pc = "elog", !.error = e]
  <2>1. threads' = [threads EXCEPT ![t] = r]
    BY <1>6 DEF Log
  <2>2. r \in Thread /\ r.fd = old.fd /\ r.for = old.for /\ r.got = old.got /\ r.pc = "elog"
    BY <1>2, <1>6 DEF Thread
  <2> QED
    BY <2>1, <2>2
<1>7. CASE ReadData(t)
  <2> DEFINE r == [old EXCEPT !.got = @ + inbox[Peer(t)]]
  <2>1. threads' = [threads EXCEPT ![t] = r] /\ inbox' = [inbox EXCEPT ![Peer(t)] = 0]
    BY <1>7 DEF ReadData
  <2>2. old.got + inbox[Peer(t)] \in 0..2
    BY <1>2, <1>3 DEF WebInv, ThreadsHold, Thread
  <2>3. /\ r \in Thread /\ r.fd = old.fd /\ r.for = old.for /\ r.pc = old.pc
        /\ r.file = old.file /\ r.got = old.got + inbox[Peer(t)]
    BY <1>2, <2>2 DEF Thread
  <2>4. table' = table /\ PeersKept /\ main' = main /\ backlog' = backlog /\ wrote' = wrote
    BY <1>3, <1>7 DEF ReadData, PeersKept
  <2> HIDE DEF r, old
  <2>5. OwnStep(t, r)
    BY <1>3, <2>1, <2>3, <2>4 DEF OwnStep, KeepsTable, HasFile, old
  <2> QED
    BY <1>1, <1>2, <2>3, <2>5 DEF old
<1>8. ASSUME NEW at \in {"open", "body", "close_file", "close", "elog"}, Goto(t, at),
             table' = table, inbox' = inbox, main' = main, backlog' = backlog,
             wrote' = wrote, PeersKept,
             at \in {"body", "close_file"} => HasFile(t)
      PROVE  \E r \in Thread \cup {Finished} : OwnStep(t, r)
  <2> DEFINE r == [old EXCEPT !.pc = at]
  <2>1. threads' = [threads EXCEPT ![t] = r]
    BY <1>8 DEF Goto
  <2>2. r \in Thread /\ r.fd = old.fd /\ r.for = old.for /\ r.got = old.got
        /\ r.file = old.file /\ r.pc = at
    BY <1>5
  <2> HIDE DEF r
  <2>3. OwnStep(t, r)
    BY <1>8, <2>1, <2>2 DEF OwnStep, KeepsTable
  <2> QED
    BY <2>2, <2>3
<1>9. ASSUME NEW e \in {"METHOD", "PROTO", "MIME", "NOT_FOUND", "INTERNAL"}, Log(t, e),
             table' = table, main' = main, UNCHANGED clients
      PROVE  \E r \in Thread \cup {Finished} : OwnStep(t, r)
  <2>1. PeersKept /\ backlog' = backlog /\ wrote' = wrote /\ inbox' = inbox
    BY <1>9, ClientsUnchanged DEF WebInv
  <2>2. PICK r \in Thread :
          /\ threads' = [threads EXCEPT ![t] = r]
          /\ r.fd = old.fd /\ r.for = old.for /\ r.got = old.got /\ r.pc = "elog"
    BY <1>6, <1>9
  <2>3. OwnStep(t, r)
    BY <1>3, <1>9, <2>1, <2>2 DEF OwnStep, KeepsTable
  <2> QED
    BY <2>3
<1>10. CASE Parse(t)
  <2>1. table' = table /\ main' = main /\ UNCHANGED clients
    BY <1>10 DEF Parse
  <2>2. PeersKept /\ backlog' = backlog /\ wrote' = wrote /\ inbox' = inbox
    BY <2>1, ClientsUnchanged DEF WebInv
  <2>3. PICK e \in Outcomes(Peer(t), old.got) :
          IF e = "fault" THEN up' = FALSE /\ UNCHANGED threads
          ELSE /\ IF e = "NO" THEN Goto(t, "open") ELSE Log(t, e)
               /\ UNCHANGED up
    BY <1>10 DEF Parse
  <2>4. e \in {"METHOD", "PROTO", "MIME", "NO", "fault"}
    BY <2>3 DEF Outcomes
  <2>5. CASE e = "fault"
    <3>1. threads' = [threads EXCEPT ![t] = old]
      BY <2>3, <2>5 DEF WebInv, TypeOK
    <3>2. OwnStep(t, old)
      BY <1>3, <2>1, <2>2, <3>1 DEF OwnStep, KeepsTable, HasFile
    <3> QED
      BY <1>2, <3>2
  <2>6. CASE e = "NO"
    BY <1>3, <1>8, <2>1, <2>2, <2>3, <2>6
  <2>7. CASE e \in {"METHOD", "PROTO", "MIME"}
    BY <1>9, <2>1, <2>3, <2>7
  <2> QED
    BY <2>4, <2>5, <2>6, <2>7
<1>11. CASE ReadFails(t)
  BY <1>9, <1>11 DEF ReadFails
<1>12. CASE PeerClosed(t)
  <2>1. table' = table /\ main' = main /\ UNCHANGED clients /\ threads' = [threads EXCEPT ![t] = Finished]
    BY <1>12 DEF PeerClosed, Finish
  <2>2. PeersKept /\ backlog' = backlog /\ wrote' = wrote /\ inbox' = inbox
    BY <2>1, ClientsUnchanged DEF WebInv
  <2>3. OwnStep(t, Finished)
    BY <1>3, <1>4, <2>1, <2>2 DEF OwnStep, KeepsTable
  <2> QED
    BY <1>4, <2>3
<1>13. CASE Open(t)
  <2>1. main' = main /\ UNCHANGED clients
    BY <1>13 DEF Open
  <2>2. PeersKept /\ backlog' = backlog /\ wrote' = wrote /\ inbox' = inbox
    BY <2>1, ClientsUnchanged DEF WebInv
  <2>3. CASE Kind[Peer(t)] = "page" /\ FreeFds # {}
    <3> DEFINE d == Least(FreeFds)
               r == [old EXCEPT !.pc = "header", !.file = d]
    <3>1. table' = [table EXCEPT ![d] = "file"] /\ threads' = [threads EXCEPT ![t] = r]
      BY <1>13, <2>3 DEF Open
    <3>2. d \in Fds /\ table[d] = "free"
      BY <2>3, FreeFdIsFree
    <3> HIDE DEF d
    <3>3. r \in Thread /\ r.fd = old.fd /\ r.for = old.for /\ r.got = old.got /\ r.file = d
      BY <1>2, <3>2 DEF Thread
    <3> HIDE DEF r
    <3>4. Opens(t, r)
      BY <3>1, <3>2, <3>3 DEF Opens
    <3>5. OwnStep(t, r)
      BY <1>3, <2>1, <2>2, <3>1, <3>3, <3>4 DEF OwnStep
    <3> QED
      BY <3>3, <3>5
  <2>4. CASE ~(Kind[Peer(t)] = "page" /\ FreeFds # {})
    BY <1>9, <1>13, <2>4 DEF Open
  <2> QED
    BY <2>3, <2>4
<1>14. CASE Header(t) \/ Body(t)
  <2>1. PICK what : Write(Peer(t), what)
    BY <1>14 DEF Header, Body
  <2>2. /\ table' = table /\ main' = main /\ backlog' = backlog /\ wrote' = wrote
        /\ inbox' = inbox /\ HasFile(t)
        /\ Goto(t, "body") \/ Goto(t, "close_file")
    BY <1>14 DEF Header, Body, Runs, HasFile
  <2> QED
    BY <1>2, <1>8, <2>1, <2>2, WriteChanges DEF WebInv
<1>15. CASE Elog(t)
  <2>1. Write(Peer(t), old.error)
    BY <1>15 DEF Elog
  <2>2. /\ table' = table /\ main' = main /\ backlog' = backlog /\ wrote' = wrote
        /\ inbox' = inbox /\ Goto(t, "close")
    BY <1>15 DEF Elog
  <2> QED
    BY <1>2, <1>8, <2>1, <2>2, WriteChanges DEF WebInv
<1>16. CASE CloseFile(t)
  <2> DEFINE r == [old EXCEPT !.pc = "close"]
  <2>1. /\ threads' = [threads EXCEPT ![t] = r]
        /\ table' = [table EXCEPT ![old.file] = "free"] /\ old.pc = "close_file"
        /\ main' = main /\ UNCHANGED clients
    BY <1>16 DEF CloseFile, Goto, Runs
  <2>2. PeersKept /\ backlog' = backlog /\ wrote' = wrote /\ inbox' = inbox
    BY <2>1, ClientsUnchanged DEF WebInv
  <2>3. r \in Thread /\ r.fd = old.fd /\ r.for = old.for /\ r.got = old.got /\ r.pc = "close"
    BY <1>5
  <2> HIDE DEF r
  <2>4. OwnStep(t, r)
    BY <1>3, <2>1, <2>2, <2>3 DEF OwnStep, ClosesFile
  <2> QED
    BY <2>3, <2>4
<1>17. CASE Close(t)
  <2>1. /\ threads' = [threads EXCEPT ![t] = Finished]
        /\ table' = [table EXCEPT ![old.fd] = "free"]
        /\ main' = main /\ backlog' = backlog /\ wrote' = wrote /\ inbox' = inbox
        /\ PeersKept
    BY <1>3, <1>17 DEF Close, Finish, PeersKept
  <2>2. OwnStep(t, Finished)
    BY <1>3, <1>4, <2>1 DEF OwnStep, Closes
  <2> QED
    BY <1>4, <2>2
<1> QED
  BY <1>1, <1>2, <1>7, <1>10, <1>11, <1>12, <1>13, <1>14, <1>15, <1>16, <1>17 DEF Provserv

------------------------------------------------------------------------------
(* What a step of a serving thread preserves.                               *)

\* The descriptors of others, and of the thread while it lives, stay what they are.
LEMMA OwnStepTable ==
  ASSUME WebInv, NEW t \in DOMAIN threads, threads[t] \in Thread, t \in Live,
         NEW r \in Thread \cup {Finished}, OwnStep(t, r)
  PROVE  /\ table' \in [Fds -> {"free", "listen", "file"} \cup Conns]
         /\ \A d \in Fds : table[d] \in Conns /\ d # threads[t].fd => table'[d] = table[d]
         /\ \A d \in Fds : table'[d] \in Conns => table'[d] = table[d]
         /\ \A d \in Fds : table[d] = "file" /\ (HasFile(t) => d # threads[t].file) => table'[d] = "file"
         /\ table'[Listener] = "listen"
         /\ r.pc # "done" => table'[threads[t].fd] = table[threads[t].fd]
         /\ r.pc \in {"header", "body", "close_file"} =>
              /\ r.file \in Fds /\ table'[r.file] = "file"
              /\ \A u \in Live \ {t} : HasFile(u) => threads[u].file # r.file
<1>1. /\ table \in [Fds -> {"free", "listen", "file"} \cup Conns] /\ Listener \in Fds
      /\ table[Listener] = "listen"
  BY SizesAssumption DEF WebInv, TypeOK, ConnsOnce, Fds, Listener
<1>2. threads[t].fd \in Fds /\ table[threads[t].fd] \in Conns
  BY DEF Thread, WebInv, ThreadsHold, Peer
<1>3. \A c \in Conns : c # "free" /\ c # "listen" /\ c # "file"
  BY NamesAssumption
<1>4. HasFile(t) => threads[t].file \in Fds /\ table[threads[t].file] = "file"
  BY DEF WebInv, ThreadsHold
<1>5. \A u \in Live \ {t} :
        HasFile(u) => /\ threads[u].file \in Fds /\ table[threads[u].file] = "file"
                      /\ HasFile(t) => threads[u].file # threads[t].file
  BY DEF WebInv, ThreadsHold
<1>6. CASE KeepsTable(t, r)
  BY <1>1, <1>4, <1>5, <1>6 DEF KeepsTable
<1>7. CASE Opens(t, r)
  <2>1. PICK d \in Fds : table[d] = "free" /\ table' = [table EXCEPT ![d] = "file"] /\ r.file = d
    BY <1>7 DEF Opens
  <2> QED
    BY <1>1, <1>2, <1>3, <1>5, <2>1
<1>8. CASE ClosesFile(t, r)
  <2>1. /\ threads[t].file \in Fds /\ table[threads[t].file] = "file" /\ HasFile(t)
        /\ table' = [table EXCEPT ![threads[t].file] = "free"] /\ r.pc = "close"
    BY <1>4, <1>8 DEF ClosesFile, HasFile
  <2> QED
    BY <1>1, <1>2, <1>3, <2>1
<1>9. CASE Closes(t, r)
  <2>1. r.pc = "done" /\ table' = [table EXCEPT ![threads[t].fd] = "free"]
    BY <1>9, FinishedIsDone DEF Closes
  <2> QED
    BY <1>1, <1>2, <1>3, <2>1
<1> QED
  BY <1>6, <1>7, <1>8, <1>9 DEF OwnStep

LEMMA OwnStepThreads ==
  ASSUME WebInv, NEW t \in DOMAIN threads, NEW r \in Thread \cup {Finished}, OwnStep(t, r)
  PROVE  /\ threads' \in Seq(Thread \cup {Finished}) /\ Len(threads') = Len(threads)
         /\ DOMAIN threads' = DOMAIN threads /\ threads'[t] = r
         /\ \A u \in DOMAIN threads : u # t => threads'[u] = threads[u]
         /\ Live' = {u \in DOMAIN threads : IF u = t THEN r.pc # "done" ELSE u \in Live}
<1>1. /\ threads' \in Seq(Thread \cup {Finished}) /\ Len(threads') = Len(threads)
      /\ DOMAIN threads' = DOMAIN threads /\ threads'[t] = r
      /\ \A u \in DOMAIN threads : u # t => threads'[u] = threads[u]
  BY ThreadUpdate DEF OwnStep, WebInv
<1> QED
  BY <1>1 DEF Live

LEMMA OwnStepHolds ==
  ASSUME WebInv, NEW t \in DOMAIN threads, threads[t] \in Thread, t \in Live,
         NEW r \in Thread \cup {Finished}, OwnStep(t, r)
  PROVE  ThreadsHold'
<1>1. Waiting' = Waiting
  BY DEF OwnStep, main, Waiting, FreeSlots
<1>2. /\ DOMAIN threads' = DOMAIN threads /\ threads'[t] = r
      /\ \A u \in DOMAIN threads : u # t => threads'[u] = threads[u]
      /\ Live' = {u \in DOMAIN threads : IF u = t THEN r.pc # "done" ELSE u \in Live}
  BY OwnStepThreads
<1>3. /\ inbox \in [Conns -> 0..2] /\ wrote \in [Conns -> 0..2] /\ wrote' = wrote
  BY DEF WebInv, TypeOK, OwnStep
<1>4. \A u \in Live : u \in DOMAIN threads /\ threads[u] \in Thread
  BY LiveThread DEF Live, WebInv
<1>5. \A u \in Live :
        /\ threads[u].fd \in Fds /\ threads[u].for \in Conns
        /\ table[threads[u].fd] = threads[u].for
        /\ threads[u].got \in 0..2
        /\ threads[u].fd \notin Waiting
        /\ HasFile(u) => threads[u].file \in Fds /\ table[threads[u].file] = "file"
        /\ threads[u].got + inbox[threads[u].for] <= wrote[threads[u].for]
  BY <1>4 DEF WebInv, ThreadsHold, Thread, Peer
<1>6. \A u, v \in Live :
        u # v => /\ threads[u].fd # threads[v].fd
                 /\ HasFile(u) /\ HasFile(v) => threads[u].file # threads[v].file
  BY DEF WebInv, ThreadsHold
<1>7. r.pc # "done" => r \in Thread /\ r.fd = threads[t].fd /\ r.for = threads[t].for
  BY FinishedIsDone DEF OwnStep
<1>8. /\ \A c \in Conns : inbox'[c] \in 0..2 /\ inbox'[c] <= inbox[c]
      /\ r.pc # "done" => r.got + inbox'[r.for] <= wrote[r.for]
  <2>1. CASE inbox' = inbox /\ (r.pc # "done" => r.got = threads[t].got)
    BY <1>3, <1>5, <1>7, <2>1
  <2>2. CASE /\ inbox' = [inbox EXCEPT ![Peer(t)] = 0]
             /\ r.got = threads[t].got + inbox[Peer(t)]
    <3>1. Peer(t) = threads[t].for
      BY <1>5 DEF Peer
    <3> QED
      BY <1>3, <1>5, <1>7, <2>2, <3>1
  <2> QED
    BY <2>1, <2>2 DEF OwnStep
<1>9. ASSUME NEW u \in Live'
      PROVE  /\ Peer(u)' = threads'[u].for /\ threads'[u].fd \notin Waiting'
             /\ HasFile(u)' => threads'[u].file \in Fds /\ table'[threads'[u].file] = "file"
             /\ threads'[u].got + inbox'[threads'[u].for] <= wrote'[threads'[u].for]
  <2>1. CASE u = t
    BY <1>1, <1>2, <1>3, <1>5, <1>7, <1>8, <1>9, <2>1, OwnStepTable DEF Peer, HasFile
  <2>2. CASE u # t
    <3>1. u \in Live /\ threads'[u] = threads[u] /\ threads[u].fd # threads[t].fd
      BY <1>2, <1>6, <1>9, <2>2
    <3>2. table'[threads[u].fd] = table[threads[u].fd]
      BY <1>5, <3>1, OwnStepTable
    <3>3. HasFile(u) => table'[threads[u].file] = "file"
      BY <1>5, <1>6, <2>2, <3>1, OwnStepTable
    <3>4. threads[u].got + inbox'[threads[u].for] <= wrote[threads[u].for]
      BY <1>3, <1>5, <1>8, <3>1
    <3> QED
      BY <1>1, <1>3, <1>5, <3>1, <3>2, <3>3, <3>4 DEF Peer, HasFile
  <2> QED
    BY <2>1, <2>2
<1>10. ASSUME NEW u \in Live', NEW v \in Live', u # v
       PROVE  /\ threads'[u].fd # threads'[v].fd
              /\ HasFile(u)' /\ HasFile(v)' => threads'[u].file # threads'[v].file
  <2>1. CASE u # t /\ v # t
    BY <1>2, <1>6, <1>10, <2>1 DEF HasFile
  <2>2. CASE u = t
    BY <1>2, <1>6, <1>7, <1>10, <2>2, OwnStepTable DEF HasFile
  <2>3. CASE v = t
    BY <1>2, <1>6, <1>7, <1>10, <2>3, OwnStepTable DEF HasFile
  <2> QED
    BY <2>1, <2>2, <2>3
<1> QED
  BY <1>9, <1>10 DEF ThreadsHold

LEMMA OwnStepInv ==
  ASSUME WebInv, NEW t \in DOMAIN threads, threads[t] \in Thread, t \in Live,
         NEW r \in Thread \cup {Finished}, OwnStep(t, r),
         up' \in BOOLEAN, closed' \in [Conns -> BOOLEAN]
  PROVE  WebInv'
<1>1. /\ clis' = clis /\ rfs' = rfs /\ maxfd' = maxfd /\ maxi' = maxi /\ pc' = pc
      /\ ready' = ready /\ nready' = nready /\ backlog' = backlog /\ wrote' = wrote
      /\ Waiting' = Waiting /\ FreeSlots' = FreeSlots /\ Found' = Found
  BY DEF OwnStep, main, Waiting, FreeSlots, Found
<1>2. /\ table' \in [Fds -> {"free", "listen", "file"} \cup Conns]
      /\ \A d \in Fds : table[d] \in Conns /\ d # threads[t].fd => table'[d] = table[d]
      /\ \A d \in Fds : table'[d] \in Conns => table'[d] = table[d]
      /\ table'[Listener] = "listen"
  BY OwnStepTable
<1>3. inbox' \in [Conns -> 0..2] /\ \A c \in Conns : inbox'[c] <= inbox[c]
  <2>1. inbox \in [Conns -> 0..2]
    BY DEF WebInv, TypeOK
  <2>2. inbox' = inbox \/ inbox' = [inbox EXCEPT ![Peer(t)] = 0]
    BY DEF OwnStep
  <2> QED
    BY <2>1, <2>2
<1>4. PeersKept
  BY DEF OwnStep
<1>5. TypeOK'
  <2>1. /\ rfs' \subseteq Fds /\ ready' \subseteq Fds /\ clis' \in [Slots -> Fds \cup {-1}]
        /\ maxfd' \in Fds /\ maxi' \in Slots /\ nready' \in 0..NFds
        /\ pc' \in {"select", "accept", "scan"}
        /\ backlog' \in Seq(Conns) /\ wrote' \in [Conns -> 0..2]
    BY <1>1 DEF WebInv, TypeOK
  <2>2. threads' \in Seq(Thread \cup {Finished}) /\ Len(threads') <= MaxThreads
    BY OwnStepThreads DEF WebInv, TypeOK
  <2> QED
    BY <1>2, <1>3, <1>4, <2>1, <2>2 DEF TypeOK, PeersKept
<1>6. WatchedAreWaiting'
  <2>1. ASSUME NEW k \in Slots \ FreeSlots
        PROVE  table'[clis[k]] \in Conns
    <3>1. clis[k] \in Waiting /\ clis[k] \in Fds /\ table[clis[k]] \in Conns
      BY DEF WebInv, TypeOK, WatchedAreWaiting, Waiting, FreeSlots
    <3>2. clis[k] # threads[t].fd
      BY <3>1 DEF WebInv, ThreadsHold
    <3> QED
      BY <1>2, <3>1, <3>2
  <2> QED
    BY <1>1, <2>1 DEF WebInv, WatchedAreWaiting
<1>7. ConnsOnce'
  <2>1. \A i \in 1..Len(backlog) : backlog[i] \in Conns
    BY DEF WebInv, TypeOK
  <2> QED
    BY <1>1, <1>2, <1>4, <2>1 DEF WebInv, ConnsOnce, PeersKept
<1>8. Arrives'
  <2>1. \A c \in Conns : inbox[c] \in Int /\ wrote[c] \in Int /\ inbox[c] <= wrote[c]
    BY DEF WebInv, TypeOK, Arrives
  <2>2. \A c \in Conns : inbox'[c] \in Int
    BY <1>3
  <2> QED
    BY <1>1, <1>3, <2>1, <2>2 DEF Arrives
<1>9. Round'
  BY <1>1 DEF WebInv, Round, CountMatchesReady
<1>10. ThreadsHold'
  BY OwnStepHolds
<1> QED
  BY <1>5, <1>6, <1>7, <1>8, <1>9, <1>10 DEF WebInv

LEMMA ProvservInv ==
  ASSUME WebInv, NEW t \in 1..MaxThreads, Provserv(t)
  PROVE  WebInv'
<1>1. /\ t \in DOMAIN threads /\ threads[t] \in Thread /\ t \in Live
      /\ \E r \in Thread \cup {Finished} : OwnStep(t, r)
  BY ProvservOwnStep
<1>2. up \in BOOLEAN /\ closed \in [Conns -> BOOLEAN] /\ Peer(t) \in Conns
  BY <1>1 DEF WebInv, TypeOK, ThreadsHold, Thread
<1>3. up' \in BOOLEAN
  BY <1>2, Zenon
  DEF Provserv, ReadData, Parse, PeerClosed, ReadFails, Open, Header, Body, CloseFile,
      Elog, Close, Write
<1>4. closed' = closed \/ closed' = [closed EXCEPT ![Peer(t)] = TRUE]
  BY DEF Provserv, ReadData, Parse, PeerClosed, ReadFails, Open, Header, Body, CloseFile,
         Elog, Close, clients
<1>5. closed' \in [Conns -> BOOLEAN]
  BY <1>2, <1>4
<1> QED
  BY <1>1, <1>3, <1>5, OwnStepInv

------------------------------------------------------------------------------
(* What a step of openserver preserves.                                     *)

LEMMA SetSizes ==
  ASSUME TypeOK
  PROVE  /\ IsFiniteSet(Fds) /\ Cardinality(Fds) = NFds
         /\ IsFiniteSet(Found) /\ Cardinality(Found) \in Nat /\ Found \subseteq Slots
<1>1. IsFiniteSet(Fds) /\ Cardinality(Fds) = NFds
  BY FS_Interval, SizesAssumption DEF Fds
<1>2. IsFiniteSet(0..maxi) /\ Found \subseteq 0..maxi /\ 0..maxi \subseteq Slots
  <2>1. maxi \in Int /\ 0..maxi \subseteq Slots
    BY SizesAssumption DEF TypeOK, Slots
  <2> QED
    BY <2>1, FS_Interval DEF Found
<1> QED
  BY <1>1, <1>2, FS_Subset, FS_CardinalityType

\* What select finds is the listener and the slots the scan will find.
LEMMA SelectCounts ==
  ASSUME TypeOK, WatchedAreWaiting, ConnsOnce, Select
  PROVE  /\ IsFiniteSet(ready') /\ ready' \subseteq Fds /\ nready' \in 0..NFds
         /\ nready' = Cardinality(Found') + (IF Listener \in ready' THEN 1 ELSE 0)
         /\ nready' > 0
<1> DEFINE R == ready' \ {Listener}
           F == Found'
           f == [k \in F |-> clis[k]]
<1>1. /\ ready' \subseteq rfs /\ ready' # {} /\ nready' = Cardinality(ready')
      /\ clis' = clis /\ maxi' = maxi
  BY DEF Select
<1>2. ready' \subseteq Fds /\ IsFiniteSet(ready') /\ Cardinality(ready') \in 0..NFds
  <2>1. ready' \subseteq Fds
    BY <1>1 DEF TypeOK
  <2> QED
    BY <2>1, SetSizes, FS_Subset, FS_CardinalityType
<1>3. nready' > 0
  BY <1>1, <1>2, FS_EmptySet
<1>4. F = {k \in 0..maxi : clis[k] # -1 /\ clis[k] \in ready'}
  BY <1>1 DEF Found
<1>5. \A k \in F : k \in Slots \ FreeSlots /\ clis[k] \in R
  <2>1. \A k \in F : k \in Slots \ FreeSlots /\ clis[k] \in ready'
    BY <1>4, SizesAssumption DEF TypeOK, Slots, FreeSlots
  <2>2. \A k \in Slots \ FreeSlots : clis[k] # Listener
    BY NamesAssumption DEF WatchedAreWaiting, ConnsOnce
  <2> QED
    BY <2>1, <2>2
<1>6. \A d \in R : \E k \in F : clis[k] = d
  <2>1. \A d \in R : d \in Waiting
    BY <1>1 DEF WatchedAreWaiting
  <2>2. \A k \in Slots \ FreeSlots : k \in 0..maxi /\ clis[k] # -1
    BY SizesAssumption DEF WatchedAreWaiting, TypeOK, Slots, FreeSlots
  <2> QED
    BY <1>4, <2>1, <2>2 DEF Waiting
<1>7. \A k, l \in F : clis[k] = clis[l] => k = l
  BY <1>5 DEF WatchedAreWaiting
<1>8. f \in Bijection(F, R)
  <2> HIDE DEF F, R
  <2>1. f \in [F -> R] /\ \A k, l \in F : f[k] = f[l] => k = l
    BY <1>5, <1>7
  <2>2. \A d \in R : \E k \in F : f[k] = d
    BY <1>6
  <2> QED
    BY <2>1, <2>2, Fun_IsBij
<1>9. IsFiniteSet(R) /\ Cardinality(R) = Cardinality(ready') - (IF Listener \in ready' THEN 1 ELSE 0)
  BY <1>2, FS_RemoveElement
<1>10. Cardinality(F) = Cardinality(R)
  <2>1. f \in Bijection(F, R) => ExistsBijection(F, R)
    BY DEF ExistsBijection
  <2> HIDE DEF F, R, f
  <2> QED
    BY <1>8, <1>9, <2>1, FS_Bijection, Fun_ExistsBijSymmetric
<1> QED
  BY <1>1, <1>2, <1>3, <1>9, <1>10

\* Threads keep what they hold if no descriptor in use changes hands.
LEMMA ThreadsKept ==
  ASSUME WebInv, threads' = threads, inbox' = inbox, wrote' = wrote,
         \A d \in Fds : table[d] # "free" => table'[d] = table[d],
         \A t \in Live : threads[t].fd \notin Waiting'
  PROVE  ThreadsHold'
<1>1. Live' = Live
  BY DEF Live
<1>2. \A t \in Live :
        /\ threads[t].fd \in Fds /\ table[threads[t].fd] = threads[t].for
        /\ threads[t].for \in Conns
        /\ HasFile(t) => threads[t].file \in Fds /\ table[threads[t].file] = "file"
        /\ threads[t].got + inbox[threads[t].for] <= wrote[threads[t].for]
  <2>1. \A t \in Live : t \in DOMAIN threads /\ threads[t] \in Thread
    BY LiveThread DEF Live, WebInv
  <2> QED
    BY <2>1 DEF WebInv, ThreadsHold, Thread, Peer
<1>3. \A t \in Live : threads[t].for # "free"
  BY <1>2, NamesAssumption
<1>4. \A t \in Live :
        /\ Peer(t)' = threads[t].for
        /\ HasFile(t)' => threads[t].file \in Fds /\ table'[threads[t].file] = "file"
  BY <1>2, <1>3 DEF Peer, HasFile
<1>5. \A t, u \in Live :
        t # u => /\ threads[t].fd # threads[u].fd
                 /\ HasFile(t)' /\ HasFile(u)' => threads[t].file # threads[u].file
  BY DEF WebInv, ThreadsHold, HasFile
<1> QED
  BY <1>1, <1>2, <1>4, <1>5 DEF ThreadsHold

LEMMA SelectInv ==
  ASSUME WebInv, Select
  PROVE  WebInv'
<1>1. /\ up' = up /\ table' = table /\ clis' = clis /\ rfs' = rfs /\ maxfd' = maxfd
      /\ maxi' = maxi /\ threads' = threads /\ clients' = clients
      /\ Waiting' = Waiting /\ FreeSlots' = FreeSlots
  BY DEF Select, Waiting, FreeSlots
<1>2. /\ ready' \subseteq Fds /\ nready' \in 0..NFds /\ nready' > 0
      /\ nready' = Cardinality(Found') + (IF Listener \in ready' THEN 1 ELSE 0)
      /\ ready' \subseteq rfs
      /\ pc' = IF Listener \in ready' THEN "accept" ELSE "scan"
      /\ Listener \in ready' => backlog # <<>>
  BY SelectCounts DEF WebInv, Select, Readable
<1>3. TypeOK'
  <2>1. pc' \in {"select", "accept", "scan"}
    BY <1>2
  <2>2. up' \in BOOLEAN /\ closed' \in [Conns -> BOOLEAN]
    BY <1>1, Zenon DEF WebInv, TypeOK, clients
  <2> QED
    BY <1>1, <1>2, <2>1, <2>2 DEF WebInv, TypeOK, clients
<1>4. WatchedAreWaiting'
  BY <1>1 DEF WebInv, WatchedAreWaiting
<1>5. ConnsOnce' /\ Arrives'
  BY <1>1 DEF WebInv, ConnsOnce, Arrives, clients
<1>6. ThreadsHold'
  <2>1. \A t \in Live : threads[t].fd \notin Waiting'
    BY <1>1 DEF WebInv, ThreadsHold
  <2> QED
    BY <1>1, <2>1, ThreadsKept DEF clients
<1>7. Round'
  <2>1. Cardinality(Found') \in Nat
    <3>1. maxi \in Int /\ maxi' = maxi
      BY <1>1, SizesAssumption DEF WebInv, TypeOK, Slots
    <3>2. IsFiniteSet(0..maxi) /\ Found' \subseteq 0..maxi
      BY <3>1, FS_Interval DEF Found
    <3> QED
      BY <3>2, FS_Subset, FS_CardinalityType
  <2> QED
    BY <1>1, <1>2, <2>1 DEF Round, CountMatchesReady, clients
<1> QED
  BY <1>3, <1>4, <1>5, <1>6, <1>7 DEF WebInv

LEMMA AcceptFailsInv ==
  ASSUME WebInv, AcceptFails
  PROVE  WebInv'
<1>1. /\ up' = up /\ table' = table /\ clis' = clis /\ rfs' = rfs /\ maxfd' = maxfd
      /\ maxi' = maxi /\ threads' = threads /\ clients' = clients
      /\ Waiting' = Waiting /\ FreeSlots' = FreeSlots
      /\ pc' = "select" /\ nready' = 0 /\ ready' = {}
  BY DEF AcceptFails, Continue, Waiting, FreeSlots
<1>2. TypeOK'
  <2>1. up' \in BOOLEAN /\ closed' \in [Conns -> BOOLEAN]
    BY <1>1, Zenon DEF WebInv, TypeOK, clients
  <2>2. nready' \in 0..NFds
    BY <1>1, SizesAssumption
  <2> QED
    BY <1>1, <2>1, <2>2 DEF WebInv, TypeOK, clients
<1>3. WatchedAreWaiting' /\ Round'
  BY <1>1 DEF WebInv, WatchedAreWaiting, Round, CountMatchesReady
<1>4. ConnsOnce' /\ Arrives'
  BY <1>1 DEF WebInv, ConnsOnce, Arrives, clients
<1>5. ThreadsHold'
  <2>1. \A t \in Live : threads[t].fd \notin Waiting'
    BY <1>1 DEF WebInv, ThreadsHold
  <2> QED
    BY <1>1, <2>1, ThreadsKept DEF clients
<1> QED
  BY <1>2, <1>3, <1>4, <1>5 DEF WebInv

\* The slots that Register fills and Release empties.
LEMMA RegisterWaiting ==
  ASSUME WebInv, NEW k \in Slots, clis[k] = -1, NEW cli \in Fds, Register(cli, k)
  PROVE  Waiting' = Waiting \cup {cli}
<1>1. clis \in [Slots -> Fds \cup {-1}] /\ cli # -1
  BY SizesAssumption DEF WebInv, TypeOK, Fds
<1>2. clis'[k] = cli /\ \A j \in Slots : j # k => clis'[j] = clis[j]
  BY <1>1 DEF Register
<1>3. Slots \ FreeSlots' = (Slots \ FreeSlots) \cup {k} /\ k \notin Slots \ FreeSlots
  BY <1>1, <1>2 DEF FreeSlots
<1>4. \A x : x \in Waiting' <=> x = cli \/ x \in Waiting
  BY <1>2, <1>3 DEF Waiting
<1> QED
  BY <1>4

LEMMA ReleaseWaiting ==
  ASSUME WebInv, NEW k \in Slots \ FreeSlots, Release(k)
  PROVE  Waiting' = Waiting \ {clis[k]}
<1>1. clis \in [Slots -> Fds \cup {-1}]
  BY DEF WebInv, TypeOK
<1>2. clis'[k] = -1 /\ \A j \in Slots : j # k => clis'[j] = clis[j]
  BY <1>1 DEF Release
<1>3. Slots \ FreeSlots' = (Slots \ FreeSlots) \ {k}
  BY <1>2 DEF FreeSlots
<1>4. \A j \in Slots \ FreeSlots : clis[j] = clis[k] => j = k
  BY DEF WebInv, WatchedAreWaiting
<1>5. \A x : x \in Waiting' <=> x # clis[k] /\ x \in Waiting
  BY <1>2, <1>3, <1>4 DEF Waiting
<1> QED
  BY <1>5

LEMMA AcceptInv ==
  ASSUME WebInv, Accept
  PROVE  WebInv'
<1> DEFINE cli == Least(FreeFds)
           k == Least(FreeSlots)
           c == Head(backlog)
<1>1. /\ FreeFds # {} /\ pc = "accept" /\ table' = [table EXCEPT ![cli] = c]
      /\ IF FreeSlots = {} THEN UNCHANGED <<clis, rfs, maxfd, maxi>> ELSE Register(cli, k)
      /\ backlog' = Tail(backlog) /\ Continue(nready - 1)
      /\ up' = up /\ threads' = threads /\ side' = side /\ wrote' = wrote /\ inbox' = inbox
      /\ replies' = replies /\ closed' = closed
  BY DEF Accept
<1>2. cli \in Fds /\ table[cli] = "free"
  BY <1>1, FreeFdIsFree
<1>3. FreeSlots # {} => k \in Slots /\ clis[k] = -1
  BY FreeSlotIsFree
<1>4. /\ backlog \in Seq(Conns) /\ backlog # <<>> /\ nready = Cardinality(Found) + 1
      /\ ready \subseteq rfs
  BY <1>1 DEF WebInv, TypeOK, Round, CountMatchesReady
<1>5. /\ c \in Conns /\ c = backlog[1] /\ Tail(backlog) \in Seq(Conns)
      /\ Len(Tail(backlog)) = Len(backlog) - 1 /\ Len(backlog) >= 1
      /\ \A i \in 1..Len(Tail(backlog)) : Tail(backlog)[i] = backlog[i + 1]
  BY <1>4
<1>6. table \in [Fds -> {"free", "listen", "file"} \cup Conns]
  BY DEF WebInv, TypeOK
<1>7. Listener \in Fds /\ table[Listener] = "listen" /\ cli # Listener
  BY <1>2, SizesAssumption DEF WebInv, ConnsOnce, Fds, Listener
<1>8. /\ \A x \in Conns : x # "free" /\ x # "listen" /\ x # "file"
      /\ \A j \in Slots \ FreeSlots : clis[j] # cli /\ table[clis[j]] \in Conns
  BY <1>2, NamesAssumption DEF WebInv, WatchedAreWaiting
<1>9. cli \notin rfs /\ cli \notin Waiting
  BY <1>7, <1>8 DEF WebInv, WatchedAreWaiting, Waiting
<1>10. clis \in [Slots -> Fds \cup {-1}] /\ \A d \in Fds : d # -1
  BY SizesAssumption DEF WebInv, TypeOK, Fds
<1>11. /\ table' \in [Fds -> {"free", "listen", "file"} \cup Conns]
       /\ table'[cli] = c /\ \A d \in Fds : d # cli => table'[d] = table[d]
  BY <1>1, <1>2, <1>5, <1>6
<1> HIDE DEF cli, k, c
\* What the slots and the bookkeeping become, with and without a free slot.
<1>12. /\ clis' \in [Slots -> Fds \cup {-1}] /\ maxfd' \in Fds /\ maxi' \in Slots
       /\ maxfd <= maxfd' /\ maxi <= maxi'
       /\ FreeSlots = {} => /\ clis' = clis /\ rfs' = rfs /\ maxfd' = maxfd /\ maxi' = maxi
       /\ FreeSlots # {} =>
            /\ clis' = [clis EXCEPT ![k] = cli] /\ rfs' = rfs \cup {cli}
            /\ cli <= maxfd' /\ k <= maxi'
  <2>1. maxfd \in Fds /\ maxi \in Slots
    BY DEF WebInv, TypeOK
  <2>2. Fds \subseteq Int /\ Slots \subseteq Int
    BY SizesAssumption DEF Fds, Slots
  <2>3. CASE FreeSlots = {}
    BY <1>1, <1>10, <2>1, <2>2, <2>3
  <2>4. CASE FreeSlots # {}
    <3>1. /\ clis' = [clis EXCEPT ![k] = cli] /\ rfs' = rfs \cup {cli}
          /\ maxfd' = IF cli > maxfd THEN cli ELSE maxfd
          /\ maxi' = IF k > maxi THEN k ELSE maxi
      BY <1>1, <2>4 DEF Register
    <3>2. cli \in Fds /\ k \in Slots
      BY <1>2, <1>3, <2>4
    <3>3. /\ maxfd' \in Fds /\ maxi' \in Slots /\ maxfd <= maxfd' /\ maxi <= maxi'
          /\ cli <= maxfd' /\ k <= maxi'
      BY <2>1, <2>2, <3>1, <3>2
    <3>4. clis' \in [Slots -> Fds \cup {-1}]
      BY <1>10, <3>1, <3>2
    <3> QED
      BY <2>4, <3>1, <3>3, <3>4
  <2> QED
    BY <2>3, <2>4
<1>13. /\ FreeSlots = {} => FreeSlots' = FreeSlots /\ Waiting' = Waiting
       /\ FreeSlots # {} => FreeSlots' = FreeSlots \ {k} /\ Waiting' = Waiting \cup {cli}
  <2>1. CASE FreeSlots = {}
    BY <1>12, <2>1 DEF FreeSlots, Waiting
  <2>2. CASE FreeSlots # {}
    <3>1. /\ \A j \in Slots : j # k => clis'[j] = clis[j]
          /\ clis'[k] = cli /\ k \in Slots /\ clis[k] = -1 /\ cli # -1
      BY <1>2, <1>3, <1>10, <1>12, <2>2
    <3>2. FreeSlots' = FreeSlots \ {k}
      BY <3>1 DEF FreeSlots
    <3> QED
      BY <2>2, <3>1, <3>2 DEF FreeSlots, Waiting
  <2> QED
    BY <2>1, <2>2
<1>14. Found' = IF ready' = ready THEN Found ELSE Found'
  <2>1. SUFFICES ASSUME ready' = ready PROVE Found' = Found
    OBVIOUS
  <2>2. \A j \in Slots : j \in Found' <=> j \in Found
    <3>1. TAKE j \in Slots
    <3>2. maxi \in Int /\ maxi' \in Int /\ j \in Int /\ j >= 0
      BY <1>12, SizesAssumption DEF WebInv, TypeOK, Slots
    <3>3. clis[j] # -1 => j <= maxi
      BY DEF WebInv, WatchedAreWaiting, FreeSlots
    <3>4. CASE clis'[j] = clis[j]
      BY <1>12, <2>1, <3>2, <3>3, <3>4 DEF Found
    <3>5. CASE clis'[j] # clis[j]
      <4>1. clis'[j] = cli /\ clis[j] = -1
        BY <1>3, <1>10, <1>12, <3>5
      <4> QED
        BY <1>4, <1>9, <2>1, <4>1 DEF Found
    <3> QED
      BY <3>4, <3>5
  <2>3. Found \subseteq Slots /\ Found' \subseteq Slots
    BY <1>12, SizesAssumption DEF WebInv, TypeOK, Found, Slots
  <2> QED
    BY <2>2, <2>3
<1>15. /\ ready' \subseteq Fds /\ nready' \in 0..NFds /\ pc' \in {"select", "scan"}
       /\ pc' = "scan" => nready' = Cardinality(Found') /\ nready' > 0
  <2>1. Cardinality(Found) \in Nat /\ nready \in 0..NFds /\ ready \subseteq Fds /\ NFds \in Nat
    BY SetSizes, SizesAssumption DEF WebInv, TypeOK
  <2>2. CASE nready - 1 > 0
    BY <1>1, <1>4, <1>14, <2>1, <2>2 DEF Continue
  <2>3. CASE ~(nready - 1 > 0)
    BY <1>1, <2>1, <2>3 DEF Continue
  <2> QED
    BY <2>2, <2>3
<1>16. TypeOK'
  <2>1. up' \in BOOLEAN /\ closed' \in [Conns -> BOOLEAN]
    BY <1>1, Zenon DEF WebInv, TypeOK
  <2>2. rfs' \subseteq Fds
    BY <1>2, <1>12 DEF WebInv, TypeOK
  <2>3. backlog' \in Seq(Conns)
    BY <1>1, <1>5
  <2> QED
    BY <1>1, <1>11, <1>12, <1>15, <2>1, <2>2, <2>3 DEF WebInv, TypeOK
<1>17. WatchedAreWaiting'
  <2>1. rfs' = {Listener} \cup Waiting'
    BY <1>12, <1>13 DEF WebInv, WatchedAreWaiting
  <2>2. \A j \in Slots \ FreeSlots :
          /\ table'[clis[j]] \in Conns /\ clis[j] <= maxfd' /\ j <= maxi'
    <3>1. maxfd \in Int /\ maxfd' \in Int /\ maxi \in Int /\ maxi' \in Int
      BY <1>12, SizesAssumption DEF WebInv, TypeOK, Fds, Slots
    <3>2. TAKE j \in Slots \ FreeSlots
    <3>3. clis[j] \in Fds /\ clis[j] \in Int /\ j \in Int
      BY <1>10, SizesAssumption DEF FreeSlots, Fds, Slots
    <3>4. clis[j] <= maxfd /\ j <= maxi
      BY DEF WebInv, WatchedAreWaiting
    <3> QED
      BY <1>8, <1>11, <1>12, <3>1, <3>3, <3>4
  <2>3. CASE FreeSlots = {}
    BY <1>12, <1>13, <2>1, <2>2, <2>3 DEF WebInv, WatchedAreWaiting
  <2>4. CASE FreeSlots # {}
    <3>1. /\ \A j \in Slots \ FreeSlots : clis'[j] = clis[j] /\ clis[j] # cli /\ j # k
          /\ clis'[k] = cli /\ Slots \ FreeSlots' = (Slots \ FreeSlots) \cup {k}
      BY <1>3, <1>8, <1>10, <1>12, <1>13, <2>4 DEF FreeSlots
    <3>2. \A i, j \in Slots \ FreeSlots : clis[i] = clis[j] => i = j
      BY DEF WebInv, WatchedAreWaiting
    <3>3. table'[cli] \in Conns /\ cli <= maxfd' /\ k <= maxi'
      BY <1>5, <1>11, <1>12, <2>4
    <3>4. \A i, j \in Slots \ FreeSlots' : clis'[i] = clis'[j] => i = j
      BY <3>1, <3>2
    <3>5. \A j \in Slots \ FreeSlots' :
            table'[clis'[j]] \in Conns /\ clis'[j] <= maxfd' /\ j <= maxi'
      BY <2>2, <3>1, <3>3
    <3> QED
      BY <2>1, <3>4, <3>5 DEF WatchedAreWaiting
  <2> QED
    BY <2>3, <2>4
<1>18. ConnsOnce'
  <2>1. \A d \in Fds : table[d] \in Conns => side[table[d]] # "new"
    BY DEF WebInv, ConnsOnce
  <2>2. \A d, e \in Fds : table[d] \in Conns /\ table[d] = table[e] => d = e
    BY DEF WebInv, ConnsOnce
  <2>3. \A i \in 1..Len(backlog) : side[backlog[i]] # "new" /\ \A d \in Fds : table[d] # backlog[i]
    BY DEF WebInv, ConnsOnce
  <2>4. \A i, j \in 1..Len(backlog) : backlog[i] = backlog[j] => i = j
    BY DEF WebInv, ConnsOnce
  <2>5. \A d \in Fds : table[d] # c
    BY <1>5, <2>3
  <2>6. \A i \in 1..Len(backlog') :
          /\ i + 1 \in 1..Len(backlog) /\ backlog'[i] = backlog[i + 1] /\ backlog'[i] # c
    BY <1>1, <1>5, <2>4
  <2>7. \A d, e \in Fds : table'[d] \in Conns /\ table'[d] = table'[e] => d = e
    BY <1>11, <2>2, <2>5
  <2>8. \A i, j \in 1..Len(backlog') : backlog'[i] = backlog'[j] => i = j
    BY <1>1, <1>5, <2>4, <2>6
  <2>9. \A i \in 1..Len(backlog') : side'[backlog'[i]] # "new" /\ \A d \in Fds : table'[d] # backlog'[i]
    BY <1>1, <1>11, <2>3, <2>6
  <2>10. \A d \in Fds : table'[d] \in Conns => side'[table'[d]] # "new"
    BY <1>1, <1>5, <1>11, <2>1, <2>3
  <2> QED
    BY <1>7, <1>11, <2>7, <2>8, <2>9, <2>10 DEF ConnsOnce
<1>19. ThreadsHold'
  <2>1. \A t \in Live : threads[t].fd \notin Waiting /\ threads[t].fd # cli
    <3>1. \A t \in Live : t \in DOMAIN threads /\ threads[t] \in Thread
      BY LiveThread DEF Live, WebInv
    <3>2. \A t \in Live : table[threads[t].fd] \in Conns
      BY <3>1 DEF WebInv, ThreadsHold, Peer, Thread
    <3> QED
      BY <1>2, <1>8, <3>2 DEF WebInv, ThreadsHold
  <2>2. \A t \in Live : threads[t].fd \notin Waiting'
    BY <1>13, <2>1
  <2>3. \A d \in Fds : table[d] # "free" => table'[d] = table[d]
    BY <1>2, <1>11
  <2> QED
    BY <1>1, <2>2, <2>3, ThreadsKept
<1>20. Arrives' /\ Round'
  BY <1>1, <1>15 DEF WebInv, Arrives, Round, CountMatchesReady
<1> QED
  BY <1>16, <1>17, <1>18, <1>19, <1>20 DEF WebInv

\* The scan that finds nothing more ends the round.
LEMMA ScanEndsInv ==
  ASSUME WebInv, Dispatch, Found = {}
  PROVE  WebInv'
<1>1. /\ up' = up /\ table' = table /\ clis' = clis /\ rfs' = rfs /\ maxfd' = maxfd
      /\ maxi' = maxi /\ threads' = threads /\ clients' = clients
      /\ Waiting' = Waiting /\ FreeSlots' = FreeSlots
      /\ pc' = "select" /\ nready' = 0 /\ ready' = {}
  BY DEF Dispatch, Continue, Waiting, FreeSlots
<1>2. TypeOK'
  <2>1. up' \in BOOLEAN /\ closed' \in [Conns -> BOOLEAN]
    BY <1>1, Zenon DEF WebInv, TypeOK, clients
  <2>2. nready' \in 0..NFds
    BY <1>1, SizesAssumption
  <2> QED
    BY <1>1, <2>1, <2>2 DEF WebInv, TypeOK, clients
<1>3. WatchedAreWaiting' /\ Round'
  BY <1>1 DEF WebInv, WatchedAreWaiting, Round, CountMatchesReady
<1>4. ConnsOnce' /\ Arrives'
  BY <1>1 DEF WebInv, ConnsOnce, Arrives, clients
<1>5. ThreadsHold'
  <2>1. \A t \in Live : threads[t].fd \notin Waiting'
    BY <1>1 DEF WebInv, ThreadsHold
  <2> QED
    BY <1>1, <2>1, ThreadsKept DEF clients
<1> QED
  BY <1>2, <1>3, <1>4, <1>5 DEF WebInv

\* A new thread takes over a descriptor no thread has and openserver gives up.
LEMMA HandedOverHolds ==
  ASSUME WebInv, table' = table, inbox' = inbox, wrote' = wrote,
         NEW d \in Waiting, Waiting' = Waiting \ {d}, d \in Fds, table[d] \in Conns,
         NEW r \in Thread, r.fd = d, r.for = table[d], r.got = 0, r.pc = "read",
         threads' = Append(threads, r)
  PROVE  ThreadsHold'
<1>1. PICK n \in Nat :
        /\ DOMAIN threads' = DOMAIN threads \cup {n} /\ n \notin DOMAIN threads
        /\ threads'[n] = r /\ \A t \in DOMAIN threads : threads'[t] = threads[t]
  <2>1. threads \in Seq(Thread \cup {Finished})
    BY DEF WebInv, TypeOK
  <2> DEFINE m == Len(threads) + 1
  <2>2. /\ m \in Nat /\ DOMAIN threads' = DOMAIN threads \cup {m} /\ m \notin DOMAIN threads
        /\ threads'[m] = r /\ \A t \in DOMAIN threads : threads'[t] = threads[t]
    BY <2>1
  <2> HIDE DEF m
  <2> QED
    BY <2>2
<1>2. Live' = Live \cup {n} /\ n \notin Live
  BY <1>1 DEF Live
<1>3. \A t \in Live :
        /\ t \in DOMAIN threads /\ threads[t].fd \notin Waiting
        /\ Peer(t) = threads[t].for
        /\ HasFile(t) => threads[t].file \in Fds /\ table[threads[t].file] = "file"
        /\ threads[t].got + inbox[threads[t].for] <= wrote[threads[t].for]
  BY DEF Live, WebInv, ThreadsHold
<1>4. \A t, u \in Live :
        t # u => /\ threads[t].fd # threads[u].fd
                 /\ HasFile(t) /\ HasFile(u) => threads[t].file # threads[u].file
  BY DEF WebInv, ThreadsHold
<1>5. \A t \in Live : threads'[t] = threads[t] /\ (HasFile(t)' <=> HasFile(t))
  BY <1>1, <1>3 DEF HasFile
<1>6. ~ HasFile(n)'
  BY <1>1 DEF HasFile
<1>7. /\ threads'[n].fd = d /\ table[d] = threads'[n].for /\ threads'[n].got = 0
      /\ threads'[n].for \in Conns
  BY <1>1
<1>8. 0 + inbox[threads'[n].for] <= wrote[threads'[n].for]
  <2>1. \A c \in Conns : 0 + inbox[c] <= wrote[c]
    <3>1. \A c \in Conns : inbox[c] \in Int /\ inbox[c] <= wrote[c]
      BY DEF WebInv, TypeOK, Arrives
    <3> QED
      BY <3>1
  <2> QED
    BY <1>7, <2>1, Zenon
<1>9. ASSUME NEW t \in Live'
      PROVE  /\ Peer(t)' = threads'[t].for /\ threads'[t].fd \notin Waiting'
             /\ HasFile(t)' => threads'[t].file \in Fds /\ table'[threads'[t].file] = "file"
             /\ threads'[t].got + inbox'[threads'[t].for] <= wrote'[threads'[t].for]
  <2>1. CASE t = n
    BY <1>6, <1>7, <1>8, <2>1 DEF Peer
  <2>2. CASE t # n
    BY <1>2, <1>3, <1>5, <1>9, <2>2 DEF Peer
  <2> QED
    BY <2>1, <2>2
<1>10. ASSUME NEW t \in Live', NEW u \in Live', t # u
       PROVE  /\ threads'[t].fd # threads'[u].fd
              /\ HasFile(t)' /\ HasFile(u)' => threads'[t].file # threads'[u].file
  <2>1. CASE t \in Live /\ u \in Live
    BY <1>4, <1>5, <1>10, <2>1, ZenonT(60)
  <2>2. CASE t = n
    BY <1>2, <1>3, <1>5, <1>6, <1>7, <1>10, <2>2, ZenonT(60)
  <2>3. CASE u = n
    BY <1>2, <1>3, <1>5, <1>6, <1>7, <1>10, <2>3
  <2> QED
    BY <1>2, <2>1, <2>2, <2>3
<1> QED
  BY <1>9, <1>10 DEF ThreadsHold

LEMMA DispatchInv ==
  ASSUME WebInv, Dispatch, Found # {}
  PROVE  WebInv'
<1> DEFINE k == Least(Found)
           d == clis[k]
           new == [fd |-> clis[k], for |-> table[clis[k]], pc |-> "read", got |-> 0,
                   error |-> "NO", file |-> -1]
<1>1. /\ pc = "scan" /\ Release(k) /\ Continue(nready - 1)
      /\ threads' = IF Len(threads) = MaxThreads THEN threads ELSE Append(threads, new)
      /\ up' = up /\ table' = table /\ maxfd' = maxfd /\ maxi' = maxi /\ clients' = clients
  BY DEF Dispatch
<1>2. k \in Found /\ k \in Slots \ FreeSlots /\ d \in ready
  <2>1. Found \subseteq Slots
    BY SetSizes DEF WebInv
  <2>2. Found \subseteq Nat
    BY <2>1, SizesAssumption DEF Slots
  <2>3. k \in Found
    BY <2>2, LeastIsIn
  <2> QED
    BY <2>1, <2>3 DEF Found, FreeSlots
<1>3. clis \in [Slots -> Fds \cup {-1}]
  BY DEF WebInv, TypeOK
<1>4. d \in Fds /\ d \in Waiting /\ table[d] \in Conns
  BY <1>2, <1>3 DEF WebInv, WatchedAreWaiting, Waiting, FreeSlots
<1>5. new \in Thread /\ new.fd = d /\ new.for = table[d] /\ new.got = 0 /\ new.pc = "read"
  BY <1>4 DEF Thread
<1>6. clis' = [clis EXCEPT ![k] = -1] /\ rfs' = rfs \ {d}
  BY <1>1 DEF Release
<1>7. /\ clis'[k] = -1 /\ \A j \in Slots : j # k => clis'[j] = clis[j]
      /\ clis' \in [Slots -> Fds \cup {-1}]
  BY <1>2, <1>3, <1>6
<1>8. \A j \in Slots \ FreeSlots : clis[j] = d => j = k
  BY <1>2 DEF WebInv, WatchedAreWaiting
<1> HIDE DEF k, d, new
<1>9. Slots \ FreeSlots' = (Slots \ FreeSlots) \ {k}
  BY <1>2, <1>7 DEF FreeSlots
<1>10. Waiting' = Waiting \ {d}
  BY <1>1, <1>2, ReleaseWaiting DEF d
<1>11. /\ ready' \subseteq Fds /\ nready' \in 0..NFds /\ pc' \in {"select", "scan"}
       /\ pc' = "scan" => nready' = Cardinality(Found') /\ nready' > 0
  <2>1. /\ nready = Cardinality(Found) /\ nready \in 0..NFds /\ nready > 0
        /\ ready \subseteq Fds /\ IsFiniteSet(Found) /\ NFds \in Nat /\ Found \subseteq Slots
    BY <1>1, SetSizes, SizesAssumption DEF WebInv, TypeOK, Round, CountMatchesReady
  <2>2. CASE nready - 1 > 0
    <3>1. pc' = "scan" /\ nready' = nready - 1 /\ ready' = ready
      BY <1>1, <2>2 DEF Continue
    <3>2. Found' = Found \ {k}
      <4>1. \A j \in 0..maxi : j \in Slots
        BY SizesAssumption DEF WebInv, TypeOK, Slots
      <4> QED
        BY <1>1, <1>7, <3>1, <4>1 DEF Found
    <3>3. Cardinality(Found') = Cardinality(Found) - 1
      BY <1>2, <2>1, <3>2, FS_RemoveElement
    <3> QED
      BY <2>1, <2>2, <3>1, <3>3
  <2>3. CASE ~(nready - 1 > 0)
    BY <1>1, <2>1, <2>3 DEF Continue
  <2> QED
    BY <2>2, <2>3
<1>12. TypeOK'
  <2>1. up' \in BOOLEAN /\ closed' \in [Conns -> BOOLEAN]
    BY <1>1, Zenon DEF WebInv, TypeOK, clients
  <2>2. rfs' \subseteq Fds
    BY <1>6 DEF WebInv, TypeOK
  <2>3. threads' \in Seq(Thread \cup {Finished}) /\ Len(threads') <= MaxThreads
    <3>1. threads \in Seq(Thread \cup {Finished}) /\ Len(threads) <= MaxThreads
      BY DEF WebInv, TypeOK
    <3> QED
      BY <1>1, <1>5, <3>1, SizesAssumption
  <2> QED
    BY <1>1, <1>7, <1>11, <2>1, <2>2, <2>3 DEF WebInv, TypeOK, clients
<1>13. WatchedAreWaiting'
  <2>1. rfs' = {Listener} \cup Waiting'
    <3>1. Listener # d
      BY <1>4, NamesAssumption DEF WebInv, ConnsOnce
    <3> QED
      BY <1>6, <1>10, <3>1 DEF WebInv, WatchedAreWaiting
  <2> QED
    BY <1>1, <1>7, <1>9, <2>1 DEF WebInv, WatchedAreWaiting
<1>14. ConnsOnce' /\ Arrives' /\ Round'
  BY <1>1, <1>11 DEF WebInv, ConnsOnce, Arrives, Round, CountMatchesReady, clients
<1>15. ThreadsHold'
  <2>1. CASE Len(threads) = MaxThreads
    <3>1. \A t \in Live : threads[t].fd \notin Waiting'
      BY <1>10 DEF WebInv, ThreadsHold
    <3> QED
      BY <1>1, <2>1, <3>1, ThreadsKept DEF clients
  <2>2. CASE Len(threads) # MaxThreads
    <3>1. threads' = Append(threads, new) /\ inbox' = inbox /\ wrote' = wrote
      BY <1>1, <2>2 DEF clients
    <3> QED
      BY <1>1, <1>4, <1>5, <1>10, <3>1, HandedOverHolds
  <2> QED
    BY <2>1, <2>2
<1> QED
  BY <1>12, <1>13, <1>14, <1>15 DEF WebInv

------------------------------------------------------------------------------
(* What a step of a client preserves.                                       *)

LEMMA ClientInv ==
  ASSUME WebInv, NEW c \in Conns, Connect(c) \/ Send(c) \/ Leave(c)
  PROVE  WebInv'
<1>1. /\ up' = up /\ table' = table /\ clis' = clis /\ rfs' = rfs /\ maxfd' = maxfd
      /\ maxi' = maxi /\ threads' = threads /\ pc' = pc /\ ready' = ready /\ nready' = nready
      /\ replies' = replies /\ closed' = closed
      /\ Waiting' = Waiting /\ FreeSlots' = FreeSlots /\ Found' = Found /\ Live' = Live
  BY DEF Connect, Send, Leave, main, Waiting, FreeSlots, Found, Live
<1>2. /\ up' \in BOOLEAN /\ closed' \in [Conns -> BOOLEAN]
  BY <1>1, Zenon DEF WebInv, TypeOK
<1>3. /\ side \in [Conns -> {"new", "up", "fin", "rst"}]
      /\ wrote \in [Conns -> 0..2] /\ inbox \in [Conns -> 0..2] /\ backlog \in Seq(Conns)
  BY DEF WebInv, TypeOK
<1>4. WatchedAreWaiting'
  BY <1>1 DEF WebInv, WatchedAreWaiting
<1>5. \A t \in Live : threads[t].fd \notin Waiting'
  BY <1>1 DEF WebInv, ThreadsHold
<1>6. CASE Connect(c)
  <2>1. /\ side[c] = "new" /\ side' = [side EXCEPT ![c] = "up"] /\ backlog' = Append(backlog, c)
        /\ wrote' = wrote /\ inbox' = inbox
    BY <1>6 DEF Connect
  <2>2. TypeOK'
    BY <1>1, <1>2, <1>3, <2>1 DEF WebInv, TypeOK
  <2>3. ConnsOnce'
    <3>1. /\ Len(backlog') = Len(backlog) + 1 /\ backlog'[Len(backlog) + 1] = c
          /\ \A i \in 1..Len(backlog) : backlog'[i] = backlog[i] /\ backlog[i] \in Conns
          /\ \A i \in 1..Len(backlog') : i = Len(backlog) + 1 \/ i \in 1..Len(backlog)
      BY <1>3, <2>1
    <3>2. \A i \in 1..Len(backlog) : backlog[i] # c
      BY <2>1 DEF WebInv, ConnsOnce
    <3>3. \A d \in Fds : table[d] # c
      BY <2>1 DEF WebInv, ConnsOnce
    <3>4. \A x \in Conns : side[x] # "new" => side'[x] # "new"
      BY <1>3, <2>1
    <3>5. side'[c] # "new"
      BY <1>3, <2>1
    <3>6. \A i, j \in 1..Len(backlog') : backlog'[i] = backlog'[j] => i = j
      BY <3>1, <3>2 DEF WebInv, ConnsOnce
    <3>7. \A i \in 1..Len(backlog') : side'[backlog'[i]] # "new" /\ \A d \in Fds : table[d] # backlog'[i]
      BY <3>1, <3>3, <3>4, <3>5 DEF WebInv, ConnsOnce
    <3>8. \A d \in Fds : table[d] \in Conns => side'[table[d]] # "new"
      BY <3>4 DEF WebInv, ConnsOnce
    <3> QED
      BY <1>1, <3>6, <3>7, <3>8 DEF WebInv, ConnsOnce
  <2>4. ThreadsHold'
    BY <1>1, <1>5, <2>1, ThreadsKept
  <2>5. Arrives' /\ Round'
    BY <1>1, <1>3, <2>1 DEF WebInv, Arrives, Round, CountMatchesReady
  <2> QED
    BY <1>4, <2>2, <2>3, <2>4, <2>5 DEF WebInv
<1>7. CASE Send(c)
  <2>1. /\ wrote[c] < 2 /\ wrote' = [wrote EXCEPT ![c] = @ + 1]
        /\ inbox' = [inbox EXCEPT ![c] = @ + 1] /\ side' = side /\ backlog' = backlog
    BY <1>7 DEF Send
  <2>2. \A x \in Conns : inbox[x] <= wrote[x]
    BY DEF WebInv, Arrives
  <2>3. wrote' \in [Conns -> 0..2] /\ inbox' \in [Conns -> 0..2]
    BY <1>3, <2>1, <2>2
  <2>4. TypeOK'
    BY <1>1, <1>2, <2>1, <2>3 DEF WebInv, TypeOK
  <2>5. Arrives'
    BY <1>3, <2>1, <2>2 DEF Arrives
  <2>6. ConnsOnce' /\ Round'
    BY <1>1, <2>1 DEF WebInv, ConnsOnce, Round, CountMatchesReady
  <2>7. ThreadsHold'
    <3>1. \A t \in Live : threads[t].for \in Conns /\ threads[t].got \in 0..2
      BY LiveThread DEF WebInv, Live, Thread
    <3>2. ASSUME NEW t \in Live
          PROVE  threads[t].got + inbox'[threads[t].for] <= wrote'[threads[t].for]
      <4>1. threads[t].got + inbox[threads[t].for] <= wrote[threads[t].for]
        BY DEF WebInv, ThreadsHold
      <4> QED
        BY <1>3, <2>1, <3>1, <4>1
    <3> QED
      BY <1>1, <3>2 DEF WebInv, ThreadsHold, Peer, HasFile
  <2> QED
    BY <1>4, <2>4, <2>5, <2>6, <2>7 DEF WebInv
<1>8. CASE Leave(c)
  <2>1. PICK how \in {"fin", "rst"} : side' = [side EXCEPT ![c] = how]
    BY <1>8 DEF Leave
  <2>2. backlog' = backlog /\ wrote' = wrote /\ inbox' = inbox
    BY <1>8 DEF Leave
  <2>3. /\ side' \in [Conns -> {"new", "up", "fin", "rst"}]
        /\ \A x \in Conns : side[x] # "new" => side'[x] # "new"
    BY <1>3, <2>1
  <2>4. TypeOK'
    BY <1>1, <1>2, <2>2, <2>3 DEF WebInv, TypeOK
  <2>5. ConnsOnce'
    BY <1>1, <1>3, <2>2, <2>3 DEF WebInv, ConnsOnce
  <2>6. ThreadsHold'
    BY <1>1, <1>5, <2>2, ThreadsKept
  <2>7. Arrives' /\ Round'
    BY <1>1, <2>2 DEF WebInv, Arrives, Round, CountMatchesReady
  <2> QED
    BY <1>4, <2>4, <2>5, <2>6, <2>7 DEF WebInv
<1> QED
  BY <1>6, <1>7, <1>8

------------------------------------------------------------------------------
(* The theorems.                                                            *)

LEMMA InitHolds == Init => WebInv
<1> SUFFICES ASSUME Init PROVE WebInv
  OBVIOUS
<1>1. /\ NFds \in Nat \ {0} /\ NSlots \in Nat \ {0} /\ Listener \in Fds /\ 0 \in Slots
      /\ -1 \notin Fds
  BY SizesAssumption DEF Fds, Slots, Listener
<1>2. /\ table \in [Fds -> {"free", "listen"}] /\ table[Listener] = "listen"
      /\ \A d \in Fds : table[d] \notin Conns
  BY <1>1, NamesAssumption DEF Init
<1>3. Live = {} /\ Waiting = {} /\ Slots \ FreeSlots = {}
  BY DEF Init, Live, Waiting, FreeSlots
<1>4. TypeOK
  <2>1. up \in BOOLEAN /\ closed \in [Conns -> BOOLEAN]
    BY Zenon DEF Init
  <2>2. nready \in 0..NFds /\ maxfd \in Fds /\ maxi \in Slots
    BY <1>1 DEF Init
  <2>3. threads \in Seq(Thread \cup {Finished}) /\ Len(threads) <= MaxThreads
    BY SizesAssumption DEF Init
  <2>4. clis \in [Slots -> Fds \cup {-1}] /\ rfs \subseteq Fds /\ ready \subseteq Fds
    BY <1>1 DEF Init
  <2>5. /\ pc \in {"select", "accept", "scan"} /\ backlog \in Seq(Conns)
        /\ side \in [Conns -> {"new", "up", "fin", "rst"}]
        /\ wrote \in [Conns -> 0..2] /\ inbox \in [Conns -> 0..2] /\ DOMAIN replies = Conns
    BY DEF Init
  <2> QED
    BY <1>2, <2>1, <2>2, <2>3, <2>4, <2>5 DEF TypeOK
<1>5. WatchedAreWaiting
  BY <1>3 DEF Init, WatchedAreWaiting
<1>6. ConnsOnce
  BY <1>2 DEF Init, ConnsOnce
<1>7. ThreadsHold
  BY <1>3 DEF ThreadsHold
<1>8. Arrives /\ Round
  BY DEF Init, Arrives, Round, CountMatchesReady
<1> QED
  BY <1>4, <1>5, <1>6, <1>7, <1>8 DEF WebInv

LEMMA StutterHolds == WebInv /\ UNCHANGED vars => WebInv'
<1> SUFFICES ASSUME WebInv, UNCHANGED vars PROVE WebInv'
  OBVIOUS
<1>1. /\ up' = up /\ table' = table /\ clis' = clis /\ rfs' = rfs /\ maxfd' = maxfd
      /\ maxi' = maxi /\ threads' = threads /\ pc' = pc /\ ready' = ready /\ nready' = nready
      /\ clients' = clients /\ inbox' = inbox /\ wrote' = wrote
      /\ Waiting' = Waiting /\ FreeSlots' = FreeSlots /\ Found' = Found
  BY DEF vars, main, clients, Waiting, FreeSlots, Found
<1>2. TypeOK'
  <2>1. up' \in BOOLEAN /\ closed' \in [Conns -> BOOLEAN]
    BY <1>1, Zenon DEF WebInv, TypeOK, clients
  <2> QED
    BY <1>1, <2>1 DEF WebInv, TypeOK, clients
<1>3. WatchedAreWaiting'
  BY <1>1 DEF WebInv, WatchedAreWaiting
<1>4. ConnsOnce' /\ Arrives' /\ Round'
  BY <1>1 DEF WebInv, ConnsOnce, Arrives, Round, CountMatchesReady, clients
<1>5. ThreadsHold'
  <2>1. \A t \in Live : threads[t].fd \notin Waiting'
    BY <1>1 DEF WebInv, ThreadsHold
  <2> QED
    BY <1>1, <2>1, ThreadsKept
<1> QED
  BY <1>2, <1>3, <1>4, <1>5 DEF WebInv

LEMMA StepHolds == WebInv /\ [Next]_vars => WebInv'
<1> SUFFICES ASSUME WebInv, [Next]_vars PROVE WebInv'
  OBVIOUS
<1>1. CASE Openserver
  <2>1. CASE Select
    BY <2>1, SelectInv
  <2>2. CASE AcceptFails
    BY <2>2, AcceptFailsInv
  <2>3. CASE Accept
    BY <2>3, AcceptInv
  <2>4. CASE Dispatch
    BY <2>4, ScanEndsInv, DispatchInv
  <2> QED
    BY <1>1, <2>1, <2>2, <2>3, <2>4 DEF Openserver
<1>2. ASSUME NEW t \in 1..MaxThreads, Provserv(t)
      PROVE  WebInv'
  BY <1>2, ProvservInv
<1>3. ASSUME NEW c \in Conns, Connect(c) \/ Send(c) \/ Leave(c)
      PROVE  WebInv'
  BY <1>3, ClientInv
<1>4. CASE UNCHANGED vars
  BY <1>4, StutterHolds
<1> QED
  BY <1>1, <1>2, <1>3, <1>4 DEF Next

LEMMA WebInvHolds == Spec => []WebInv
BY InitHolds, StepHolds, PTL DEF Spec

\* openserver's bookkeeping and the descriptor table never part: every client found
\* ready is handed over in the same round, whatever the serving threads close and
\* the kernel gives out again in the meantime (webserv.c:129-165).
THEOREM NoneOverlooked == Spec => []NobodyOverlooked
<1>1. WebInv => NobodyOverlooked
  BY DEF WebInv, Round, NobodyOverlooked
<1> QED
  BY <1>1, WebInvHolds, PTL

\* A descriptor has one user at a time: no thread answers on, or closes, what
\* accept has given to another connection (webserv.c:286, 326, 331).
THEOREM OneOwner == Spec => []ThreadsOwnTheirFd
<1>1. WebInv => ThreadsOwnTheirFd
  <2> SUFFICES ASSUME WebInv PROVE ThreadsOwnTheirFd
    OBVIOUS
  <2>1. \A t \in Live : threads[t] \in Thread /\ threads[t].fd \in Fds /\ threads[t].for \in Conns
    BY LiveThread DEF WebInv, Live, Thread
  <2>2. \A t \in Live :
          /\ Peer(t) = threads[t].for /\ threads[t].fd \notin Waiting
          /\ threads[t].pc \in {"header", "body", "close_file"} => table[threads[t].file] = "file"
    BY DEF WebInv, ThreadsHold, HasFile
  <2>3. \A t, u \in Live : t # u => threads[t].fd # threads[u].fd
    BY DEF WebInv, ThreadsHold
  <2>4. \A t, u \in Live : t # u => threads[t].for # threads[u].for
    BY <2>1, <2>2, <2>3 DEF WebInv, ConnsOnce, Peer
  <2> QED
    BY <2>2, <2>3, <2>4 DEF ThreadsOwnTheirFd
<1> QED
  BY <1>1, WebInvHolds, PTL

------------------------------------------------------------------------------
(* How a connection ends.  A second invariant on top of the first: what has  *)
(* been sent on a connection fits the place of its thread, nothing has been  *)
(* sent on one that has no thread yet, and a descriptor that is lost was     *)
(* lost for one of the two reasons.                                          *)

Held(d) == \E t \in Live : threads[t].fd = d
Lost(d) == table[d] \in Conns /\ d \notin Waiting /\ ~ Held(d)
LostInv == \A d \in Fds : Lost(d) => side[table[d]] = "fin" \/ Len(threads) = MaxThreads

Complete(reply, kind) ==
  \/ reply = <<"200", "page">> /\ kind = "page"
  \/ Len(reply) = 1 /\ reply # <<"200">>

\* What a thread at r.pc has sent a client that is still there.
Progress(r, s, reply, kind) ==
  /\ r.pc \in {"header", "body", "close_file"} => kind = "page"
  /\ s = "up" =>
       /\ r.pc \in {"read", "open", "header", "elog"} => reply = <<>>
       /\ r.pc = "body" => reply = <<"200">>
       /\ r.pc = "close_file" => reply = <<"200", "page">>
       /\ r.pc = "close" => Complete(reply, kind)

Answering(t) ==
  LET c == threads[t].for IN Progress(threads[t], side[c], replies[c], Kind[c])

AnswerInv ==
  /\ \A c \in Conns : side[c] = "new" => replies[c] = <<>> /\ ~ closed[c]
  /\ \A i \in 1..Len(backlog) : replies[backlog[i]] = <<>> /\ ~ closed[backlog[i]]
  /\ \A d \in Waiting : replies[table[d]] = <<>>
  /\ \A d \in Fds : table[d] \in Conns => ~ closed[table[d]]
  /\ \A c \in Conns : closed[c] /\ side[c] = "up" => Complete(replies[c], Kind[c])
  /\ \A t \in Live : Answering(t)

EndInv == WebInv /\ LostInv /\ AnswerInv

\* What a live thread is about.
LEMMA LiveFacts ==
  ASSUME WebInv, NEW t \in Live
  PROVE  /\ t \in DOMAIN threads /\ threads[t] \in Thread
         /\ threads[t].fd \in Fds /\ threads[t].for \in Conns
         /\ table[threads[t].fd] = threads[t].for
         /\ side[threads[t].for] # "new" /\ threads[t].fd \notin Waiting
         /\ \A d \in Fds : table[d] = threads[t].for => d = threads[t].fd
         /\ \A i \in 1..Len(backlog) : backlog[i] # threads[t].for
         /\ \A u \in Live \ {t} : threads[u].for # threads[t].for /\ threads[u].fd # threads[t].fd
<1>1. \A u \in Live : /\ u \in DOMAIN threads /\ threads[u] \in Thread
                      /\ threads[u].fd \in Fds /\ threads[u].for \in Conns
  BY LiveThread DEF WebInv, Live, Thread
<1>2. \A u \in Live : table[threads[u].fd] = threads[u].for /\ threads[u].fd \notin Waiting
  BY DEF WebInv, ThreadsHold, Peer
<1>3. \A u \in Live \ {t} : threads[u].fd # threads[t].fd
  BY DEF WebInv, ThreadsHold
<1>4. side[threads[t].for] # "new" /\ \A i \in 1..Len(backlog) : backlog[i] # threads[t].for
  BY <1>1, <1>2 DEF WebInv, ConnsOnce
<1>5. \A d \in Fds : table[d] = threads[t].for => d = threads[t].fd
  BY <1>1, <1>2 DEF WebInv, ConnsOnce
<1> QED
  BY <1>1, <1>2, <1>3, <1>4, <1>5

\* A step of a serving thread keeps the second invariant when it leaves the other
\* connections alone and its own as its place says.
LEMMA OwnStepEnds ==
  ASSUME EndInv, NEW t \in Live, NEW r \in Thread \cup {Finished}, OwnStep(t, r),
         NEW c \in Conns, c = threads[t].for,
         \A x \in Conns \ {c} :
            side'[x] = side[x] /\ replies'[x] = replies[x] /\ closed'[x] = closed[x],
         r.pc # "done" => Progress(r, side'[c], replies'[c], Kind[c]),
         table'[threads[t].fd] = "free" \/ (~ closed'[c] /\ (r.pc # "done" \/ side'[c] = "fin")),
         closed'[c] /\ side'[c] = "up" => Complete(replies'[c], Kind[c])
  PROVE  LostInv' /\ AnswerInv'
<1> DEFINE f == threads[t].fd
<1>1. WebInv
  BY DEF EndInv
<1>2. /\ t \in DOMAIN threads /\ threads[t] \in Thread /\ f \in Fds /\ table[f] = c
      /\ side[c] # "new" /\ f \notin Waiting
      /\ \A d \in Fds : table[d] = c => d = f
      /\ \A i \in 1..Len(backlog) : backlog[i] # c
      /\ \A u \in Live \ {t} : threads[u].for # c /\ threads[u].fd # f
  BY <1>1, LiveFacts
<1>3. /\ \A d \in Fds : table[d] \in Conns /\ d # f => table'[d] = table[d]
      /\ \A d \in Fds : table'[d] \in Conns => table'[d] = table[d]
  BY <1>1, <1>2, OwnStepTable
<1>4. /\ Len(threads') = Len(threads) /\ DOMAIN threads' = DOMAIN threads /\ threads'[t] = r
      /\ \A u \in DOMAIN threads : u # t => threads'[u] = threads[u]
      /\ Live' = {u \in DOMAIN threads : IF u = t THEN r.pc # "done" ELSE u \in Live}
  BY <1>1, <1>2, OwnStepThreads
<1>5. /\ Waiting' = Waiting /\ backlog' = backlog /\ PeersKept
      /\ r.pc # "done" => r.fd = f /\ r.for = c
  BY DEF OwnStep, main, Waiting, FreeSlots
<1>6. \A d \in Waiting : d \in Fds /\ table[d] \in Conns
  BY <1>1, SizesAssumption DEF WebInv, TypeOK, WatchedAreWaiting, Waiting, FreeSlots
<1>7. backlog \in Seq(Conns) /\ \A x \in Conns : x # "free"
  BY <1>1, NamesAssumption DEF WebInv, TypeOK
<1> HIDE DEF f
<1>8. LostInv'
  <2> SUFFICES ASSUME NEW d \in Fds, Lost(d)'
               PROVE  side'[table'[d]] = "fin" \/ Len(threads') = MaxThreads
    BY DEF LostInv
  <2>1. table'[d] \in Conns /\ table'[d] = table[d] /\ d \notin Waiting
        /\ \A u \in Live' : threads'[u].fd # d
    BY <1>3, <1>5 DEF Lost, Held
  <2>2. CASE d = f
    <3>1. r.pc = "done"
      BY <1>2, <1>4, <1>5, <2>1, <2>2
    <3> QED
      BY <1>2, <1>7, <2>1, <2>2, <3>1 DEF f
  <2>3. CASE d # f
    <3>1. \A u \in Live : threads[u].fd # d
      BY <1>4, <2>1, <2>3 DEF Live, f
    <3>2. Lost(d) /\ table[d] # c
      BY <1>2, <2>1, <2>3, <3>1 DEF Lost, Held
    <3> QED
      BY <1>4, <2>1, <3>2 DEF EndInv, LostInv
  <2> QED
    BY <2>2, <2>3
<1>9. AnswerInv'
  <2>1. \A x \in Conns : side'[x] = "new" => replies'[x] = <<>> /\ ~ closed'[x]
    <3>1. \A x \in Conns : side'[x] = "new" => side[x] = "new" /\ x # c
      BY <1>2, <1>5 DEF PeersKept
    <3> QED
      BY <3>1 DEF EndInv, AnswerInv
  <2>2. \A i \in 1..Len(backlog) : replies'[backlog[i]] = <<>> /\ ~ closed'[backlog[i]]
    <3>1. \A i \in 1..Len(backlog) : backlog[i] \in Conns \ {c}
      BY <1>2, <1>7
    <3> QED
      BY <3>1 DEF EndInv, AnswerInv
  <2>3. \A d \in Waiting : replies'[table'[d]] = <<>>
    <3>1. \A d \in Waiting : table'[d] = table[d] /\ table[d] \in Conns \ {c}
      BY <1>2, <1>3, <1>6
    <3> QED
      BY <3>1 DEF EndInv, AnswerInv
  <2>4. \A d \in Fds : table'[d] \in Conns => ~ closed'[table'[d]]
    <3> SUFFICES ASSUME NEW d \in Fds, table'[d] \in Conns PROVE ~ closed'[table'[d]]
      OBVIOUS
    <3>1. CASE d = f
      BY <1>2, <1>3, <1>7, <3>1 DEF f
    <3>2. CASE d # f
      <4>1. table'[d] = table[d] /\ table[d] \in Conns \ {c}
        BY <1>2, <1>3, <3>2
      <4>2. ~ closed[table[d]]
        BY <4>1 DEF EndInv, AnswerInv
      <4> QED
        BY <4>1, <4>2
    <3> QED
      BY <3>1, <3>2
  <2>5. \A x \in Conns : closed'[x] /\ side'[x] = "up" => Complete(replies'[x], Kind[x])
    <3>1. \A x \in Conns : closed[x] /\ side[x] = "up" => Complete(replies[x], Kind[x])
      BY DEF EndInv, AnswerInv
    <3>2. \A x \in Conns \ {c} : closed'[x] /\ side'[x] = "up" => Complete(replies'[x], Kind[x])
      BY <3>1, Zenon
    <3> QED
      BY <3>2, Zenon
  <2>6. ASSUME NEW u \in Live'
        PROVE  LET x == threads'[u].for IN Progress(threads'[u], side'[x], replies'[x], Kind[x])
    <3>1. CASE u = t
      BY <1>4, <1>5, <2>6, <3>1
    <3>2. CASE u # t
      <4>1. u \in Live /\ threads'[u] = threads[u] /\ threads[u].for # c
        BY <1>2, <1>4, <2>6, <3>2
      <4>2. threads[u].for \in Conns
        BY <1>1, <4>1, LiveFacts
      <4>3. Answering(u)
        BY <4>1 DEF EndInv, AnswerInv
      <4> QED
        BY <4>1, <4>2, <4>3 DEF Answering
    <3> QED
      BY <3>1, <3>2
  <2> QED
    BY <1>5, <2>1, <2>2, <2>3, <2>4, <2>5, <2>6 DEF AnswerInv, Answering
<1> QED
  BY <1>8, <1>9

\* Where a write leaves a client that was sent `before' until now.
LEMMA WriteReplies ==
  ASSUME TypeOK, NEW c \in Conns, NEW what, NEW before, Write(c, what),
         side[c] = "up" => replies[c] = before
  PROVE  /\ \A x \in Conns \ {c} : side'[x] = side[x] /\ replies'[x] = replies[x]
         /\ side'[c] = "up" => replies'[c] = Append(before, what)
<1>1. side \in [Conns -> {"new", "up", "fin", "rst"}] /\ DOMAIN replies = Conns
  BY DEF TypeOK
<1>2. CASE side[c] = "up" /\ replies' = [replies EXCEPT ![c] = Append(@, what)] /\ side' = side
  <2>1. replies'[c] = Append(replies[c], what)
    BY <1>1, <1>2
  <2>2. \A x \in Conns \ {c} : replies'[x] = replies[x]
    BY <1>1, <1>2
  <2> QED
    BY <1>2, <2>1, <2>2
<1>3. CASE side[c] = "fin" /\ side' = [side EXCEPT ![c] = "rst"] /\ replies' = replies
  BY <1>1, <1>3
<1>4. CASE side[c] = "rst" /\ side' = side /\ replies' = replies
  BY <1>4
<1> QED
  BY <1>2, <1>3, <1>4, Zenon DEF Write

LEMMA AppendPair ==
  ASSUME NEW a, NEW b
  PROVE  Append(<<a>>, b) = <<a, b>>
<1> DEFINE S == {a, b}
<1>1. <<a>> \in Seq(S) /\ Len(<<a>>) = 1 /\ <<a>>[1] = a
  OBVIOUS
<1>2. <<a, b>> \in Seq(S) /\ Len(<<a, b>>) = 2 /\ <<a, b>>[1] = a /\ <<a, b>>[2] = b
  OBVIOUS
<1>3. ASSUME NEW s \in Seq(S), Len(s) = 1, s[1] = a,
             NEW v \in Seq(S), Len(v) = 2, v[1] = a, v[2] = b
      PROVE  Append(s, b) = v
  <2> DEFINE u == Append(s, b)
  <2>1. b \in S
    OBVIOUS
  <2> HIDE DEF S
  <2>2. u \in Seq(S) /\ Len(u) = 2 /\ u[1] = a /\ u[2] = b
    <3>1. u \in Seq(S) /\ Len(u) = Len(s) + 1 /\ u[Len(s) + 1] = b
      BY <2>1, AppendProperties
    <3>2. \A i \in 1..Len(s) : u[i] = s[i]
      BY <2>1, AppendProperties
    <3> QED
      BY <1>3, <3>1, <3>2
  <2>3. \A i \in 1..2 : u[i] = v[i]
    BY <1>3, <2>2
  <2> QED
    BY <2>2, <2>3, <1>3, SeqEqual
<1> HIDE DEF S
<1> QED
  BY <1>1, <1>2, <1>3

LEMMA Appended ==
  /\ Append(<<>>, "200") = <<"200">> /\ Append(<<"200">>, "page") = <<"200", "page">>
  /\ \A e \in {"NO", "METHOD", "PROTO", "MIME", "NOT_FOUND", "INTERNAL"} :
       Append(<<>>, e) = <<e>> /\ Len(<<e>>) = 1 /\ <<e>> # <<"200">>
<1>1. Append(<<>>, "200") = <<"200">> /\ Append(<<"200">>, "page") = <<"200", "page">>
  <2>1. Append(<<>>, "200") = <<"200">>
    OBVIOUS
  <2> QED
    BY <2>1, AppendPair
<1>2. ASSUME NEW e \in {"NO", "METHOD", "PROTO", "MIME", "NOT_FOUND", "INTERNAL"}
      PROVE  Append(<<>>, e) = <<e>> /\ Len(<<e>>) = 1 /\ <<e>> # <<"200">>
  <2>1. <<e>>[1] = e /\ <<"200">>[1] = "200" /\ e # "200"
    OBVIOUS
  <2>2. Append(<<>>, e) = <<e>> /\ Len(<<e>>) = 1
    OBVIOUS
  <2> QED
    BY <2>1, <2>2
<1> QED
  BY <1>1, <1>2

\* Each step of provserv leaves its connection as its place says: it closes only
\* what it has answered in full, and gives up only what the client has closed.
LEMMA ProvservEnds ==
  ASSUME EndInv, NEW t \in 1..MaxThreads, Provserv(t)
  PROVE  EndInv'
<1> DEFINE old == threads[t]
           c == threads[t].for
           f == threads[t].fd
           new == threads'[t]
<1>1. WebInv /\ TypeOK
  BY DEF EndInv, WebInv
<1>2. /\ t \in DOMAIN threads /\ old \in Thread /\ t \in Live
      /\ \E r \in Thread \cup {Finished} : OwnStep(t, r)
  BY <1>1, ProvservOwnStep
<1>3. PICK r \in Thread \cup {Finished} : OwnStep(t, r)
  BY <1>2
<1>4. new = r
  BY <1>1, <1>2, <1>3, OwnStepThreads
<1>5. /\ c \in Conns /\ f \in Fds /\ table[f] = c /\ Peer(t) = c
  BY <1>1, <1>2, LiveFacts DEF Peer
<1>6. ~ closed[c] /\ Progress(old, side[c], replies[c], Kind[c])
  BY <1>2, <1>5 DEF EndInv, AnswerInv, Answering
<1>7. WebInv'
  BY <1>1, ProvservInv
<1>8. threads \in Seq(Thread \cup {Finished}) /\ closed \in [Conns -> BOOLEAN]
  BY <1>1, Zenon DEF TypeOK
<1>9. ASSUME NEW x, threads' = [threads EXCEPT ![t] = x]
      PROVE  new = x
  BY <1>2, <1>8, <1>9
\* What is left to show for each step.
<1>10. SUFFICES /\ \A x \in Conns \ {c} :
                     side'[x] = side[x] /\ replies'[x] = replies[x] /\ closed'[x] = closed[x]
                /\ r.pc # "done" => Progress(r, side'[c], replies'[c], Kind[c])
                /\ table'[f] = "free" \/ (~ closed'[c] /\ (r.pc # "done" \/ side'[c] = "fin"))
                /\ closed'[c] /\ side'[c] = "up" => Complete(replies'[c], Kind[c])
  BY <1>2, <1>3, <1>5, <1>7, OwnStepEnds DEF EndInv
<1> HIDE DEF c, f, new
\* Steps that send nothing.
<1>11. ASSUME UNCHANGED <<side, replies, closed>>, r.pc # "done",
              Progress(r, side[c], replies[c], Kind[c])
       PROVE  /\ \A x \in Conns \ {c} :
                   side'[x] = side[x] /\ replies'[x] = replies[x] /\ closed'[x] = closed[x]
              /\ r.pc # "done" => Progress(r, side'[c], replies'[c], Kind[c])
              /\ table'[f] = "free" \/ (~ closed'[c] /\ (r.pc # "done" \/ side'[c] = "fin"))
              /\ closed'[c] /\ side'[c] = "up" => Complete(replies'[c], Kind[c])
  BY <1>6, <1>11, Zenon
<1>12. ASSUME NEW e, Log(t, e), old.pc \in {"read", "open"}
       PROVE  r.pc = "elog" /\ Progress(r, side[c], replies[c], Kind[c])
  <2>1. r = [old EXCEPT !.pc = "elog", !.error = e]
    BY <1>4, <1>9, <1>12 DEF Log
  <2>2. r.pc = "elog"
    BY <1>2, <2>1 DEF Thread
  <2> QED
    BY <1>6, <1>12, <2>2 DEF Progress
<1>13. ASSUME NEW at, Goto(t, at)
       PROVE  r.pc = at /\ r # Finished
  <2>1. r = [old EXCEPT !.pc = at]
    BY <1>4, <1>9, <1>13 DEF Goto
  <2>2. r.pc = at /\ r.fd = old.fd
    BY <1>2, <2>1 DEF Thread
  <2>3. old.fd # -1
    BY <1>2, SizesAssumption DEF Thread, Fds
  <2> QED
    BY <2>2, <2>3 DEF Finished
<1>14. CASE ReadData(t)
  <2>1. /\ UNCHANGED <<side, replies, closed>> /\ old.pc = "read"
        /\ threads' = [threads EXCEPT ![t] = [old EXCEPT !.got = @ + inbox[Peer(t)]]]
    BY <1>14 DEF ReadData, Runs
  <2>2. r.pc = "read"
    BY <1>2, <1>4, <1>9, <2>1 DEF Thread
  <2> QED
    BY <1>6, <1>11, <2>1, <2>2 DEF Progress
<1>15. CASE Parse(t)
  <2>1. UNCHANGED <<side, replies, closed>> /\ old.pc = "read"
    BY <1>15 DEF Parse, Runs, clients
  <2>2. PICK e : IF e = "fault" THEN up' = FALSE /\ UNCHANGED threads
                 ELSE /\ IF e = "NO" THEN Goto(t, "open") ELSE Log(t, e)
                      /\ UNCHANGED up
    BY <1>15 DEF Parse
  <2>3. CASE e = "fault"
    <3>1. r = old
      BY <1>4, <2>2, <2>3 DEF new
    <3> QED
      BY <1>6, <1>11, <2>1, <3>1
  <2>4. CASE e = "NO"
    <3>1. r.pc = "open"
      BY <1>13, <2>2, <2>4
    <3> QED
      BY <1>6, <1>11, <2>1, <3>1 DEF Progress
  <2>5. CASE e # "fault" /\ e # "NO"
    <3>1. Log(t, e)
      BY <2>2, <2>5
    <3>2. r.pc = "elog" /\ Progress(r, side[c], replies[c], Kind[c])
      BY <1>12, <2>1, <3>1
    <3> QED
      BY <1>11, <2>1, <3>2
  <2> QED
    BY <2>3, <2>4, <2>5
<1>16. CASE PeerClosed(t)
  <2>1. /\ UNCHANGED <<side, replies, closed>> /\ side[c] = "fin"
        /\ threads' = [threads EXCEPT ![t] = Finished]
    BY <1>5, <1>16 DEF PeerClosed, Finish, clients
  <2>2. r.pc = "done"
    BY <1>4, <1>9, <2>1, FinishedIsDone
  <2> QED
    BY <1>6, <2>1, <2>2, Zenon
<1>17. CASE ReadFails(t)
  <2>1. UNCHANGED <<side, replies, closed>> /\ old.pc = "read" /\ Log(t, "INTERNAL")
    BY <1>17 DEF ReadFails, Runs, clients
  <2>2. r.pc = "elog" /\ Progress(r, side[c], replies[c], Kind[c])
    BY <1>12, <2>1
  <2> QED
    BY <1>11, <2>1, <2>2
<1>18. CASE Open(t)
  <2>1. UNCHANGED <<side, replies, closed>> /\ old.pc = "open"
    BY <1>18 DEF Open, Runs, clients
  <2>2. CASE Kind[Peer(t)] = "page" /\ FreeFds # {}
    <3>1. threads' = [threads EXCEPT ![t] = [old EXCEPT !.pc = "header", !.file = Least(FreeFds)]]
      BY <1>18, <2>2 DEF Open
    <3>2. r.pc = "header"
      BY <1>2, <1>4, <1>9, <3>1 DEF Thread
    <3>3. Progress(r, side[c], replies[c], Kind[c])
      BY <1>5, <1>6, <2>1, <2>2, <3>2 DEF Progress
    <3> QED
      BY <1>11, <2>1, <3>2, <3>3
  <2>3. CASE ~ (Kind[Peer(t)] = "page" /\ FreeFds # {})
    <3>1. Log(t, "NOT_FOUND")
      BY <1>18, <2>3 DEF Open
    <3>2. r.pc = "elog" /\ Progress(r, side[c], replies[c], Kind[c])
      BY <1>12, <2>1, <3>1
    <3> QED
      BY <1>11, <2>1, <3>2
  <2> QED
    BY <2>2, <2>3
\* Steps that send something.
<1>19. ASSUME NEW what, NEW before, NEW at \in {"body", "close_file", "close"},
              Write(c, what), closed' = closed, Goto(t, at),
              side[c] = "up" => replies[c] = before,
              at # "close" => Kind[c] = "page",
              at = "body" => Append(before, what) = <<"200">>,
              at = "close_file" => Append(before, what) = <<"200", "page">>,
              at = "close" => Complete(Append(before, what), Kind[c])
       PROVE  /\ \A x \in Conns \ {c} :
                   side'[x] = side[x] /\ replies'[x] = replies[x] /\ closed'[x] = closed[x]
              /\ r.pc # "done" => Progress(r, side'[c], replies'[c], Kind[c])
              /\ table'[f] = "free" \/ (~ closed'[c] /\ (r.pc # "done" \/ side'[c] = "fin"))
              /\ closed'[c] /\ side'[c] = "up" => Complete(replies'[c], Kind[c])
  <2>1. /\ \A x \in Conns \ {c} : side'[x] = side[x] /\ replies'[x] = replies[x]
        /\ side'[c] = "up" => replies'[c] = Append(before, what)
    BY <1>1, <1>5, <1>19, WriteReplies
  <2>2. r.pc = at
    BY <1>13, <1>19
  <2>3. Progress(r, side'[c], replies'[c], Kind[c])
    BY <1>19, <2>1, <2>2 DEF Progress
  <2> QED
    BY <1>6, <1>19, <2>1, <2>2, <2>3, Zenon
<1>20. CASE Header(t)
  <2>1. /\ old.pc = "header" /\ Write(c, "200") /\ Goto(t, "body") /\ closed' = closed
    BY <1>5, <1>20 DEF Header, Runs
  <2> QED
    BY <1>6, <1>19, <2>1, Appended DEF Progress
<1>21. CASE Body(t)
  <2>1. /\ old.pc = "body" /\ Write(c, "page") /\ Goto(t, "close_file") /\ closed' = closed
    BY <1>5, <1>21 DEF Body, Runs
  <2> QED
    BY <1>6, <1>19, <2>1, Appended DEF Progress
<1>22. CASE Elog(t)
  <2>1. /\ old.pc = "elog" /\ Write(c, old.error) /\ Goto(t, "close") /\ closed' = closed
    BY <1>5, <1>22 DEF Elog, Runs
  <2>2. old.error \in {"NO", "METHOD", "PROTO", "MIME", "NOT_FOUND", "INTERNAL"}
    BY <1>2 DEF Thread
  <2>3. Complete(Append(<<>>, old.error), Kind[c])
    BY <2>2, Appended DEF Complete
  <2> QED
    BY <1>6, <1>19, <2>1, <2>3 DEF Progress
<1>23. CASE CloseFile(t)
  <2>1. old.pc = "close_file" /\ Goto(t, "close") /\ UNCHANGED <<side, replies, closed>>
    BY <1>23 DEF CloseFile, Runs, clients
  <2>2. r.pc = "close"
    BY <1>13, <2>1
  <2>3. Progress(r, side[c], replies[c], Kind[c])
    BY <1>6, <2>1, <2>2 DEF Progress, Complete
  <2> QED
    BY <1>11, <2>1, <2>2, <2>3
<1>24. CASE Close(t)
  <2>1. /\ old.pc = "close" /\ threads' = [threads EXCEPT ![t] = Finished]
        /\ closed' = [closed EXCEPT ![c] = TRUE] /\ table' = [table EXCEPT ![f] = "free"]
        /\ side' = side /\ replies' = replies
    BY <1>5, <1>24 DEF Close, Finish, Runs, f
  <2>2. r.pc = "done"
    BY <1>4, <1>9, <2>1, FinishedIsDone
  <2>3. table'[f] = "free"
    BY <1>1, <1>5, <2>1 DEF TypeOK
  <2>4. \A x \in Conns \ {c} : closed'[x] = closed[x]
    BY <1>8, <2>1, Zenon
  <2>5. side[c] = "up" => Complete(replies[c], Kind[c])
    BY <1>6, <2>1 DEF Progress
  <2> QED
    BY <2>1, <2>2, <2>3, <2>4, <2>5, Zenon
<1> QED
  BY <1>14, <1>15, <1>16, <1>17, <1>18, <1>20, <1>21, <1>22, <1>23, <1>24 DEF Provserv

\* There is a slot for every descriptor accept may return: the slots taken hold
\* as many descriptors, none of them the listener's.
LEMMA SlotForEveryFd ==
  ASSUME WebInv
  PROVE  FreeSlots # {}
<1> SUFFICES ASSUME FreeSlots = {} PROVE FALSE
  OBVIOUS
<1> DEFINE Others == Fds \ {Listener}
<1>1. /\ NFds \in Nat \ {0} /\ NSlots \in Nat /\ NFds <= NSlots /\ Listener \in Fds
      /\ Fds = 0..NFds - 1 /\ Slots = 0..NSlots - 1
  BY SizesAssumption DEF Fds, Slots, Listener
<1>2. clis \in [Slots -> Fds \cup {-1}]
  BY DEF WebInv, TypeOK
<1>3. \A k \in Slots : clis[k] \in Others
  <2>1. \A k \in Slots : clis[k] # -1
    BY DEF FreeSlots
  <2>2. \A k \in Slots : table[clis[k]] \in Conns
    BY DEF WebInv, WatchedAreWaiting
  <2>3. table[Listener] \notin Conns
    BY NamesAssumption DEF WebInv, ConnsOnce
  <2> QED
    BY <1>2, <2>1, <2>2, <2>3
<1>4. \A k, l \in Slots : clis[k] = clis[l] => k = l
  BY DEF WebInv, WatchedAreWaiting
<1>5. IsFiniteSet(Slots) /\ Cardinality(Slots) = NSlots
  BY <1>1, FS_Interval
<1>6. IsFiniteSet(Fds) /\ Cardinality(Fds) = NFds
  BY <1>1, FS_Interval
<1>7. IsFiniteSet(Others) /\ Cardinality(Others) = NFds - 1
  <2>1. Listener \in Fds
    BY <1>1
  <2>2. IsFiniteSet(Others) /\ Cardinality(Others) = Cardinality(Fds) - 1
    BY <1>6, <2>1, FS_RemoveElement
  <2> QED
    BY <1>6, <2>2
<1>8. clis \in [Slots -> Others]
  BY <1>2, <1>3
<1> HIDE DEF Others
<1>9. \E k, l \in Slots : k # l /\ clis[k] = clis[l]
  <2>1. Cardinality(Others) < Cardinality(Slots)
    BY <1>1, <1>5, <1>7
  <2> QED
    BY <1>5, <1>7, <1>8, <2>1, FS_PigeonHole
<1> QED
  BY <1>4, <1>9

\* A step that leaves what the second invariant speaks of keeps it.
LEMMA EndsKept ==
  ASSUME EndInv, UNCHANGED <<table, threads, backlog, side, replies, closed>>,
         Waiting' = Waiting
  PROVE  LostInv' /\ AnswerInv'
<1>1. Live' = Live
  BY DEF Live
<1>2. LostInv'
  BY <1>1 DEF EndInv, LostInv, Lost, Held
<1>3. AnswerInv'
  BY <1>1 DEF EndInv, AnswerInv, Answering
<1> QED
  BY <1>2, <1>3

\* An accepted connection always finds a slot, so it is not lost.
LEMMA AcceptEnds == ASSUME EndInv, Accept PROVE LostInv' /\ AnswerInv'
<1> DEFINE cli == Least(FreeFds)
           k == Least(FreeSlots)
           c == Head(backlog)
<1>1. WebInv
  BY DEF EndInv
<1>2. FreeSlots # {}
  BY <1>1, SlotForEveryFd
<1>3. /\ FreeFds # {} /\ pc = "accept" /\ table' = [table EXCEPT ![cli] = c] /\ Register(cli, k)
      /\ backlog' = Tail(backlog)
      /\ UNCHANGED <<threads, side, replies, closed>>
  BY <1>2 DEF Accept
<1>4. cli \in Fds /\ table[cli] = "free" /\ k \in Slots /\ clis[k] = -1
  BY <1>2, <1>3, FreeFdIsFree, FreeSlotIsFree
<1>5. /\ backlog \in Seq(Conns) /\ backlog # <<>>
      /\ table \in [Fds -> {"free", "listen", "file"} \cup Conns]
  BY <1>1, <1>3 DEF WebInv, TypeOK, Round, CountMatchesReady
<1>6. /\ c \in Conns /\ c = backlog[1] /\ 1 \in 1..Len(backlog)
      /\ \A i \in 1..Len(backlog') : backlog'[i] = backlog[i + 1] /\ i + 1 \in 1..Len(backlog)
  BY <1>3, <1>5
<1>7. Waiting' = Waiting \cup {cli}
  BY <1>1, <1>3, <1>4, RegisterWaiting
<1>8. table'[cli] = c /\ \A d \in Fds : d # cli => table'[d] = table[d]
  BY <1>3, <1>4, <1>5
<1>9. replies[c] = <<>> /\ ~ closed[c]
  BY <1>6 DEF EndInv, AnswerInv
<1>10. \A d \in Waiting : d \in Fds /\ table[d] \in Conns
  BY <1>1, SizesAssumption DEF WebInv, TypeOK, WatchedAreWaiting, Waiting, FreeSlots
<1>11. \A d \in Waiting : d # cli
  BY <1>4, <1>10, NamesAssumption
<1> HIDE DEF cli, k, c
<1>12. Live' = Live
  BY <1>3 DEF Live
<1>13. LostInv'
  <2> SUFFICES ASSUME NEW d \in Fds, Lost(d)'
               PROVE  side'[table'[d]] = "fin" \/ Len(threads') = MaxThreads
    BY DEF LostInv
  <2>1. d # cli /\ d \notin Waiting
    BY <1>7 DEF Lost
  <2>2. Lost(d) /\ table'[d] = table[d]
    BY <1>3, <1>8, <1>12, <2>1 DEF Lost, Held
  <2> QED
    BY <1>3, <2>2 DEF EndInv, LostInv
<1>14. AnswerInv'
  <2>1. \A i \in 1..Len(backlog') : replies[backlog'[i]] = <<>> /\ ~ closed[backlog'[i]]
    BY <1>6 DEF EndInv, AnswerInv
  <2>2. \A d \in Waiting' : replies[table'[d]] = <<>>
    BY <1>7, <1>8, <1>9, <1>10, <1>11 DEF EndInv, AnswerInv
  <2>3. \A d \in Fds : table'[d] \in Conns => ~ closed[table'[d]]
    BY <1>8, <1>9 DEF EndInv, AnswerInv
  <2>4. /\ \A x \in Conns : side[x] = "new" => replies[x] = <<>> /\ ~ closed[x]
        /\ \A x \in Conns : closed[x] /\ side[x] = "up" => Complete(replies[x], Kind[x])
        /\ \A t \in Live : Answering(t)
    BY DEF EndInv, AnswerInv
  <2> QED
    BY <1>3, <1>12, <2>1, <2>2, <2>3, <2>4 DEF AnswerInv, Answering
<1> QED
  BY <1>13, <1>14

\* The connection handed over has been sent nothing; it is lost only when no
\* thread can be created for it.
LEMMA DispatchEnds == ASSUME EndInv, Dispatch PROVE LostInv' /\ AnswerInv'
<1> DEFINE k == Least(Found)
           d == clis[k]
           new == [fd |-> clis[k], for |-> table[clis[k]], pc |-> "read", got |-> 0,
                   error |-> "NO", file |-> -1]
<1>1. WebInv /\ UNCHANGED <<table, backlog, side, replies, closed>>
  BY DEF EndInv, Dispatch, clients
<1>2. CASE Found = {}
  <2>1. UNCHANGED <<threads, clis>>
    BY <1>2 DEF Dispatch
  <2>2. Waiting' = Waiting
    BY <2>1 DEF Waiting, FreeSlots
  <2> QED
    BY <1>1, <2>1, <2>2, EndsKept
<1>3. CASE Found # {}
  <2>1. /\ Release(k)
        /\ threads' = IF Len(threads) = MaxThreads THEN threads ELSE Append(threads, new)
    BY <1>3 DEF Dispatch
  <2>2. k \in Slots \ FreeSlots
    <3>1. Found \subseteq Slots /\ Found \subseteq Nat
      BY <1>1, SetSizes, SizesAssumption DEF WebInv, Slots
    <3>2. k \in Found
      BY <1>3, <3>1, LeastIsIn
    <3> QED
      BY <3>1, <3>2 DEF Found, FreeSlots
  <2>3. Waiting' = Waiting \ {d}
    BY <1>1, <2>1, <2>2, ReleaseWaiting
  <2>4. d \in Waiting /\ table[d] \in Conns /\ d \in Fds
    BY <1>1, <2>2 DEF WebInv, TypeOK, WatchedAreWaiting, Waiting, FreeSlots
  <2>5. replies[table[d]] = <<>>
    BY <2>4 DEF EndInv, AnswerInv
  <2>6. new.fd = d /\ new.for = table[d] /\ new.pc = "read"
    OBVIOUS
  <2>7. threads \in Seq(Thread \cup {Finished}) /\ Len(threads) \in Nat
    BY <1>1 DEF WebInv, TypeOK
  <2> HIDE DEF k, d, new
  <2>8. CASE Len(threads) = MaxThreads
    <3>1. threads' = threads /\ Live' = Live
      BY <2>1, <2>8 DEF Live
    <3>2. LostInv'
      BY <2>8, <3>1 DEF LostInv
    <3>3. AnswerInv'
      BY <1>1, <2>3, <3>1 DEF EndInv, AnswerInv, Answering
    <3> QED
      BY <3>2, <3>3
  <2>9. CASE Len(threads) # MaxThreads
    <3>1. threads' = Append(threads, new)
      BY <2>1, <2>9
    <3>2. PICK n \in Nat :
            /\ DOMAIN threads' = DOMAIN threads \cup {n} /\ n \notin DOMAIN threads
            /\ threads'[n] = new /\ \A t \in DOMAIN threads : threads'[t] = threads[t]
      <4>1. /\ DOMAIN threads' = DOMAIN threads \cup {Len(threads) + 1}
            /\ Len(threads) + 1 \notin DOMAIN threads
            /\ threads'[Len(threads) + 1] = new
            /\ \A t \in DOMAIN threads : threads'[t] = threads[t]
        BY <2>7, <3>1
      <4> QED
        BY <2>7, <4>1
    <3>3. Live' = Live \cup {n} /\ Live \subseteq DOMAIN threads
      BY <2>6, <3>2 DEF Live
    <3>4. LostInv'
      <4> SUFFICES ASSUME NEW x \in Fds, Lost(x)'
                   PROVE  side'[table'[x]] = "fin" \/ Len(threads') = MaxThreads
        BY DEF LostInv
      <4>1. x # d
        BY <2>6, <3>2, <3>3 DEF Lost, Held
      <4>2. ~ Held(x)
        BY <3>2, <3>3 DEF Lost, Held
      <4>3. Lost(x)
        BY <1>1, <2>3, <4>1, <4>2 DEF Lost
      <4> QED
        BY <1>1, <2>9, <4>3 DEF EndInv, LostInv
    <3>5. \A t \in Live : Answering(t)'
      BY <1>1, <3>2, <3>3 DEF EndInv, AnswerInv, Answering
    <3>6. Answering(n)'
      BY <1>1, <2>5, <2>6, <3>2 DEF Answering, Progress
    <3>7. AnswerInv'
      BY <1>1, <2>3, <3>3, <3>5, <3>6 DEF EndInv, AnswerInv
    <3> QED
      BY <3>4, <3>7
  <2> QED
    BY <2>8, <2>9
<1> QED
  BY <1>2, <1>3

\* A client that connects has been sent nothing; one that leaves is owed nothing.
LEMMA ClientEnds ==
  ASSUME EndInv, NEW c \in Conns, Connect(c) \/ Send(c) \/ Leave(c)
  PROVE  LostInv' /\ AnswerInv'
<1>1. /\ WebInv /\ UNCHANGED <<table, threads, replies, closed>>
      /\ Waiting' = Waiting /\ Live' = Live
  BY DEF EndInv, Connect, Send, Leave, main, Waiting, FreeSlots, Live
<1>2. /\ side \in [Conns -> {"new", "up", "fin", "rst"}] /\ backlog \in Seq(Conns)
  BY <1>1 DEF WebInv, TypeOK
<1>3. \A d \in Fds : Lost(d)' <=> Lost(d)
  BY <1>1 DEF Lost, Held
<1>4. /\ \A x \in Conns : side[x] = "new" => replies[x] = <<>> /\ ~ closed[x]
      /\ \A i \in 1..Len(backlog) : replies[backlog[i]] = <<>> /\ ~ closed[backlog[i]]
      /\ \A d \in Waiting : replies[table[d]] = <<>>
      /\ \A d \in Fds : table[d] \in Conns => ~ closed[table[d]]
      /\ \A x \in Conns : closed[x] /\ side[x] = "up" => Complete(replies[x], Kind[x])
      /\ \A t \in Live : Answering(t)
  BY DEF EndInv, AnswerInv
<1>5. CASE Send(c)
  <2>1. backlog' = backlog /\ side' = side
    BY <1>5 DEF Send
  <2> QED
    BY <1>1, <2>1, EndsKept
<1>6. CASE Connect(c)
  <2>1. side[c] = "new" /\ side' = [side EXCEPT ![c] = "up"] /\ backlog' = Append(backlog, c)
    BY <1>6 DEF Connect
  <2>2. side'[c] = "up" /\ \A x \in Conns \ {c} : side'[x] = side[x]
    BY <1>2, <2>1
  <2>3. LostInv'
    <3>1. \A d \in Fds : table[d] # c
      BY <1>1, <2>1 DEF WebInv, ConnsOnce
    <3> QED
      BY <1>1, <1>3, <2>2, <3>1 DEF EndInv, LostInv, Lost
  <2>4. \A i \in 1..Len(backlog') : backlog'[i] = c \/ \E j \in 1..Len(backlog) : backlog'[i] = backlog[j]
    BY <1>2, <2>1
  <2>5. replies[c] = <<>> /\ ~ closed[c]
    BY <1>4, <2>1
  <2>6. \A i \in 1..Len(backlog') : replies[backlog'[i]] = <<>> /\ ~ closed[backlog'[i]]
    BY <1>4, <2>4, <2>5
  <2>7. \A t \in Live : Answering(t)'
    <3>1. \A t \in Live : threads[t].for \in Conns \ {c}
      BY <1>1, <2>1, LiveFacts
    <3> QED
      BY <1>1, <1>4, <2>2, <3>1 DEF Answering
  <2>8. /\ \A x \in Conns : side'[x] = "new" => replies[x] = <<>> /\ ~ closed[x]
        /\ \A x \in Conns : closed[x] /\ side'[x] = "up" => Complete(replies[x], Kind[x])
    BY <1>4, <2>2, <2>5
  <2> QED
    BY <1>1, <1>4, <2>3, <2>6, <2>7, <2>8 DEF AnswerInv
<1>7. CASE Leave(c)
  <2>1. PICK how \in {"fin", "rst"} : side' = [side EXCEPT ![c] = how]
    BY <1>7 DEF Leave
  <2>2. side[c] = "up" /\ backlog' = backlog
    BY <1>7 DEF Leave
  <2>3. /\ side'[c] \in {"fin", "rst"} /\ \A x \in Conns \ {c} : side'[x] = side[x]
    BY <1>2, <2>1
  <2>4. LostInv'
    <3>1. \A x \in Conns : side[x] = "fin" => side'[x] = "fin"
      BY <2>2, <2>3
    <3> QED
      BY <1>1, <1>3, <3>1 DEF EndInv, LostInv, Lost
  <2>5. \A t \in Live : Answering(t)'
    <3> SUFFICES ASSUME NEW t \in Live PROVE Answering(t)'
      OBVIOUS
    <3>1. threads[t].for \in Conns /\ Answering(t)
      BY <1>1, <1>4, LiveFacts
    <3>2. CASE threads[t].for = c
      BY <1>1, <2>3, <3>1, <3>2 DEF Answering, Progress
    <3>3. CASE threads[t].for # c
      BY <1>1, <2>3, <3>1, <3>3 DEF Answering
    <3> QED
      BY <3>2, <3>3
  <2>6. /\ \A x \in Conns : side'[x] = "new" => replies[x] = <<>> /\ ~ closed[x]
        /\ \A x \in Conns : closed[x] /\ side'[x] = "up" => Complete(replies[x], Kind[x])
    BY <1>4, <2>3
  <2> QED
    BY <1>1, <1>4, <2>2, <2>4, <2>5, <2>6 DEF AnswerInv
<1> QED
  BY <1>5, <1>6, <1>7

LEMMA EndsStep == ASSUME EndInv, [Next]_vars PROVE EndInv'
<1>1. WebInv'
  BY StepHolds DEF EndInv
<1>2. CASE Select \/ AcceptFails \/ UNCHANGED vars
  <2>1. UNCHANGED <<table, threads, backlog, side, replies, closed, clis>>
    BY <1>2 DEF Select, AcceptFails, vars, main, clients
  <2>2. Waiting' = Waiting
    BY <2>1 DEF Waiting, FreeSlots
  <2> QED
    BY <1>1, <2>1, <2>2, EndsKept DEF EndInv
<1>3. CASE Accept
  BY <1>1, <1>3, AcceptEnds DEF EndInv
<1>4. CASE Dispatch
  BY <1>1, <1>4, DispatchEnds DEF EndInv
<1>5. ASSUME NEW t \in 1..MaxThreads, Provserv(t) PROVE EndInv'
  BY <1>5, ProvservEnds
<1>6. ASSUME NEW c \in Conns, Connect(c) \/ Send(c) \/ Leave(c) PROVE EndInv'
  BY <1>1, <1>6, ClientEnds DEF EndInv
<1> QED
  BY <1>2, <1>3, <1>4, <1>5, <1>6 DEF Next, Openserver

\* Both ways in which provserv ends are right, for any clients, descriptors and
\* threads: what it closes it has answered in full, and what it leaves open the
\* client has closed (webserv.c:292-332), or no thread could be made for it (159).
THEOREM EveryEndIsRight == Spec => []EndsWell
<1>1. Init => EndInv
  <2> SUFFICES ASSUME Init PROVE EndInv
    OBVIOUS
  <2>1. WebInv
    BY InitHolds
  <2>2. \A d \in Fds : table[d] \notin Conns
    BY NamesAssumption DEF Init
  <2>3. Live = {} /\ Waiting = {} /\ Len(backlog) = 0
    BY DEF Init, Live, Waiting, FreeSlots
  <2>4. LostInv
    BY <2>2 DEF LostInv, Lost
  <2>5. AnswerInv
    <3>1. \A c \in Conns : replies[c] = <<>> /\ ~ closed[c]
      BY Zenon DEF Init
    <3> QED
      BY <2>2, <2>3, <3>1 DEF AnswerInv
  <2> QED
    BY <2>1, <2>4, <2>5 DEF EndInv
<1>2. EndInv /\ [Next]_vars => EndInv'
  BY EndsStep
<1>3. EndInv => EndsWell
  <2> SUFFICES ASSUME EndInv PROVE EndsWell
    OBVIOUS
  <2>1. LostOnlyIfPeerClosed
    BY DEF EndInv, LostInv, Lost, Held, LostOnlyIfPeerClosed
  <2>2. ClosedIsAnswered
    <3>1. \A c \in Conns : closed[c] /\ side[c] = "up" => Complete(replies[c], Kind[c])
      BY DEF EndInv, AnswerInv
    <3> QED
      BY <3>1, Zenon DEF ClosedIsAnswered, Complete
  <2> QED
    BY <2>1, <2>2 DEF EndsWell
<1> QED
  BY <1>1, <1>2, <1>3, PTL DEF Spec
=============================================================================
