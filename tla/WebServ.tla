------------------------------ MODULE WebServ -------------------------------
(***************************************************************************)
(* The HTTP server of net/webserv.                                         *)
(*                                                                         *)
(* One thread, openserver, waits in select on the listening socket and on  *)
(* every accepted connection that has not sent anything yet.  A connection *)
(* that becomes readable is taken out of the set and handed to a thread of *)
(* its own, provserv, which reads until nothing is left to read, answers   *)
(* and closes.  The two sides share the process's descriptor table: a      *)
(* descriptor a thread closes is given out again by the next accept or     *)
(* open, whoever calls it.                                                 *)
(***************************************************************************)
EXTENDS Integers, Sequences, FiniteSets

CONSTANTS
  Conns,       \* client connections
  Kind,        \* what each connection asks for
  Leavers,     \* connections whose client may close or reset at any time
  NFds,        \* RLIMIT_NOFILE, less the descriptors open before socket()
  NSlots,      \* FD_SETSIZE
  MaxThreads   \* threads the process can create: none is joined or detached

Kinds == {"page", "missing", "mime", "method", "proto"}
Fds == 0..NFds - 1
Slots == 0..NSlots - 1
Listener == 0    \* s->fd

ASSUME KindAssumption == Kind \in [Conns -> Kinds]
ASSUME LeaversAssumption == Leavers \subseteq Conns
ASSUME NamesAssumption == Conns \cap {"free", "listen", "file", "nobody"} = {}
\* The default RLIMIT_NOFILE is FD_SETSIZE: no descriptor is beyond an fd_set.
ASSUME SizesAssumption ==
  /\ NFds \in Nat \ {0} /\ NSlots \in Nat /\ MaxThreads \in Nat
  /\ NFds <= NSlots

VARIABLES
  up,        \* the process runs
  table,     \* the descriptor table
  clis, rfs, maxfd, maxi,  \* openserver's bookkeeping
  pc,        \* openserver: "select", "accept" or "scan"
  ready,     \* _rfs after select
  nready,
  threads,   \* the provserv threads, in order of creation
  backlog,   \* connections the kernel has completed and accept has not taken
  side,      \* what the client's end did: "new", "up", "fin" or "rst"
  wrote,     \* pieces of its request (of 2) the client has sent
  inbox,     \* pieces that have arrived and are unread
  replies,   \* what the client was sent
  closed     \* the server has closed the connection

main == <<clis, rfs, maxfd, maxi, pc, ready, nready>>
clients == <<backlog, side, wrote, inbox, replies, closed>>
vars == <<up, table, main, threads, clients>>

FreeFds == {d \in Fds : table[d] = "free"}
Least(S) == CHOOSE x \in S : \A y \in S : x <= y   \* the kernel gives the lowest
FreeSlots == {k \in Slots : clis[k] = -1}

Readable(d) ==
  IF d = Listener THEN backlog # <<>>
  ELSE table[d] \in Conns /\ (inbox[table[d]] > 0 \/ side[table[d]] \in {"fin", "rst"})

------------------------------------------------------------------------------
(* openserver.                                                              *)

\* select returns at the latest after a microsecond; nothing happens if nothing
\* is ready.
Select ==
  /\ up /\ pc = "select"
  /\ ready' = {d \in rfs : d <= maxfd /\ Readable(d)}
  /\ ready' # {}
  /\ nready' = Cardinality(ready')
  /\ pc' = IF Listener \in ready' THEN "accept" ELSE "scan"
  /\ UNCHANGED <<up, table, clis, rfs, maxfd, maxi, threads, clients>>

\* The next statement of the round, n ready descriptors being left.  A new round
\* overwrites _rfs and nready.
Continue(n) ==
  IF n > 0 THEN pc' = "scan" /\ nready' = n /\ UNCHANGED ready
  ELSE pc' = "select" /\ nready' = 0 /\ ready' = {}

\* `continue': the clients that were ready have to wait for the next round.
AcceptFails ==
  /\ up /\ pc = "accept" /\ FreeFds = {}
  /\ Continue(0)
  /\ UNCHANGED <<up, table, clis, rfs, maxfd, maxi, threads, clients>>

\* Slip: maxi is forgotten.
Register_NoMaxi(cli, k) ==
  /\ clis' = [clis EXCEPT ![k] = cli]
  /\ rfs' = rfs \cup {cli}
  /\ maxfd' = IF cli > maxfd THEN cli ELSE maxfd
  /\ UNCHANGED maxi
\* The accepted connection goes to the first free slot.
Register(cli, k) ==
  /\ clis' = [clis EXCEPT ![k] = cli]
  /\ rfs' = rfs \cup {cli}
  /\ maxfd' = IF cli > maxfd THEN cli ELSE maxfd
  /\ maxi' = IF k > maxi THEN k ELSE maxi

Accept ==
  /\ up /\ pc = "accept" /\ FreeFds # {}
  /\ LET cli == Least(FreeFds)
     IN  /\ table' = [table EXCEPT ![cli] = Head(backlog)]
         /\ IF FreeSlots = {} THEN UNCHANGED <<clis, rfs, maxfd, maxi>>
            ELSE Register(cli, Least(FreeSlots))
  /\ backlog' = Tail(backlog)
  /\ Continue(nready - 1)
  /\ UNCHANGED <<up, threads, side, wrote, inbox, replies, closed>>

\* Slots the loop over clis still has to hand over.  A slot it has done is -1.
Found == {k \in 0..maxi : clis[k] # -1 /\ clis[k] \in ready}

\* Slip: the slot is not given up.
Release_KeepsSlot(k) == rfs' = rfs \ {clis[k]} /\ UNCHANGED clis
Release(k) == rfs' = rfs \ {clis[k]} /\ clis' = [clis EXCEPT ![k] = -1]

\* The result of pthread_create is ignored: a connection it makes no thread for
\* leaves the set all the same.
Dispatch ==
  /\ up /\ pc = "scan"
  /\ IF Found = {} THEN Continue(0) /\ UNCHANGED <<threads, clis, rfs>>
     ELSE LET k == Least(Found)
          IN  /\ threads' = IF Len(threads) = MaxThreads THEN threads
                            ELSE Append(threads, [fd |-> clis[k], for |-> table[clis[k]],
                                                  pc |-> "read", got |-> 0,
                                                  error |-> "NO", file |-> -1])
              /\ Release(k)
              /\ Continue(nready - 1)
  /\ UNCHANGED <<up, table, maxfd, maxi, clients>>

------------------------------------------------------------------------------
(* provserv and getrequest.                                                 *)

Finished == [fd |-> -1, for |-> "nobody", pc |-> "done", got |-> 0,
             error |-> "NO", file |-> -1]

Runs(t, at) == up /\ t \in DOMAIN threads /\ threads[t].pc = at
Goto(t, at) == threads' = [threads EXCEPT ![t].pc = at]
Peer(t) == table[threads[t].fd]   \* the connection behind sfd now
\* The record keeps nothing of a thread that has returned but its place.
Finish(t) == threads' = [threads EXCEPT ![t] = Finished]
Log(t, e) == threads' = [threads EXCEPT ![t] = [@ EXCEPT !.pc = "elog", !.error = e]]

\* What parsing finds in a request of which `got' pieces were read.  The 1us
\* receive timeout cuts a slow request short.  A cut inside the url makes the
\* copying loop run past the header: undefined, at best "PROTO", at worst a fault.
Outcomes(c, got) ==
  LET whole == CASE Kind[c] = "method" -> "METHOD"
                 [] Kind[c] = "proto" -> "PROTO"
                 [] Kind[c] = "mime" -> "MIME"
                 [] OTHER -> "NO"
  IN  IF got = 2 \/ Kind[c] = "method" THEN {whole}
      ELSE {whole, "METHOD", "PROTO", "fault"}

ReadData(t) ==
  /\ Runs(t, "read")
  /\ inbox[Peer(t)] > 0
  /\ threads' = [threads EXCEPT ![t].got = @ + inbox[Peer(t)]]
  /\ inbox' = [inbox EXCEPT ![Peer(t)] = 0]
  /\ UNCHANGED <<up, table, main, backlog, side, wrote, replies, closed>>

\* EAGAIN: what has arrived is taken for the request.
Parse(t) ==
  /\ Runs(t, "read")
  /\ inbox[Peer(t)] = 0 /\ side[Peer(t)] = "up"
  /\ \E e \in Outcomes(Peer(t), threads[t].got) :
        IF e = "fault" THEN up' = FALSE /\ UNCHANGED threads
        ELSE /\ IF e = "NO" THEN Goto(t, "open") ELSE Log(t, e)
             /\ UNCHANGED up
  /\ UNCHANGED <<table, main, clients>>

\* End of file, even after a whole request: elog sends nothing and the
\* descriptor is NOT closed.
PeerClosed(t) ==
  /\ Runs(t, "read")
  /\ inbox[Peer(t)] = 0 /\ side[Peer(t)] = "fin"
  /\ Finish(t)
  /\ UNCHANGED <<up, table, main, clients>>

ReadFails(t) ==
  /\ Runs(t, "read")
  /\ inbox[Peer(t)] = 0 /\ side[Peer(t)] = "rst"
  /\ Log(t, "INTERNAL")
  /\ UNCHANGED <<up, table, main, clients>>

\* No descriptor left is the same as no file.
Open(t) ==
  /\ Runs(t, "open")
  /\ IF Kind[Peer(t)] = "page" /\ FreeFds # {}
     THEN /\ table' = [table EXCEPT ![Least(FreeFds)] = "file"]
          /\ threads' = [threads EXCEPT ![t] = [@ EXCEPT !.pc = "header",
                                                         !.file = Least(FreeFds)]]
     ELSE Log(t, "NOT_FOUND") /\ UNCHANGED table
  /\ UNCHANGED <<up, main, clients>>

\* A write to a client that has gone provokes a reset; a write after a reset
\* raises SIGPIPE, which nobody catches, unless it first reports the reset.
Write(c, what) ==
  \/ /\ side[c] = "up"
     /\ replies' = [replies EXCEPT ![c] = Append(@, what)]
     /\ UNCHANGED <<side, up>>
  \/ /\ side[c] = "fin"
     /\ side' = [side EXCEPT ![c] = "rst"]
     /\ UNCHANGED <<replies, up>>
  \/ /\ side[c] = "rst"
     /\ up' \in BOOLEAN
     /\ UNCHANGED <<side, replies>>

Header(t) ==
  /\ Runs(t, "header") /\ Write(Peer(t), "200") /\ Goto(t, "body")
  /\ UNCHANGED <<table, main, backlog, wrote, inbox, closed>>

Body(t) ==
  /\ Runs(t, "body") /\ Write(Peer(t), "page") /\ Goto(t, "close_file")
  /\ UNCHANGED <<table, main, backlog, wrote, inbox, closed>>

CloseFile(t) ==
  /\ Runs(t, "close_file") /\ Goto(t, "close")
  /\ table' = [table EXCEPT ![threads[t].file] = "free"]
  /\ UNCHANGED <<up, main, clients>>

\* Slip: as after PEER_CLOSED, nothing is closed.
Elog_KeepsOpen(t) ==
  /\ Runs(t, "elog") /\ Write(Peer(t), threads[t].error) /\ Finish(t)
  /\ UNCHANGED <<table, main, backlog, wrote, inbox, closed>>
Elog(t) ==
  /\ Runs(t, "elog") /\ Write(Peer(t), threads[t].error) /\ Goto(t, "close")
  /\ UNCHANGED <<table, main, backlog, wrote, inbox, closed>>

Close(t) ==
  /\ Runs(t, "close") /\ Finish(t)
  /\ closed' = [closed EXCEPT ![Peer(t)] = TRUE]
  /\ table' = [table EXCEPT ![threads[t].fd] = "free"]
  /\ UNCHANGED <<up, main, backlog, side, wrote, inbox, replies>>

Provserv(t) ==
  \/ ReadData(t) \/ Parse(t) \/ PeerClosed(t) \/ ReadFails(t) \/ Open(t)
  \/ Header(t) \/ Body(t) \/ CloseFile(t) \/ Elog(t) \/ Close(t)

------------------------------------------------------------------------------
(* Clients.                                                                 *)

Connect(c) ==
  /\ up /\ side[c] = "new"
  /\ side' = [side EXCEPT ![c] = "up"]
  /\ backlog' = Append(backlog, c)
  /\ UNCHANGED <<up, table, main, threads, wrote, inbox, replies, closed>>

\* The two halves of a request may arrive together, apart or never.
Send(c) ==
  /\ up /\ side[c] = "up" /\ ~closed[c] /\ wrote[c] < 2
  /\ wrote' = [wrote EXCEPT ![c] = @ + 1]
  /\ inbox' = [inbox EXCEPT ![c] = @ + 1]
  /\ UNCHANGED <<up, table, main, threads, backlog, side, replies, closed>>

Leave(c) ==
  /\ up /\ c \in Leavers /\ side[c] = "up" /\ ~closed[c]
  /\ \E how \in {"fin", "rst"} : side' = [side EXCEPT ![c] = how]
  /\ UNCHANGED <<up, table, main, threads, backlog, wrote, inbox, replies, closed>>

------------------------------------------------------------------------------
Init ==
  /\ up = TRUE
  /\ table = [d \in Fds |-> IF d = Listener THEN "listen" ELSE "free"]
  /\ clis = [k \in Slots |-> -1]
  /\ rfs = {Listener} /\ maxfd = Listener /\ maxi = 0
  /\ pc = "select" /\ ready = {} /\ nready = 0
  /\ threads = <<>> /\ backlog = <<>>
  /\ side = [c \in Conns |-> "new"]
  /\ wrote = [c \in Conns |-> 0]
  /\ inbox = [c \in Conns |-> 0]
  /\ replies = [c \in Conns |-> <<>>]
  /\ closed = [c \in Conns |-> FALSE]

Openserver == Select \/ AcceptFails \/ Accept \/ Dispatch

Next ==
  \/ Openserver
  \/ \E t \in 1..MaxThreads : Provserv(t)
  \/ \E c \in Conns : Connect(c) \/ Send(c) \/ Leave(c)

Spec == Init /\ [][Next]_vars
\* The kernel schedules every thread that is not waiting.
FairSpec ==
  Spec /\ WF_vars(Openserver) /\ \A t \in 1..MaxThreads : WF_vars(Provserv(t))

------------------------------------------------------------------------------
(* Properties.                                                              *)

Thread ==
  [fd : Fds, for : Conns, got : 0..2, file : Fds \cup {-1},
   pc : {"read", "open", "header", "body", "close_file", "elog", "close"},
   error : {"NO", "METHOD", "PROTO", "MIME", "NOT_FOUND", "INTERNAL"}]

TypeOK ==
  /\ up \in BOOLEAN
  /\ table \in [Fds -> {"free", "listen", "file"} \cup Conns]
  /\ clis \in [Slots -> Fds \cup {-1}]
  /\ rfs \subseteq Fds /\ ready \subseteq Fds
  /\ maxfd \in Fds /\ maxi \in Slots
  /\ pc \in {"select", "accept", "scan"} /\ nready \in 0..NFds
  /\ threads \in Seq(Thread \cup {Finished}) /\ Len(threads) <= MaxThreads
  /\ backlog \in Seq(Conns)
  /\ side \in [Conns -> {"new", "up", "fin", "rst"}]
  /\ wrote \in [Conns -> 0..2] /\ inbox \in [Conns -> 0..2]
  /\ DOMAIN replies = Conns
  /\ closed \in [Conns -> BOOLEAN]

Live == {t \in DOMAIN threads : threads[t].pc # "done"}
Waiting == {clis[k] : k \in Slots \ FreeSlots}

\* What select watches is what openserver can hand over: every watched
\* descriptor is an open connection in one slot that the scan reaches, and in
\* reach of select, although threads close and accept reuses descriptors at any
\* moment (webserv.c:129-144, 160-161).
WatchedAreWaiting ==
  /\ rfs = {Listener} \cup Waiting
  /\ \A k, l \in Slots \ FreeSlots : clis[k] = clis[l] => k = l
  /\ \A k \in Slots \ FreeSlots :
       table[clis[k]] \in Conns /\ clis[k] <= maxfd /\ k <= maxi
\* The count select returns is used up exactly by the accept and the scan: the
\* scan never misses a ready client and never stops early (webserv.c:145-165).
CountMatchesReady ==
  /\ pc = "scan" => nready = Cardinality(Found) /\ nready > 0
  /\ pc = "accept" => nready = Cardinality(Found) + 1 /\ backlog # <<>>
\* The bookkeeping of openserver stays in step with the descriptor table: every
\* client that is ready is handed over in the round that found it ready, whatever
\* provserv threads close in the meantime.
NobodyOverlooked == TypeOK /\ WatchedAreWaiting /\ CountMatchesReady

\* A thread works on the connection it was started for until it closes it: no
\* other thread, slot or open file has its descriptor, so none is closed twice
\* and no answer goes to another client (webserv.c:286, 326, 331).
ThreadsOwnTheirFd ==
  /\ \A t \in Live :
       /\ Peer(t) = threads[t].for
       /\ threads[t].fd \notin Waiting
       /\ threads[t].pc \in {"header", "body", "close_file"} =>
            table[threads[t].file] = "file"
  /\ \A t, u \in Live :
       t # u => /\ threads[t].fd # threads[u].fd
                /\ threads[t].for # threads[u].for

\* A descriptor is lost - open, with nobody left to close it - only for a client
\* that closed its end (webserv.c:327-328 closes nothing) or because no thread
\* could be created (webserv.c:159 ignores the result).
LostOnlyIfPeerClosed ==
  \A d \in Fds :
    (table[d] \in Conns /\ d \notin Waiting
       /\ \A t \in Live : threads[t].fd # d) =>
      side[table[d]] = "fin" \/ Len(threads) = MaxThreads
\* A connection the server closes with the client still there got one complete
\* answer: an error, or the header and then the page (webserv.c:292-332).
ClosedIsAnswered ==
  \A c \in Conns :
    (closed[c] /\ side[c] = "up") =>
      \/ replies[c] = <<"200", "page">> /\ Kind[c] = "page"
      \/ Len(replies[c]) = 1 /\ replies[c] # <<"200">>
\* Both ways in which provserv ends: it closes only what it has answered, and leaves
\* open only what the client has closed, whatever fails in between.
EndsWell == LostOnlyIfPeerClosed /\ ClosedIsAnswered

\* A client that has sent anything and stays is answered and closed, however the
\* other connections behave, as long as descriptors and threads last and no
\* fault or SIGPIPE ends the process.
Responds ==
  \A c \in Conns \ Leavers : (wrote[c] > 0) ~> (closed[c] \/ ~up)
=============================================================================
