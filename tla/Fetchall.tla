------------------------------ MODULE Fetchall -------------------------------
(***************************************************************************)
(* thread/fetchall: main starts a thread for each url, joins them in order *)
(* and reports those that failed; a thread fetches its page and reports it *)
(* itself.  All threads resolve their host names with gethostbyname, which *)
(* leaves its result in one static buffer.                                 *)
(***************************************************************************)
EXTENDS ParseUrl, FiniteSets

CONSTANTS
  Urls,         \* argv[1], argv[2], ...
  Hosts,        \* host names that resolve
  Listening,    \* <<hostname, port>> that accept connections
  MaxSockets,   \* descriptors the process can open
  MaxPieces,    \* bound: reads that return a piece of one page
  MayFail       \* threads that pthread_create may fail to create

ASSUME UrlsAssumption == Len(Urls) \in Nat \ {0}
ASSUME NetAssumption == MaxSockets \in Nat /\ MaxPieces \in Nat

Jobs == 1..Len(Urls)
\* The file has its own copy of parse_url.
parsed == [i \in Jobs |-> parse_url(Urls[i])]
Nowhere == <<"nowhere">>   \* a torn address
ASSUME NowhereAssumption == Nowhere \notin Hosts

VARIABLES
  main, turn,   \* main: "create", "join", "end" or "crash", and its i
  at,           \* where each thread is
  sfd,          \* its socket: "none", "open" or "closed"
  hostent,      \* the static buffer, as the name whose address it holds
  addr,         \* the address a thread copied out of it
  pieces,       \* reads that returned data
  status,       \* what it exits with: "none", "failed" (*exit_status is 1) or "NULL"
  printed       \* lines about urls, in order

joiner == <<main, turn>>
thread == <<at, sfd, addr, pieces, status>>
fetchVars == <<joiner, thread, hostent, printed>>

------------------------------------------------------------------------------
\* main's loops.

NextTurn(phase) ==
  IF turn < Len(Urls) THEN turn' = turn + 1 /\ UNCHANGED main
                      ELSE turn' = 1 /\ main' = phase

\* pthread_create reports an error as a positive number; main looks for a
\* negative one.
CreateFetch ==
  /\ main = "create"
  /\ \/ at' = [at EXCEPT ![turn] = "parse"]
     \/ turn \in MayFail /\ at' = [at EXCEPT ![turn] = "failed"]
  /\ NextTurn("join")
  /\ UNCHANGED <<sfd, addr, pieces, status, hostent, printed>>

JoinFetch ==
  /\ main = "join" /\ at[turn] = "exit"
  /\ printed' = IF status[turn] = "failed" THEN Append(printed, <<"failed", turn>>)
                                           ELSE printed
  /\ NextTurn("end")
  /\ UNCHANGED <<thread, hostent>>

\* The pthread_t of a thread that was not created is uninitialized: joining it
\* faults, or returns an error that is ignored and leaves status NULL.
JoinNobody ==
  /\ main = "join" /\ at[turn] = "failed"
  /\ \/ main' = "crash" /\ UNCHANGED turn
     \/ NextTurn("end")
  /\ UNCHANGED <<thread, hostent, printed>>

------------------------------------------------------------------------------
(* fetch.  A thread runs until main returns.                                *)

Runs(i, where) == main \in {"create", "join"} /\ at[i] = where
Goto(i, where) == at' = [at EXCEPT ![i] = where] /\ UNCHANGED status
Exit(i, result) ==
  at' = [at EXCEPT ![i] = "exit"] /\ status' = [status EXCEPT ![i] = result]

ParseArg(i) ==
  /\ Runs(i, "parse")
  /\ IF parsed[i].hostname = <<>> \/ parsed[i].query = <<>>
     THEN Exit(i, "failed") ELSE Goto(i, "socket")
  /\ UNCHANGED <<joiner, sfd, addr, pieces, hostent, printed>>

OpenSocket(i) ==
  /\ Runs(i, "socket")
  /\ IF Cardinality({j \in Jobs : sfd[j] = "open"}) < MaxSockets
     THEN Goto(i, "lookup") /\ sfd' = [sfd EXCEPT ![i] = "open"]
     ELSE Exit(i, "failed") /\ UNCHANGED sfd
  /\ UNCHANGED <<joiner, addr, pieces, hostent, printed>>

\* Slip: the name looked up is that of the url main is at.
Lookup_Loop(i) ==
  /\ Runs(i, "lookup")
  /\ IF parsed[turn].hostname \in Hosts
     THEN Goto(i, "copy") /\ hostent' = parsed[turn].hostname
     ELSE Exit(i, "failed") /\ UNCHANGED hostent
  /\ UNCHANGED <<joiner, sfd, addr, pieces, printed>>
\* Nothing but the read loop and the end of fetch closes the socket.
Lookup(i) ==
  /\ Runs(i, "lookup")
  /\ IF parsed[i].hostname \in Hosts
     THEN Goto(i, "copy") /\ hostent' = parsed[i].hostname
     ELSE Exit(i, "failed") /\ UNCHANGED hostent
  /\ UNCHANGED <<joiner, sfd, addr, pieces, printed>>

\* h_addr points into the buffer: another thread's lookup has replaced the address,
\* or is replacing it.
CopyAddr(i) ==
  LET others == {j \in Jobs \ {i} : at[j] = "lookup"}
      inBuffer == {hostent} \cup {parsed[j].hostname : j \in others}
  IN  /\ Runs(i, "copy") /\ Goto(i, "connect")
      /\ \E a \in inBuffer \cup (IF others = {} THEN {} ELSE {Nowhere}) :
           addr' = [addr EXCEPT ![i] = a]
      /\ UNCHANGED <<joiner, sfd, pieces, hostent, printed>>

ConnectTo(i) ==
  /\ Runs(i, "connect")
  /\ IF <<addr[i], parsed[i].port>> \in Listening THEN Goto(i, "write") ELSE Exit(i, "failed")
  /\ UNCHANGED <<joiner, sfd, addr, pieces, hostent, printed>>

\* write may find that the peer has reset the connection.
WriteRequest(i) ==
  /\ Runs(i, "write")
  /\ Goto(i, "read") \/ Exit(i, "failed")
  /\ UNCHANGED <<joiner, sfd, addr, pieces, hostent, printed>>

\* EINTR reads again.
ReadPiece(i) ==
  /\ Runs(i, "read") /\ pieces[i] < MaxPieces
  /\ pieces' = [pieces EXCEPT ![i] = @ + 1]
  /\ UNCHANGED <<joiner, at, sfd, addr, status, hostent, printed>>

\* A timeout of 60 seconds, or any other error.
ReadFails(i) ==
  /\ Runs(i, "read") /\ Exit(i, "failed")
  /\ sfd' = [sfd EXCEPT ![i] = "closed"]
  /\ UNCHANGED <<joiner, addr, pieces, hostent, printed>>

\* Slip: the end of the page leaves the socket open.
PeerCloses_KeepsOpen(i) ==
  /\ Runs(i, "read") /\ Exit(i, "NULL")
  /\ printed' = Append(printed, <<"page", i>>)
  /\ UNCHANGED <<joiner, sfd, addr, pieces, hostent>>
\* The line is printed even when the page is empty.
PeerCloses(i) ==
  /\ Runs(i, "read") /\ Exit(i, "NULL")
  /\ sfd' = [sfd EXCEPT ![i] = "closed"]
  /\ printed' = Append(printed, <<"page", i>>)
  /\ UNCHANGED <<joiner, addr, pieces, hostent>>

Fetch(i) ==
  \/ ParseArg(i) \/ OpenSocket(i) \/ Lookup(i) \/ CopyAddr(i) \/ ConnectTo(i)
  \/ WriteRequest(i) \/ ReadPiece(i) \/ ReadFails(i) \/ PeerCloses(i)

------------------------------------------------------------------------------
FetchInit ==
  /\ main = "create" /\ turn = 1
  /\ at = [i \in Jobs |-> "none"] /\ sfd = [i \in Jobs |-> "none"]
  /\ addr = [i \in Jobs |-> Nowhere] /\ pieces = [i \in Jobs |-> 0]
  /\ status = [i \in Jobs |-> "none"]
  /\ hostent = Nowhere /\ printed = <<>>

FetchMain == CreateFetch \/ JoinFetch \/ JoinNobody
FetchNext == FetchMain \/ \E i \in Jobs : Fetch(i)
FetchSpec == FetchInit /\ [][FetchNext]_fetchVars

------------------------------------------------------------------------------
(* Properties.                                                              *)

FetchTypeOK ==
  /\ main \in {"create", "join", "end", "crash"} /\ turn \in Jobs
  /\ at \in [Jobs -> {"none", "failed", "parse", "socket", "lookup", "copy", "connect",
                      "write", "read", "exit"}]
  /\ sfd \in [Jobs -> {"none", "open", "closed"}]
  /\ pieces \in [Jobs -> 0..MaxPieces]
  /\ status \in [Jobs -> {"none", "failed", "NULL"}]
  /\ printed \in Seq({"page", "failed"} \X Jobs)

\* Each url is reported once and truthfully, in whatever order threads finish: by
\* its thread when it has read its page to the end, and else by main, which looks
\* only at what the thread exited with (fetchall.c:30-37, 201-202).  A url whose
\* thread could not be created is not reported at all (fetchall.c:26).
ReportedOnce ==
  /\ \A k, l \in DOMAIN printed : printed[k][2] = printed[l][2] => k = l
  /\ main = "end" =>
       \A i \in Jobs :
         \/ at[i] = "failed"
         \/ \E k \in DOMAIN printed :
              printed[k] = <<IF status[i] = "NULL" THEN "page" ELSE "failed", i>>

\* All threads may copy an address that another one's lookup has left in the shared
\* buffer, and print another host's page under their own url.  Not all of them do: if
\* every name looked up resolves, the last one to be looked up is overwritten by none,
\* and its thread talks to the host of its own url (fetchall.c:120-132).
Asked == {i \in Jobs : sfd[i] # "none"}
OneHasOwnHost ==
  (main = "end" /\ Asked # {} /\ \A i \in Asked : parsed[i].hostname \in Hosts) =>
    \E i \in Asked : addr[i] = parsed[i].hostname

\* A thread that has ended leaves its socket open only if it failed before the
\* reply began (fetchall.c:124, 139, 157): a page read, a timeout or an error
\* while reading gives the descriptor back.
LeaksOnlyBeforeReply ==
  \A i \in Jobs :
    at[i] = "exit" /\ sfd[i] = "open" => status[i] = "failed" /\ pieces[i] = 0
\* Whatever fails, a thread's end is told to the user and its socket to the kernel.
FetchEndsWell == ReportedOnce /\ LeaksOnlyBeforeReply
=============================================================================
