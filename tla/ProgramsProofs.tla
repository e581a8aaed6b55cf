--------------------------- MODULE ProgramsProofs ---------------------------
(***************************************************************************)
(* What the small programs keep, each for every number of threads, urls,   *)
(* connections, descriptors, elements and places, and every interleaving:  *)
(* the fetcher, two ways to count in shared memory (with the lock of       *)
(* thread/mutex, and with none as in thread/var), the listener, the list   *)
(* in an array, the queue of two stacks, which is a first-in first-out     *)
(* queue for every capacity and every set of integers, the source          *)
(* highlighter on every text, and union find on every number of members.   *)
(***************************************************************************)
EXTENDS Fetchall, Mux, Counter, Listener, ArrayList, Queue, Highlight, UnionFind,
        SequenceTheorems, FiniteSetTheorems, WellFoundedInduction, TLAPS

------------------------------------------------------------------------------
(* The fetcher: how its threads end, and whom they talk to.                 *)

Is(i, what) == at[i] = what

\* The types the proofs need.
Types ==
  /\ main \in {"create", "join", "end", "crash"} /\ turn \in Jobs
  /\ at \in [Jobs -> {"none", "failed", "parse", "socket", "lookup", "copy", "connect",
                      "write", "read", "exit"}]
  /\ sfd \in [Jobs -> {"none", "open", "closed"}]
  /\ pieces \in [Jobs -> Nat]
  /\ status \in [Jobs -> {"none", "failed", "NULL"}]
  /\ DOMAIN addr = Jobs
  /\ printed \in Seq({"page", "failed"} \X Jobs)

\* Some thread has its own address, or finds it in the buffer, or has not looked it
\* up yet; a thread has an address only after its copy, and looks up only after it has
\* opened a socket.
HasOwn(i) ==
  \/ Is(i, "lookup")
  \/ Is(i, "copy") /\ hostent = parsed[i].hostname
  \/ addr[i] = parsed[i].hostname
OwnSomewhere ==
  (Asked # {} /\ \A i \in Asked : parsed[i].hostname \in Hosts) => \E i \in Asked : HasOwn(i)
Before == {"none", "failed", "parse", "socket", "lookup", "copy"}
WithSocket == {"lookup", "copy", "connect", "write", "read"}
AddressAfterCopy ==
  \A i \in Jobs :
    /\ at[i] \in Before => addr[i] = Nowhere
    /\ at[i] \in WithSocket => i \in Asked
BufferInv == OwnSomewhere /\ AddressAfterCopy

\* A thread has read only once it writes no more, and ends with what it exits with.
ReadThenExit ==
  \A i \in Jobs :
    /\ Is(i, "exit") <=> status[i] # "none"
    /\ pieces[i] # 0 => Is(i, "read") \/ Is(i, "exit")
    /\ Is(i, "exit") /\ sfd[i] = "open" => status[i] = "failed" /\ pieces[i] = 0

\* main has passed a thread when it has joined it.
Passed(i) == main = "end" \/ (main = "join" /\ i < turn)
Outcome(i) == IF status[i] = "NULL" THEN "page" ELSE "failed"
IsPrinted(i) == \E k \in DOMAIN printed : printed[k] = <<Outcome(i), i>>
Reports ==
  /\ main = "create" => \A i \in Jobs : i >= turn => Is(i, "none")
  /\ \A i \in Jobs : Passed(i) => Is(i, "failed") \/ (Is(i, "exit") /\ IsPrinted(i))
  /\ \A k \in DOMAIN printed, i \in Jobs :
       printed[k][2] = i =>
         /\ Is(i, "exit") /\ printed[k] = <<Outcome(i), i>>
         /\ main = "create" => status[i] = "NULL"
         /\ main = "join" /\ i >= turn => status[i] = "NULL"
  /\ \A k, l \in DOMAIN printed : printed[k][2] = printed[l][2] => k = l
  /\ \A i \in Jobs : status[i] = "NULL" => IsPrinted(i)

FetchInv == Types /\ BufferInv /\ ReadThenExit /\ Reports

------------------------------------------------------------------------------
LEMMA FetchInvInit == FetchInit => FetchInv
  <1> SUFFICES ASSUME FetchInit PROVE FetchInv
    OBVIOUS
  <1>1. 1 \in Jobs
    BY UrlsAssumption DEF Jobs
  <1>2. Types
    BY <1>1 DEF FetchInit, Types
  <1>3. BufferInv /\ ReadThenExit
    BY DEF FetchInit, BufferInv, OwnSomewhere, AddressAfterCopy, Asked, WithSocket,
           ReadThenExit, Is
  <1>4. Reports
    <2>1. printed = <<>> /\ main = "create" /\ \A i \in Jobs : Is(i, "none") /\ status[i] = "none"
      BY DEF FetchInit, Is
    <2> QED
      BY <2>1 DEF Reports, Passed
  <1> QED
    BY <1>2, <1>3, <1>4 DEF FetchInv

\* Every step of a thread but the last one of a page it has read.
LEMMA ThreadStep ==
  ASSUME Types, NEW i \in Jobs, Fetch(i)
  PROVE  /\ Types'
         /\ at[i] \notin {"none", "failed", "exit"}
         /\ at'[i] \notin {"none", "failed"}
         /\ \A j \in Jobs \ {i} :
              at'[j] = at[j] /\ status'[j] = status[j] /\ sfd'[j] = sfd[j]
              /\ pieces'[j] = pieces[j] /\ addr'[j] = addr[j]
         /\ at'[i] = "exit" => status'[i] # "none"
         /\ at'[i] # "exit" => status'[i] = status[i]
         /\ UNCHANGED <<main, turn>>
         /\ ~PeerCloses(i) =>
              printed' = printed /\ (status'[i] # "NULL" \/ status'[i] = status[i])
  <1> USE DEF Types, Runs, Goto, Exit, joiner, thread
  <1>1. CASE ParseArg(i)
    BY <1>1, ZenonT(60) DEF ParseArg
  <1>2. CASE OpenSocket(i)
    BY <1>2, ZenonT(60) DEF OpenSocket
  <1>3. CASE Lookup(i)
    BY <1>3, ZenonT(60) DEF Lookup
  <1>4. CASE CopyAddr(i)
    BY <1>4 DEF CopyAddr
  <1>5. CASE ConnectTo(i)
    BY <1>5, ZenonT(60) DEF ConnectTo
  <1>6. CASE WriteRequest(i)
    BY <1>6, ZenonT(60) DEF WriteRequest
  <1>7. CASE ReadPiece(i)
    BY <1>7 DEF ReadPiece
  <1>8. CASE ReadFails(i)
    BY <1>8 DEF ReadFails
  <1>9. CASE PeerCloses(i)
    BY <1>9 DEF PeerCloses
  <1> QED
    BY <1>1, <1>2, <1>3, <1>4, <1>5, <1>6, <1>7, <1>8, <1>9 DEF Fetch

\* main leaves what threads hold alone, but for the one it creates.
LEMMA MainStep ==
  ASSUME Types, FetchMain
  PROVE  /\ Types'
         /\ UNCHANGED <<sfd, addr, pieces, status, hostent>>
         /\ \A j \in Jobs :
              at'[j] = at[j] \/ (main = "create" /\ j = turn /\ at'[j] \in {"parse", "failed"})
  <1> USE DEF Types, thread, joiner
  <1>1. ASSUME NEW then \in {"join", "end"}, NextTurn(then)
        PROVE  turn' \in Jobs /\ main' \in {"create", "join", "end", "crash"}
    BY <1>1, UrlsAssumption DEF NextTurn, Jobs
  <1>2. CASE CreateFetch
    BY <1>1, <1>2 DEF CreateFetch
  <1>3. CASE JoinFetch
    <2>1. printed' \in Seq({"page", "failed"} \X Jobs)
      BY <1>3 DEF JoinFetch
    <2> QED
      BY <1>1, <1>3, <2>1 DEF JoinFetch
  <1>4. CASE JoinNobody
    <2>1. turn' \in Jobs /\ main' \in {"create", "join", "end", "crash"}
      BY <1>1, <1>4 DEF JoinNobody
    <2> QED
      BY <1>4, <2>1 DEF JoinNobody
  <1> QED
    BY <1>2, <1>3, <1>4 DEF FetchMain

------------------------------------------------------------------------------
(* The shared buffer.                                                       *)

LEMMA BufferKeptByThread ==
  ASSUME Types, BufferInv, NEW i \in Jobs, Fetch(i)
  PROVE  BufferInv'
  <1> USE DEF Types, Is, Goto, Exit, Runs, joiner
  <1>1. parsed' = parsed /\ Hosts' = Hosts
    BY DEF parsed, Jobs
  <1>2. \A j \in Jobs \ {i} :
          at'[j] = at[j] /\ sfd'[j] = sfd[j] /\ addr'[j] = addr[j]
    BY ThreadStep
  <1>3. AddressAfterCopy'
    <2>1. /\ at'[i] \in Before => addr'[i] = addr[i] /\ at[i] \in Before
          /\ at'[i] \in WithSocket => sfd'[i] # "none"
      <3> USE DEF Before, WithSocket, BufferInv, AddressAfterCopy, Asked
      <3>1. CASE ParseArg(i) \/ OpenSocket(i)
        BY <3>1 DEF ParseArg, OpenSocket
      <3>2. CASE Lookup(i) \/ CopyAddr(i)
        BY <3>2 DEF Lookup, CopyAddr
      <3>3. CASE ConnectTo(i) \/ WriteRequest(i)
        BY <3>3 DEF ConnectTo, WriteRequest
      <3>4. CASE ReadPiece(i) \/ ReadFails(i) \/ PeerCloses(i)
        BY <3>4 DEF ReadPiece, ReadFails, PeerCloses
      <3> QED
        BY <3>1, <3>2, <3>3, <3>4 DEF Fetch
    <2> QED
      BY <1>2, <2>1 DEF BufferInv, AddressAfterCopy, Asked
  <1>4. OwnSomewhere'
    <2> SUFFICES ASSUME Asked' # {}, \A j \in Asked' : parsed[j].hostname \in Hosts
                 PROVE  \E j \in Asked' : HasOwn(j)'
      BY <1>1 DEF OwnSomewhere
    <2>1. CASE ParseArg(i) \/ OpenSocket(i)
      <3>1. /\ at[i] \in {"parse", "socket"} /\ UNCHANGED <<addr, hostent>>
            /\ \/ sfd' = sfd
               \/ at'[i] = "lookup" /\ sfd'[i] = "open"
        BY <2>1 DEF ParseArg, OpenSocket
      <3>2. CASE sfd' = sfd
        <4>1. Asked' = Asked
          BY <3>2 DEF Asked, Jobs
        <4>2. PICK j \in Asked : HasOwn(j)
          BY <4>1 DEF BufferInv, OwnSomewhere
        <4>3. j \in Jobs
          BY DEF Asked
        <4>4. HasOwn(j)'
          BY <1>1, <1>2, <3>1, <4>2, <4>3 DEF HasOwn
        <4> QED
          BY <4>1, <4>4
      <3>3. CASE at'[i] = "lookup" /\ sfd'[i] = "open"
        BY <3>3 DEF Asked, HasOwn, Jobs
      <3> QED
        BY <3>1, <3>2, <3>3
    <2>2. CASE ~(ParseArg(i) \/ OpenSocket(i))
      <3>1. Asked' = Asked
        <4>1. \/ sfd' = sfd
              \/ sfd' = [sfd EXCEPT ![i] = "closed"] /\ at[i] = "read"
          BY <2>2 DEF Fetch, Lookup, CopyAddr, ConnectTo, WriteRequest, ReadPiece, ReadFails,
                      PeerCloses
        <4> QED
          BY <4>1 DEF Asked, Jobs, BufferInv, AddressAfterCopy, WithSocket
      <3>2. PICK k \in Asked : HasOwn(k)
        BY <3>1 DEF BufferInv, OwnSomewhere
      <3>3. k \in Jobs
        BY DEF Asked
      <3>4. CASE Lookup(i)
        <4>1. i \in Asked
          BY <3>4 DEF Lookup, BufferInv, AddressAfterCopy, WithSocket
        <4>2. HasOwn(i)'
          BY <1>1, <3>1, <3>4, <4>1 DEF Lookup, HasOwn
        <4> QED
          BY <3>1, <4>1, <4>2
      <3>5. CASE CopyAddr(i)
        <4>1. /\ at[i] = "copy" /\ at'[i] = "connect" /\ hostent' = hostent
              /\ i \in Asked /\ addr[i] = Nowhere
          BY <3>5 DEF CopyAddr, BufferInv, AddressAfterCopy, WithSocket, Before
        <4>2. CASE \E j \in Jobs \ {i} : at[j] = "lookup"
          <5>1. PICK j \in Jobs \ {i} : at[j] = "lookup"
            BY <4>2
          <5>2. j \in Asked /\ HasOwn(j)'
            BY <1>2, <5>1 DEF HasOwn, BufferInv, AddressAfterCopy, WithSocket
          <5> QED
            BY <3>1, <5>2
        <4>3. CASE \A j \in Jobs \ {i} : at[j] # "lookup"
          <5>1. addr'[i] = hostent
            BY <3>5, <4>3, Zenon DEF CopyAddr
          <5>2. CASE k = i
            <6>1. hostent = parsed[i].hostname
              BY <3>1, <3>2, <4>1, <5>2, NowhereAssumption DEF HasOwn
            <6> QED
              BY <1>1, <3>1, <4>1, <5>1, <6>1 DEF HasOwn
          <5>3. CASE k # i
            <6>1. HasOwn(k)'
              BY <1>1, <1>2, <3>2, <3>3, <4>1, <5>3 DEF HasOwn
            <6> QED
              BY <3>1, <6>1
          <5> QED
            BY <5>2, <5>3
        <4> QED
          BY <4>2, <4>3
      <3>6. CASE ~Lookup(i) /\ ~CopyAddr(i)
        <4>1. UNCHANGED <<addr, hostent>> /\ at[i] \notin {"lookup", "copy"}
          BY <2>2, <3>6 DEF Fetch, ConnectTo, WriteRequest, ReadPiece, ReadFails, PeerCloses
        <4>2. HasOwn(k)'
          BY <1>1, <1>2, <3>2, <3>3, <4>1 DEF HasOwn
        <4> QED
          BY <3>1, <4>2
      <3> QED
        BY <3>4, <3>5, <3>6
    <2> QED
      BY <2>1, <2>2
  <1> QED
    BY <1>3, <1>4 DEF BufferInv

LEMMA BufferKeptByMain ==
  ASSUME Types, BufferInv, Reports, FetchMain
  PROVE  BufferInv'
  <1>1. parsed' = parsed
    BY DEF parsed, Jobs
  <1>2. main = "create" => at[turn] = "none"
    BY UrlsAssumption DEF Types, Reports, Is, Jobs
  <1>3. /\ UNCHANGED <<sfd, addr, hostent>>
        /\ \A j \in Jobs :
             at'[j] = at[j] \/ (at[j] = "none" /\ at'[j] \in {"parse", "failed"})
    BY <1>2, MainStep
  <1>4. Asked' = Asked
    BY <1>3 DEF Asked, Jobs
  <1>5. AddressAfterCopy'
    BY <1>3, <1>4 DEF BufferInv, AddressAfterCopy, Before, WithSocket, Is
  <1>6. \A j \in Jobs : HasOwn(j) => HasOwn(j)'
    BY <1>1, <1>3 DEF HasOwn, Is
  <1>7. OwnSomewhere'
    BY <1>1, <1>4, <1>6 DEF BufferInv, OwnSomewhere, Asked
  <1> QED
    BY <1>5, <1>7 DEF BufferInv

------------------------------------------------------------------------------
(* Sockets.                                                                 *)

LEMMA ReadKeptByThread ==
  ASSUME Types, ReadThenExit, NEW i \in Jobs, Fetch(i)
  PROVE  ReadThenExit'
  <1> USE DEF Types, ReadThenExit, Is, Goto, Exit, Runs, joiner, thread
  <1>1. at[i] # "exit" /\ status[i] = "none"
    BY ThreadStep
  <1>2. /\ at'[i] = "exit" <=> status'[i] # "none"
        /\ pieces'[i] # 0 => at'[i] \in {"read", "exit"}
        /\ at'[i] = "exit" /\ sfd'[i] = "open" => status'[i] = "failed" /\ pieces'[i] = 0
    <2>1. CASE ParseArg(i) \/ OpenSocket(i)
      BY <1>1, <2>1 DEF ParseArg, OpenSocket
    <2>2. CASE Lookup(i) \/ CopyAddr(i)
      BY <1>1, <2>2 DEF Lookup, CopyAddr
    <2>3. CASE ConnectTo(i) \/ WriteRequest(i)
      BY <1>1, <2>3 DEF ConnectTo, WriteRequest
    <2>4. CASE ReadPiece(i) \/ ReadFails(i) \/ PeerCloses(i)
      BY <1>1, <2>4 DEF ReadPiece, ReadFails, PeerCloses
    <2> QED
      BY <2>1, <2>2, <2>3, <2>4 DEF Fetch
  <1>3. \A j \in Jobs \ {i} :
          at'[j] = at[j] /\ status'[j] = status[j] /\ sfd'[j] = sfd[j] /\ pieces'[j] = pieces[j]
    BY ThreadStep
  <1> QED
    BY <1>2, <1>3

LEMMA ReadKeptByMain ==
  ASSUME Types, ReadThenExit, Reports, FetchMain
  PROVE  ReadThenExit'
  <1>1. main = "create" => at[turn] = "none"
    BY UrlsAssumption DEF Types, Reports, Is, Jobs
  <1>2. /\ UNCHANGED <<sfd, pieces, status>>
        /\ \A j \in Jobs :
             at'[j] = at[j] \/ (at[j] = "none" /\ at'[j] \in {"parse", "failed"})
    BY <1>1, MainStep
  <1> QED
    BY <1>2 DEF ReadThenExit, Is

------------------------------------------------------------------------------
(* What is printed.                                                         *)

\* The lines printed stay, and the new one comes after them.
LEMMA Appended ==
  ASSUME NEW S, NEW s \in Seq(S), NEW x \in S
  PROVE  /\ DOMAIN Append(s, x) = DOMAIN s \cup {Len(s) + 1}
         /\ Append(s, x)[Len(s) + 1] = x
         /\ \A k \in DOMAIN s : Append(s, x)[k] = s[k] /\ k # Len(s) + 1
OBVIOUS

LEMMA ReportsKeptByThread ==
  ASSUME Types, ReadThenExit, Reports, NEW i \in Jobs, Fetch(i)
  PROVE  Reports'
  <1> USE DEF Types, Is
  <1>1. /\ at[i] \notin {"none", "failed", "exit"} /\ status[i] = "none"
        /\ \A j \in Jobs \ {i} : at'[j] = at[j] /\ status'[j] = status[j]
        /\ at'[i] # "none" /\ UNCHANGED <<main, turn>>
    BY ThreadStep DEF ReadThenExit
  <1>2. \A j \in Jobs : Passed(j) => j # i
    BY <1>1 DEF Reports
  <1>3. \A k \in DOMAIN printed : printed[k] \in {"page", "failed"} \X Jobs
    OBVIOUS
  <1>4. \A k \in DOMAIN printed : printed[k][2] \in Jobs \ {i}
    BY <1>1, <1>3, SMTT(30) DEF Reports
  <1>5. CASE ~PeerCloses(i)
    <2>1. printed' = printed /\ status'[i] # "NULL"
      BY <1>1, <1>5, ThreadStep
    <2>2. \A j \in Jobs :
            /\ j # i => Outcome(j)' = Outcome(j) /\ (IsPrinted(j)' <=> IsPrinted(j))
            /\ Passed(j)' <=> Passed(j)
      BY <1>1, <2>1 DEF Passed, IsPrinted, Outcome
    <2>3. \A k \in DOMAIN printed, j \in Jobs :
            printed[k][2] = j =>
              /\ at'[j] = "exit" /\ printed[k] = <<Outcome(j)', j>>
              /\ main = "create" => status'[j] = "NULL"
              /\ main = "join" /\ j >= turn => status'[j] = "NULL"
      BY <1>1, <1>4, <2>2 DEF Reports
    <2>4. \A j \in Jobs : Passed(j)' => at'[j] = "failed" \/ (at'[j] = "exit" /\ IsPrinted(j)')
      BY <1>1, <1>2, <2>2 DEF Reports
    <2>5. \A j \in Jobs : status'[j] = "NULL" => IsPrinted(j)'
      BY <1>1, <2>1, <2>2 DEF Reports
    <2>6. main = "create" => \A j \in Jobs : j >= turn => at'[j] = "none"
      BY <1>1 DEF Reports
    <2>7. \A k, l \in DOMAIN printed : printed[k][2] = printed[l][2] => k = l
      BY DEF Reports
    <2> QED
      BY <1>1, <2>1, <2>3, <2>4, <2>5, <2>6, <2>7 DEF Reports
  <1>6. CASE PeerCloses(i)
    <2>1. printed' = Append(printed, <<"page", i>>) /\ status'[i] = "NULL" /\ at'[i] = "exit"
      BY <1>6 DEF PeerCloses, Exit
    <2>2. <<"page", i>> \in {"page", "failed"} \X Jobs
      OBVIOUS
    <2> DEFINE n == Len(printed) + 1
    <2>3. /\ DOMAIN printed' = DOMAIN printed \cup {n}
          /\ printed'[n] = <<"page", i>>
          /\ \A k \in DOMAIN printed : printed'[k] = printed[k] /\ k # n
      BY <2>1, <2>2, Appended
    <2> HIDE DEF n
    <2>4. \A j \in Jobs \ {i} : Outcome(j)' = Outcome(j) /\ (IsPrinted(j) => IsPrinted(j)')
      <3> TAKE j \in Jobs \ {i}
      <3>1. Outcome(j)' = Outcome(j)
        BY <1>1 DEF Outcome
      <3>2. ASSUME IsPrinted(j) PROVE IsPrinted(j)'
        <4>1. PICK k \in DOMAIN printed : printed[k] = <<Outcome(j), j>>
          BY <3>2 DEF IsPrinted
        <4>2. k \in DOMAIN printed' /\ printed'[k] = <<Outcome(j)', j>>
          BY <2>3, <3>1, <4>1
        <4> QED
          BY <4>2 DEF IsPrinted
      <3> QED
        BY <3>1, <3>2
    <2>5. IsPrinted(i)' /\ Outcome(i)' = "page"
      <3>1. Outcome(i)' = "page"
        BY <2>1 DEF Outcome
      <3>2. n \in DOMAIN printed' /\ printed'[n] = <<Outcome(i)', i>>
        BY <2>3, <3>1
      <3> QED
        BY <3>1, <3>2 DEF IsPrinted
    <2>6. \A j \in Jobs : Passed(j)' <=> Passed(j)
      BY <1>1 DEF Passed
    <2>7. \A k \in DOMAIN printed', j \in Jobs :
            printed'[k][2] = j =>
              /\ at'[j] = "exit" /\ printed'[k] = <<Outcome(j)', j>>
              /\ main' = "create" => status'[j] = "NULL"
              /\ main' = "join" /\ j >= turn' => status'[j] = "NULL"
      <3> TAKE k \in DOMAIN printed', j \in Jobs
      <3>1. CASE k = n
        BY <2>1, <2>3, <2>5, <3>1
      <3>2. CASE k \in DOMAIN printed
        BY <1>1, <1>4, <2>3, <2>4, <3>2, SMTT(30) DEF Reports
      <3> QED
        BY <2>3, <3>1, <3>2
    <2>8. \A k, l \in DOMAIN printed' : printed'[k][2] = printed'[l][2] => k = l
      BY <1>4, <2>3 DEF Reports
    <2>9. \A j \in Jobs : status'[j] = "NULL" => IsPrinted(j)'
      BY <1>1, <2>4, <2>5 DEF Reports
    <2>10. \A j \in Jobs : Passed(j)' => at'[j] = "failed" \/ (at'[j] = "exit" /\ IsPrinted(j)')
      BY <1>1, <1>2, <2>4, <2>6 DEF Reports
    <2>11. main' = "create" => \A j \in Jobs : j >= turn' => at'[j] = "none"
      BY <1>1 DEF Reports
    <2> QED
      BY <2>7, <2>8, <2>9, <2>10, <2>11 DEF Reports
  <1> QED
    BY <1>5, <1>6

\* main creates one thread more.
LEMMA ReportsKeptByCreate ==
  ASSUME Types, ReadThenExit, Reports, CreateFetch
  PROVE  Reports'
  <1> USE DEF Types, Is
  <1>1. /\ main = "create" /\ at[turn] = "none" /\ at'[turn] \in {"parse", "failed"}
        /\ \A j \in Jobs \ {turn} : at'[j] = at[j]
        /\ UNCHANGED <<status, printed>>
    BY UrlsAssumption DEF CreateFetch, Reports, Jobs
  <1>2. \/ turn < Len(Urls) /\ turn' = turn + 1 /\ main' = "create"
        \/ turn = Len(Urls) /\ turn' = 1 /\ main' = "join"
    BY <1>1, UrlsAssumption DEF CreateFetch, NextTurn, Jobs
  <1>3. \A j \in Jobs : ~Passed(j)' /\ Outcome(j)' = Outcome(j) /\ (IsPrinted(j)' <=> IsPrinted(j))
    BY <1>1, <1>2 DEF Passed, Outcome, IsPrinted, Jobs
  <1>4. main' = "create" => \A j \in Jobs : j >= turn' => at'[j] = "none"
    BY <1>1, <1>2, UrlsAssumption DEF Reports, Jobs
  <1>5. \A k \in DOMAIN printed :
          /\ printed[k][2] \in Jobs \ {turn} /\ at[printed[k][2]] = "exit"
          /\ printed[k] = <<Outcome(printed[k][2]), printed[k][2]>>
          /\ status[printed[k][2]] = "NULL"
    <2>1. \A k \in DOMAIN printed : printed[k] \in {"page", "failed"} \X Jobs
      OBVIOUS
    <2> QED
      BY <1>1, <2>1 DEF Reports
  <1> QED
    BY <1>1, <1>3, <1>4, <1>5 DEF Reports

\* main passes one thread more, which it reports if it failed.
LEMMA ReportsKeptByJoin ==
  ASSUME Types, ReadThenExit, Reports, JoinFetch \/ JoinNobody
  PROVE  Reports'
  <1> USE DEF Types, Is
  <1>1. main = "join" /\ UNCHANGED <<at, status>>
    BY DEF JoinFetch, JoinNobody, thread
  <1>2. \A k \in DOMAIN printed : printed[k] \in {"page", "failed"} \X Jobs
    OBVIOUS
  <1>3. CASE main' = "crash"
    <2>1. printed' = printed
      BY <1>3, UrlsAssumption DEF JoinFetch, JoinNobody, NextTurn
    <2> QED
      BY <1>1, <1>3, <2>1 DEF Reports, Passed, IsPrinted, Outcome
  <1>4. CASE main' # "crash"
    <2>1. \/ turn < Len(Urls) /\ turn' = turn + 1 /\ main' = "join"
          \/ turn = Len(Urls) /\ turn' = 1 /\ main' = "end"
      BY <1>1, <1>4, UrlsAssumption DEF JoinFetch, JoinNobody, NextTurn, Jobs
    <2>2. \A j \in Jobs : Passed(j)' <=> Passed(j) \/ j = turn
      BY <1>1, <2>1, UrlsAssumption DEF Passed, Jobs
    <2>3. \A j \in Jobs : main' = "join" /\ j >= turn' => j >= turn /\ j # turn
      BY <1>1, <2>1, UrlsAssumption DEF Jobs
    <2>4. \A j \in Jobs : Outcome(j)' = Outcome(j)
      BY <1>1 DEF Outcome
    <2>5. CASE printed' = printed
      <3>1. \A j \in Jobs : IsPrinted(j)' <=> IsPrinted(j)
        BY <2>4, <2>5 DEF IsPrinted
      <3>2. at[turn] = "failed" \/ (at[turn] = "exit" /\ IsPrinted(turn))
        BY <1>1, <2>5 DEF JoinFetch, JoinNobody, Reports, ReadThenExit
      <3>3. \A k \in DOMAIN printed, j \in Jobs :
              printed[k][2] = j =>
                /\ at[j] = "exit" /\ printed[k] = <<Outcome(j), j>>
                /\ main' = "join" /\ j >= turn' => status[j] = "NULL"
        BY <1>1, <1>2, <2>3 DEF Reports
      <3> QED
        BY <1>1, <2>1, <2>2, <2>4, <2>5, <3>1, <3>2, <3>3, <1>2 DEF Reports
    <2>6. CASE printed' # printed
      <3>1. /\ at[turn] = "exit" /\ status[turn] = "failed"
            /\ printed' = Append(printed, <<"failed", turn>>)
        BY <2>6 DEF JoinFetch, JoinNobody
      <3>2. <<"failed", turn>> \in {"page", "failed"} \X Jobs
        OBVIOUS
      <3> DEFINE n == Len(printed) + 1
      <3>3. /\ DOMAIN printed' = DOMAIN printed \cup {n}
            /\ printed'[n] = <<"failed", turn>>
            /\ \A k \in DOMAIN printed : printed'[k] = printed[k] /\ k # n
        BY <3>1, <3>2, Appended
      <3> HIDE DEF n
      <3>4. \A k \in DOMAIN printed : printed[k][2] \in Jobs \ {turn}
        <4>1. turn >= turn
          BY UrlsAssumption DEF Jobs
        <4>2. \A k \in DOMAIN printed : printed[k][2] # turn
          BY <1>1, <3>1, <4>1 DEF Reports
        <4> QED
          BY <1>2, <4>2
      <3>5. \A j \in Jobs : IsPrinted(j) => IsPrinted(j)'
        <4> SUFFICES ASSUME NEW j \in Jobs, IsPrinted(j) PROVE IsPrinted(j)'
          OBVIOUS
        <4>1. PICK k \in DOMAIN printed : printed[k] = <<Outcome(j), j>>
          BY DEF IsPrinted
        <4>2. k \in DOMAIN printed' /\ printed'[k] = <<Outcome(j)', j>>
          BY <2>4, <3>3, <4>1
        <4> QED
          BY <4>2 DEF IsPrinted
      <3>6. \A j \in Jobs : j = turn => Outcome(j)' = "failed" /\ IsPrinted(j)'
        <4> SUFFICES ASSUME NEW j \in Jobs, j = turn
                     PROVE  Outcome(j)' = "failed" /\ IsPrinted(j)'
          OBVIOUS
        <4>1. Outcome(j)' = "failed"
          BY <1>1, <3>1 DEF Outcome
        <4>2. n \in DOMAIN printed' /\ printed'[n] = <<Outcome(j)', j>>
          BY <3>3, <4>1
        <4> QED
          BY <4>1, <4>2 DEF IsPrinted
      <3>7. \A k \in DOMAIN printed', j \in Jobs :
              printed'[k][2] = j =>
                /\ at'[j] = "exit" /\ printed'[k] = <<Outcome(j)', j>>
                /\ main' = "join" /\ j >= turn' => status'[j] = "NULL"
        <4> TAKE k \in DOMAIN printed', j \in Jobs
        <4>1. CASE k = n
          BY <1>1, <2>3, <3>1, <3>3, <3>6, <4>1
        <4>2. CASE k \in DOMAIN printed
          <5>1. printed'[k] = printed[k] /\ printed[k][2] \in Jobs
            BY <1>2, <3>3, <4>2
          <5> QED
            BY <1>1, <2>3, <2>4, <4>2, <5>1, SMTT(30) DEF Reports
        <4> QED
          BY <3>3, <4>1, <4>2
      <3>8. \A k, l \in DOMAIN printed' : printed'[k][2] = printed'[l][2] => k = l
        BY <3>3, <3>4 DEF Reports
      <3>9. \A j \in Jobs : status'[j] = "NULL" => IsPrinted(j)'
        BY <1>1, <3>5 DEF Reports
      <3>10. \A j \in Jobs : Passed(j)' => at'[j] = "failed" \/ (at'[j] = "exit" /\ IsPrinted(j)')
        BY <1>1, <2>2, <3>1, <3>5, <3>6 DEF Reports
      <3>11. main' # "create"
        BY <2>1
      <3> QED
        BY <3>7, <3>8, <3>9, <3>10, <3>11 DEF Reports
    <2> QED
      BY <2>5, <2>6
  <1> QED
    BY <1>3, <1>4

------------------------------------------------------------------------------
\* FetchInv is inductive.
LEMMA FetchInvHolds == FetchSpec => []FetchInv
  <1>1. FetchInv /\ FetchMain => FetchInv'
    BY MainStep, BufferKeptByMain, ReadKeptByMain, ReportsKeptByCreate, ReportsKeptByJoin
    DEF FetchInv, FetchMain
  <1>2. ASSUME FetchInv, NEW i \in Jobs, Fetch(i) PROVE FetchInv'
    BY <1>2, ThreadStep, BufferKeptByThread, ReadKeptByThread, ReportsKeptByThread DEF FetchInv
  <1>3. FetchInv /\ UNCHANGED fetchVars => FetchInv'
    <2> SUFFICES ASSUME FetchInv, UNCHANGED fetchVars PROVE FetchInv'
      OBVIOUS
    <2>1. UNCHANGED <<main, turn, at, sfd, addr, pieces, status, hostent, printed>>
      BY DEF fetchVars, joiner, thread
    <2>2. parsed' = parsed
      BY DEF parsed, Jobs
    <2>3. Types' /\ BufferInv' /\ ReadThenExit'
      BY <2>1, <2>2 DEF FetchInv, Types, BufferInv, OwnSomewhere, HasOwn, AddressAfterCopy,
                        Asked, ReadThenExit, Is
    <2>4. Reports'
      BY <2>1 DEF FetchInv, Reports, Passed, IsPrinted, Outcome, Is
    <2> QED
      BY <2>3, <2>4 DEF FetchInv
  <1>4. FetchInv /\ [FetchNext]_fetchVars => FetchInv'
    BY <1>1, <1>2, <1>3 DEF FetchNext
  <1> QED
    BY FetchInvInit, <1>4, PTL DEF FetchSpec

\* Of the threads that looked a name up one at least has the address of its own
\* host, if all the names resolve (fetchall.c:120-132).
THEOREM LastHasOwnHost == FetchSpec => []OneHasOwnHost
  <1>1. FetchInv => OneHasOwnHost
    <2> SUFFICES ASSUME FetchInv, main = "end", Asked # {},
                        \A i \in Asked : parsed[i].hostname \in Hosts
                 PROVE  \E i \in Asked : addr[i] = parsed[i].hostname
      BY DEF OneHasOwnHost
    <2>1. PICK i \in Asked : HasOwn(i)
      BY DEF FetchInv, BufferInv, OwnSomewhere
    <2>2. at[i] \in {"failed", "exit"}
      BY DEF FetchInv, Reports, Passed, Asked, Is
    <2> QED
      BY <2>1, <2>2 DEF HasOwn, Is
  <1> QED
    BY FetchInvHolds, <1>1, PTL

\* Every url whose thread was created is reported once and truthfully, and only a
\* thread that failed before the reply began keeps its socket (fetchall.c:30-37, 124,
\* 139, 157, 201-202).
THEOREM EndsWell == FetchSpec => []FetchEndsWell
  <1>1. FetchInv => ReportedOnce
    BY DEF FetchInv, Types, Reports, ReportedOnce, Passed, IsPrinted, Outcome, Is
  <1>2. FetchInv => LeaksOnlyBeforeReply
    BY DEF FetchInv, ReadThenExit, LeaksOnlyBeforeReply, Is
  <1>3. FetchInv => FetchEndsWell
    BY <1>1, <1>2 DEF FetchEndsWell
  <1> QED
    BY FetchInvHolds, <1>3, PTL

------------------------------------------------------------------------------
(* The lock.                                                                *)

\* main creates a worker once.
NotYetCreated ==
  phase = "create" => \A w \in Workers : w >= next => At(w, "none")
\* As long as no two have met: one is inside, the counts printed are exact, and count
\* is ahead of them by the one about to be printed.
Alone == \A v, w \in Workers : Inside(v) /\ Inside(w) => v = w
CountFollowsShown ==
  /\ (\A w \in Workers : ~At(w, "print")) => count = Len(shown)
  /\ \A w \in Workers :
       /\ At(w, "store") => reg[w] = count
       /\ At(w, "print") => count = Len(shown) + 1
MuxInv ==
  /\ MuxTypeOK /\ NotYetCreated /\ HeldMeansInside
  /\ ~overlapped => Alone /\ CountFollowsShown
  /\ CountsExactUnlessOverlapped

LEMMA MuxInvInit == MuxInit => MuxInv
  <1> SUFFICES ASSUME MuxInit PROVE MuxInv
    OBVIOUS
  <1>1. MuxTypeOK
    <2>1. 1 \in Workers
      BY NJobsAssumption DEF Workers
    <2>2. shown \in Seq(Nat)
      BY DEF MuxInit
    <2>3. overlapped \in BOOLEAN
      BY Zenon DEF MuxInit
    <2> QED
      BY <2>1, <2>2, <2>3 DEF MuxInit, MuxTypeOK
  <1>2. \A w \in Workers : At(w, "none") /\ ~Inside(w) /\ ~At(w, "print") /\ ~At(w, "store")
    BY DEF MuxInit, At, Inside
  <1>3. mux = 0 /\ shown = <<>> /\ count = 0
    BY DEF MuxInit
  <1> QED
    BY <1>1, <1>2, <1>3
    DEF MuxInv, NotYetCreated, HeldMeansInside, Alone, CountFollowsShown,
        CountsExactUnlessOverlapped

\* The types are kept by every step.
LEMMA MuxTypesKept == MuxTypeOK /\ [MuxNext]_muxVars => MuxTypeOK'
  <1> SUFFICES ASSUME MuxTypeOK, [MuxNext]_muxVars PROVE MuxTypeOK'
    OBVIOUS
  <1> USE DEF MuxTypeOK, Move
  <1>1. CASE MainMux
    <2>1. next' \in Workers /\ phase' \in {"create", "join", "end", "crash"}
      BY <1>1, NJobsAssumption DEF MainMux, CreateWorker, JoinWorker, NextWorker, Workers
    <2>2. wpc' \in [Workers -> {"none", "failed", "read", "swap", "load", "store", "print",
                               "clear", "done"}]
      BY <1>1 DEF MainMux, CreateWorker, JoinWorker
    <2>3. UNCHANGED <<mux, count, oldval, reg, shown, overlapped>>
      BY <1>1 DEF MainMux
    <2> QED
      BY <2>1, <2>2, <2>3
  <1>2. ASSUME NEW w \in Workers, Worker(w) PROVE MuxTypeOK'
    <2>1. CASE ReadMux(w) \/ Spin(w) \/ Swap(w)
      <3>1. overlapped' \in BOOLEAN
        BY <2>1, Zenon DEF ReadMux, Spin, Swap
      <3>2. /\ mux' \in 0..1 /\ oldval' \in [Workers -> 0..1]
            /\ wpc' \in [Workers -> {"none", "failed", "read", "swap", "load", "store", "print",
                                    "clear", "done"}]
        <4>1. CASE ReadMux(w)
          BY <4>1 DEF ReadMux
        <4>2. CASE Spin(w)
          BY <4>2 DEF Spin
        <4>3. CASE Swap(w)
          BY <4>3 DEF Swap
        <4> QED
          BY <2>1, <4>1, <4>2, <4>3
      <3>3. UNCHANGED <<count, phase, next, reg, shown>>
        BY <2>1 DEF ReadMux, Spin, Swap
      <3> QED
        BY <3>1, <3>2, <3>3
    <2>2. CASE LoadCount(w)
      BY <2>2 DEF LoadCount
    <2>3. CASE StoreCount(w)
      BY <2>3 DEF StoreCount
    <2>4. CASE PrintCount(w)
      BY <2>4 DEF PrintCount
    <2>5. CASE ClearMux(w)
      BY <2>5 DEF ClearMux
    <2> QED
      BY <1>2, <2>1, <2>2, <2>3, <2>4, <2>5 DEF Worker
  <1>3. CASE UNCHANGED muxVars
    BY <1>3 DEF muxVars
  <1> QED
    BY <1>1, <1>2, <1>3 DEF MuxNext

\* main only moves a worker that has not begun.
LEMMA MainMuxKeepsInv == MuxInv /\ MainMux => MuxInv'
  <1> SUFFICES ASSUME MuxInv, MainMux PROVE MuxInv'
    OBVIOUS
  <1> USE DEF MuxInv, MuxTypeOK
  <1>1. MuxTypeOK'
    BY MuxTypesKept, Zenon DEF MuxNext
  <1>2. \A w \in Workers :
          /\ Inside(w)' <=> Inside(w)
          /\ At(w, "print")' <=> At(w, "print")
          /\ At(w, "store")' <=> At(w, "store")
    <2>1. CASE CreateWorker
      <3>1. wpc[next] = "none"
        BY <2>1 DEF CreateWorker, NotYetCreated, At, Workers
      <3>2. PICK where \in {"read", "failed"} : wpc' = [wpc EXCEPT ![next] = where]
        BY <2>1 DEF CreateWorker, Move
      <3> QED
        BY <3>1, <3>2 DEF At, Inside
    <2>2. CASE JoinWorker
      BY <2>2 DEF JoinWorker, At, Inside
    <2> QED
      BY <2>1, <2>2 DEF MainMux
  <1>3. NotYetCreated'
    BY NJobsAssumption
    DEF MainMux, CreateWorker, JoinWorker, NextWorker, Move, NotYetCreated, At, Workers
  <1>4. UNCHANGED <<mux, count, reg, shown, overlapped>>
    BY DEF MainMux
  <1> QED
    BY <1>1, <1>2, <1>3, <1>4
    DEF HeldMeansInside, Alone, CountFollowsShown, CountsExactUnlessOverlapped

\* A worker that waits changes nothing others see until it comes in.
LEMMA WaitKeepsInv ==
  ASSUME NEW w \in Workers, MuxInv, ReadMux(w) \/ Spin(w) \/ Swap(w)
  PROVE  MuxInv'
  <1> USE DEF MuxInv, MuxTypeOK
  <1>1. MuxTypeOK'
    BY MuxTypesKept DEF MuxNext, Worker
  <1>2. NotYetCreated'
    BY DEF NotYetCreated, ReadMux, Spin, Swap, Move, Works, At
  <1>3. /\ \A v \in Workers \ {w} : wpc'[v] = wpc[v]
        /\ ~Inside(w)
        /\ ~At(w, "print") /\ ~At(w, "print")' /\ ~At(w, "store") /\ ~At(w, "store")'
        /\ UNCHANGED <<count, reg, shown>>
    BY DEF ReadMux, Spin, Swap, Move, Works, At, Inside
  <1>4. CASE Swap(w)
    <2>1. Inside(w)'
      BY <1>4 DEF Swap, Move, Inside
    <2>2. ~overlapped' => ~overlapped /\ \A v \in Workers \ {w} : ~Inside(v)
      BY <1>4 DEF Swap
    <2> QED
      BY <1>1, <1>2, <1>3, <2>1, <2>2
      DEF HeldMeansInside, Alone, CountFollowsShown, CountsExactUnlessOverlapped, Inside, At
  <1>5. CASE ReadMux(w) \/ Spin(w)
    <2>1. ~Inside(w)' /\ UNCHANGED <<mux, overlapped>>
      BY <1>5 DEF ReadMux, Spin, Move, Inside
    <2> QED
      BY <1>1, <1>2, <1>3, <2>1
      DEF HeldMeansInside, Alone, CountFollowsShown, CountsExactUnlessOverlapped, Inside, At
  <1> QED
    BY <1>4, <1>5

LEMMA CountKeepsInv ==
  ASSUME NEW w \in Workers, MuxInv, LoadCount(w) \/ StoreCount(w) \/ PrintCount(w)
  PROVE  MuxInv'
  <1> USE DEF MuxInv, MuxTypeOK
  <1>1. MuxTypeOK'
    BY MuxTypesKept DEF MuxNext, Worker
  <1>2. NotYetCreated'
    BY DEF NotYetCreated, LoadCount, StoreCount, PrintCount, Move, Works, At
  <1>3. /\ \A v \in Workers \ {w} : wpc'[v] = wpc[v]
        /\ Inside(w) /\ Inside(w)'
        /\ UNCHANGED <<mux, overlapped>>
    BY DEF LoadCount, StoreCount, PrintCount, Move, Works, At, Inside
  <1>4. HeldMeansInside' /\ (Alone => Alone')
    BY <1>3 DEF HeldMeansInside, Alone, Inside
  <1>5. ASSUME ~overlapped PROVE CountFollowsShown' /\ CountsExactUnlessOverlapped'
    <2>1. \A v \in Workers \ {w} : ~Inside(v) /\ ~Inside(v)'
      BY <1>3, <1>5 DEF Alone, Inside
    <2>2. \A v \in Workers \ {w} :
            ~At(v, "print") /\ ~At(v, "print")' /\ ~At(v, "store")'
      BY <2>1 DEF Inside, At
    <2>3. CASE LoadCount(w)
      BY <1>5, <2>2, <2>3
      DEF LoadCount, Move, Works, At, CountFollowsShown, CountsExactUnlessOverlapped
    <2>4. CASE StoreCount(w)
      <3>1. count = Len(shown) /\ reg[w] = count
        BY <1>5, <2>2, <2>4 DEF StoreCount, Works, At, CountFollowsShown
      <3>2. wpc'[w] = "print" /\ count' = Len(shown) + 1 /\ shown' = shown
        BY <2>4, <3>1 DEF StoreCount, Move, Works, At
      <3> QED
        BY <1>3, <1>5, <2>2, <3>2 DEF At, CountFollowsShown, CountsExactUnlessOverlapped
    <2>5. CASE PrintCount(w)
      <3>1. count = Len(shown) + 1 /\ shown' = Append(shown, count) /\ wpc'[w] = "clear"
        BY <1>5, <2>5 DEF PrintCount, Move, Works, At, CountFollowsShown
      <3>2. count' = Len(shown')
        BY <2>5, <3>1 DEF PrintCount
      <3>3. CountsExactUnlessOverlapped'
        BY <1>5, <3>1 DEF CountsExactUnlessOverlapped
      <3> QED
        BY <2>2, <3>1, <3>2, <3>3 DEF At, CountFollowsShown
    <2> QED
      BY <2>3, <2>4, <2>5
  <1> QED
    BY <1>1, <1>2, <1>3, <1>4, <1>5 DEF CountsExactUnlessOverlapped

LEMMA ClearKeepsInv ==
  ASSUME NEW w \in Workers, MuxInv, ClearMux(w)
  PROVE  MuxInv'
  <1> USE DEF MuxInv, MuxTypeOK
  <1>1. MuxTypeOK'
    BY MuxTypesKept DEF MuxNext, Worker
  <1>2. NotYetCreated'
    BY DEF NotYetCreated, ClearMux, Move, Works, At
  <1>3. /\ \A v \in Workers \ {w} : wpc'[v] = wpc[v]
        /\ wpc[w] = "clear" /\ wpc'[w] = "done" /\ mux' = 0
        /\ UNCHANGED <<count, reg, shown, overlapped>>
    BY DEF ClearMux, Move, Works, At
  <1>4. HeldMeansInside'
    BY <1>3 DEF HeldMeansInside
  <1>5. Alone => Alone'
    BY <1>3 DEF Alone, Inside
  <1>6. CountFollowsShown => CountFollowsShown'
    BY <1>3 DEF CountFollowsShown, At
  <1> QED
    BY <1>1, <1>2, <1>3, <1>4, <1>5, <1>6 DEF CountsExactUnlessOverlapped

\* MuxInv is inductive.
LEMMA MuxInvHolds == MuxSpec => []MuxInv
  <1>1. MuxInv /\ UNCHANGED muxVars => MuxInv'
    BY DEF MuxInv, MuxTypeOK, NotYetCreated, HeldMeansInside, Alone, CountFollowsShown,
           CountsExactUnlessOverlapped, At, Inside, muxVars
  <1>2. MuxInv /\ [MuxNext]_muxVars => MuxInv'
    BY <1>1, MainMuxKeepsInv, WaitKeepsInv, CountKeepsInv, ClearKeepsInv DEF MuxNext, Worker
  <1> QED
    BY MuxInvInit, <1>2, PTL DEF MuxSpec

\* The counts printed are exact until two workers have met (mux.c:31-42).
THEOREM ExactUntilOverlapped == MuxSpec => []CountsExactUnlessOverlapped
  <1>1. MuxInv => CountsExactUnlessOverlapped
    BY DEF MuxInv
  <1> QED
    BY MuxInvHolds, <1>1, PTL

\* The lock is never left taken with nobody inside, so that nobody who waits for it
\* waits for ever (mux.c:34, 40).
THEOREM NeverLeftTaken == MuxSpec => []HeldMeansInside
  <1>1. MuxInv => HeldMeansInside
    BY DEF MuxInv
  <1> QED
    BY MuxInvHolds, <1>1, PTL

------------------------------------------------------------------------------
(* No lock.                                                                 *)

\* No thread runs, and one has run.
AllDone ==
  /\ \A t \in Adders : loop[t] \in {Rounds, -1, -2}
  /\ \E t \in Adders : loop[t] = Rounds

\* A thread that adds is not done; whoever has stored once finds one at least; main
\* has joined the threads below p, or not yet come to those from p on; and the store that ends the last thread adds to
\* what that thread found after a store of its own.
CounterInv ==
  /\ CounterTypeOK
  /\ \A t \in Adders :
       /\ loaded[t] # -1 => loop[t] \in 0..Rounds - 1
       /\ loop[t] >= 1 => total >= 1
       /\ loaded[t] # -1 /\ loop[t] >= 1 => loaded[t] >= 1
       /\ boss = "create" /\ t >= p => loop[t] = -1
       /\ boss = "join" /\ t < p => loop[t] \in {Rounds, -2}
       /\ boss = "end" => loop[t] \in {Rounds, -2}
  /\ AllDone /\ Rounds > 1 => total >= 2

LEMMA CounterInvInit == CounterInit => CounterInv
  <1> SUFFICES ASSUME CounterInit PROVE CounterInv
    OBVIOUS
  <1>1. CounterTypeOK
    BY CounterAssumption DEF CounterInit, CounterTypeOK, Adders
  <1>2. ~AllDone
    BY CounterAssumption DEF CounterInit, AllDone
  <1> QED
    BY <1>1, <1>2 DEF CounterInit, CounterInv

LEMMA MainKeepsInv == CounterInv /\ MainCounter => CounterInv'
  <1> SUFFICES ASSUME CounterInv, MainCounter PROVE CounterInv'
    OBVIOUS
  <1> USE DEF CounterInv, CounterTypeOK, Adders
  <1>1. CASE CreateAdder
    <2>1. PICK i \in {0, -2} : loop' = [loop EXCEPT ![p] = i]
      BY <1>1 DEF CreateAdder
    <2>2. boss' \in {"create", "join"} /\ p' \in Adders /\ (boss' = "join" => p' = 1)
      BY <1>1, CounterAssumption DEF CreateAdder, NextAdder
    <2>3. UNCHANGED <<total, loaded>>
      BY DEF MainCounter
    <2>4. boss = "create" /\ loop[p] = -1 /\ loaded[p] = -1
      BY <1>1, CounterAssumption DEF CreateAdder
    <2>5. AllDone' => AllDone
      BY <2>1, <2>4, CounterAssumption DEF AllDone
    <2>6. boss' = "create" => \A t \in Adders : t >= p' => loop'[t] = -1
      BY <1>1, <2>1, <2>4, CounterAssumption DEF CreateAdder, NextAdder
    <2> QED
      BY <2>1, <2>2, <2>3, <2>4, <2>5, <2>6, CounterAssumption, SMTT(30)
  <1>2. CASE JoinAdder
    <2>1. UNCHANGED <<loop, total, loaded>> /\ boss = "join"
      BY <1>2 DEF MainCounter, JoinAdder
    <2>2. AllDone' <=> AllDone
      BY <2>1 DEF AllDone
    <2>3. CASE boss' = "crash"
      BY <1>2, <2>1, <2>2, <2>3 DEF JoinAdder, NextAdder
    <2>4. CASE boss' # "crash"
      <3>1. loop[p] \in {Rounds, -2} /\ NextAdder("end")
        BY <1>2, <2>4 DEF JoinAdder
      <3>2. CASE p < NThreads
        <4>1. p' = p + 1 /\ boss' = "join"
          BY <2>1, <3>1, <3>2 DEF NextAdder
        <4> QED
          BY <2>1, <2>2, <3>1, <3>2, <4>1, CounterAssumption
      <3>3. CASE ~(p < NThreads)
        <4>1. p' = 1 /\ boss' = "end" /\ p = NThreads
          BY <3>1, <3>3, CounterAssumption DEF NextAdder
        <4> QED
          BY <2>1, <2>2, <3>1, <4>1, CounterAssumption
      <3> QED
        BY <3>2, <3>3
    <2> QED
      BY <2>3, <2>4
  <1> QED
    BY <1>1, <1>2 DEF MainCounter

LEMMA LoadKeepsInv ==
  ASSUME NEW t \in Adders, CounterInv, LoadTotal(t)
  PROVE  CounterInv'
BY CounterAssumption DEF CounterInv, CounterTypeOK, LoadTotal, AllDone

LEMMA StoreKeepsInv ==
  ASSUME NEW t \in Adders, CounterInv, StoreTotal(t)
  PROVE  CounterInv'
  <1> USE DEF CounterInv, CounterTypeOK
  <1>1. /\ loaded[t] \in Nat /\ loop[t] \in 0..Rounds - 1
        /\ total' = loaded[t] + 1 /\ UNCHANGED <<boss, p>>
        /\ loaded' = [loaded EXCEPT ![t] = -1]
        /\ loop' = [loop EXCEPT ![t] = loop[t] + 1]
    BY DEF StoreTotal
  <1>2. loop[t] + 1 \in -2..Rounds
    BY <1>1, CounterAssumption
  <1>3. CounterTypeOK'
    BY <1>1, <1>2
  <1>4. \A u \in Adders :
          /\ loaded'[u] # -1 => loop'[u] \in 0..Rounds - 1
          /\ total' >= 1
          /\ loaded'[u] # -1 /\ loop'[u] >= 1 => loaded'[u] >= 1
          /\ boss' = "create" /\ u >= p' => loop'[u] = -1
          /\ boss' = "join" /\ u < p' => loop'[u] \in {Rounds, -2}
          /\ boss' = "end" => loop'[u] \in {Rounds, -2}
    <2> TAKE u \in Adders
    <2>1. CASE u = t
      BY <1>1, <2>1, CounterAssumption
    <2>2. CASE u # t
      BY <1>1, <2>2, CounterAssumption
    <2> QED
      BY <2>1, <2>2
  <1>5. ASSUME AllDone', Rounds > 1 PROVE total' >= 2
    <2>1. loop[t] + 1 = Rounds
      BY <1>1, <1>5 DEF AllDone
    <2>2. loop[t] >= 1
      BY <1>1, <1>5, <2>1, CounterAssumption
    <2>3. loaded[t] >= 1
      BY <1>1, <2>2
    <2> QED
      BY <1>1, <2>3
  <1> QED
    BY <1>3, <1>4, <1>5

\* Whatever updates are lost, the total printed is two at least when a thread could be
\* created and each adds more than once (var.c:7-10, 20).
THEOREM LeastTotal == CounterSpec => []TotalAtLeastTwo
  <1>1. CounterInv /\ [CounterNext]_counterVars => CounterInv'
    <2>1. CounterInv /\ UNCHANGED counterVars => CounterInv'
      BY DEF CounterInv, CounterTypeOK, AllDone, counterVars
    <2> QED
      BY <2>1, MainKeepsInv, LoadKeepsInv, StoreKeepsInv DEF CounterNext, Adder
  <1>2. CounterInv => TotalAtLeastTwo
    BY DEF CounterInv, CounterTypeOK, TotalAtLeastTwo, AllDone
  <1> QED
    BY CounterInvInit, <1>1, <1>2, PTL DEF CounterSpec

------------------------------------------------------------------------------
(* The listener.                                                            *)

\* As long as the listener runs every child it has had is a process still, and main
\* has the connection it forks for.
ListenerInv ==
  /\ ListenerTypeOK
  /\ parent # "end" => \A who \in Callers : child[who] # "reaped"
  /\ parent = "fork" => client \in accepted /\ Main \in holders[client]
  /\ \A who \in Callers : child[who] # "none" => who \in accepted
  /\ calling \cap accepted = {}
  /\ ServedWhileOpen

LEMMA Finite ==
  ASSUME NEW S, S \subseteq Callers
  PROVE  IsFiniteSet(S) /\ Cardinality(S) \in Nat
BY LimitsAssumption, FS_Subset, FS_CardinalityType

LEMMA ListenerInvInit == ListenerInit => ListenerInv
  <1> SUFFICES ASSUME ListenerInit PROVE ListenerInv
    OBVIOUS
  <1>1. ListenerTypeOK
    BY DEF ListenerInit, ListenerTypeOK
  <1> QED
    BY <1>1 DEF ListenerInit, ListenerInv, ServedWhileOpen

LEMMA ListenerTypesKept ==
  ASSUME ListenerInv, [ListenerNext]_listenerVars
  PROVE  ListenerTypeOK'
  <1> USE DEF ListenerTypeOK, ListenerInv
  <1>1. ASSUME NEW who \in Callers, Call(who) PROVE ListenerTypeOK'
    BY <1>1 DEF Call
  <1>2. ASSUME NEW who \in Callers, AcceptCall(who) PROVE ListenerTypeOK'
    BY <1>2 DEF AcceptCall
  <1>3. CASE AcceptCallFails
    BY <1>3 DEF AcceptCallFails
  <1>4. CASE ForkChild
    <2>1. client \in Callers
      BY <1>4 DEF ForkChild
    <2> QED
      BY <1>4, <2>1 DEF ForkChild
  <1>5. CASE ForkFails
    BY <1>5 DEF ForkFails
  <1>6. ASSUME NEW who \in Callers, ChildEnds(who) PROVE ListenerTypeOK'
    BY <1>6 DEF ChildEnds
  <1>7. CASE UNCHANGED listenerVars
    BY <1>7 DEF listenerVars
  <1> QED
    BY <1>1, <1>2, <1>3, <1>4, <1>5, <1>6, <1>7 DEF ListenerNext

LEMMA AcceptKeepsInv ==
  ASSUME ListenerInv, NEW who \in Callers, AcceptCall(who), ListenerTypeOK'
  PROVE  ListenerInv'
  <1> USE DEF ListenerInv, ListenerTypeOK
  <1>1. /\ parent = "accept" /\ parent' = "fork" /\ client' = who /\ child' = child
        /\ accepted' = accepted \cup {who} /\ who \notin accepted
        /\ calling' = calling \ {who}
        /\ holders' = [holders EXCEPT ![who] = {Main}]
    BY DEF AcceptCall
  <1>2. child[who] = "none" /\ holders'[who] = {Main}
    BY <1>1
  <1>3. \A d \in accepted : d # who /\ holders'[d] = holders[d]
    BY <1>1
  <1>4. Forked' = Forked
    BY <1>1 DEF Forked
  <1>5. ServedWhileOpen'
    BY <1>1, <1>2, <1>3, <1>4 DEF ServedWhileOpen
  <1> QED
    BY <1>1, <1>2, <1>5

LEMMA ForkKeepsInv == ListenerInv /\ ForkChild /\ ListenerTypeOK' => ListenerInv'
  <1> SUFFICES ASSUME ListenerInv, ForkChild, ListenerTypeOK' PROVE ListenerInv'
    OBVIOUS
  <1> USE DEF ListenerInv, ListenerTypeOK
  <1>1. /\ parent = "fork" /\ parent' = "accept" /\ UNCHANGED <<client, calling, accepted>>
        /\ child' = [child EXCEPT ![client] = "serving"]
        /\ client \in accepted /\ client \in Callers /\ Main \in holders[client]
        /\ Cardinality(Processes) < MaxProcs
        /\ \A who \in Callers :
             holders'[who] = IF Main \in holders[who] THEN holders[who] \cup {client}
                                                      ELSE holders[who]
    BY DEF ForkChild
  <1>2. Processes = Forked
    BY <1>1 DEF Processes, Forked
  <1>3. \A who \in accepted : child[who] # "none" \/ who = client
    <2>1. Cardinality(Processes) \in Nat
      BY Finite DEF Processes
    <2> QED
      BY <1>1, <1>2, <2>1, LimitsAssumption DEF ServedWhileOpen
  <1>4. \A who \in accepted : child'[who] # "none"
    BY <1>1, <1>3
  <1>5. ASSUME NEW who \in accepted
        PROVE  /\ child'[who] = "serving" => who \in holders'[who]
               /\ \A q \in holders'[who] : IF q = Main THEN parent' # "end"
                                                       ELSE child'[q] = "serving"
    <2>1. child'[who] = "serving" => who \in holders'[who]
      BY <1>1, <1>5 DEF ServedWhileOpen
    <2>2. ASSUME NEW q \in holders'[who], q # Main PROVE child'[q] = "serving"
      BY <1>1, <1>5, <2>2 DEF ServedWhileOpen
    <2> QED
      BY <1>1, <2>1, <2>2
  <1>6. ServedWhileOpen'
    BY <1>1, <1>4, <1>5 DEF ServedWhileOpen
  <1> QED
    BY <1>1, <1>6

LEMMA EndKeepsInv == ListenerInv /\ AcceptCallFails /\ ListenerTypeOK' => ListenerInv'
  <1> SUFFICES ASSUME ListenerInv, AcceptCallFails, ListenerTypeOK' PROVE ListenerInv'
    OBVIOUS
  <1> USE DEF ListenerInv, ListenerTypeOK
  <1>1. /\ parent = "accept" /\ parent' = "end" /\ UNCHANGED <<client, calling, accepted>>
        /\ \A who \in Callers :
             /\ child'[who] = IF child[who] = "zombie" THEN "reaped" ELSE child[who]
             /\ holders'[who] = holders[who] \ {Main}
    BY DEF AcceptCallFails
  <1>2. Forked' = Forked
    BY <1>1 DEF Forked
  <1>3. ServedWhileOpen'
    BY <1>1, <1>2, NamesAssumption DEF ServedWhileOpen
  <1> QED
    BY <1>1, <1>3

LEMMA ForkFailsKeepsInv == ListenerInv /\ ForkFails /\ ListenerTypeOK' => ListenerInv'
  <1> SUFFICES ASSUME ListenerInv, ForkFails, ListenerTypeOK' PROVE ListenerInv'
    OBVIOUS
  <1> USE DEF ListenerInv, ListenerTypeOK
  <1>1. /\ parent = "fork" /\ parent' = "accept"
        /\ UNCHANGED <<client, calling, accepted, child, holders>>
        /\ Cardinality(Processes) >= MaxProcs
    BY DEF ForkFails
  <1>2. Processes = Forked /\ Forked' = Forked
    BY <1>1 DEF Processes, Forked
  <1>3. ServedWhileOpen'
    BY <1>1, <1>2 DEF ServedWhileOpen
  <1> QED
    BY <1>1, <1>3

\* A call changes nothing for those who were taken, and a child takes only its own
\* copies with it when it ends.
LEMMA OthersKeepInv ==
  ASSUME ListenerInv, ListenerTypeOK', NEW who \in Callers, Call(who) \/ ChildEnds(who)
  PROVE  ListenerInv'
  <1> USE DEF ListenerInv, ListenerTypeOK
  <1>1. CASE Call(who)
    <2>1. /\ UNCHANGED <<parent, client, accepted, child, holders>>
          /\ calling' \cap accepted = {}
      BY <1>1 DEF Call
    <2>2. ServedWhileOpen'
      BY <2>1 DEF ServedWhileOpen, Forked
    <2> QED
      BY <2>1, <2>2
  <1>2. CASE ChildEnds(who)
    <2>1. /\ UNCHANGED <<parent, client, calling, accepted>> /\ child[who] = "serving"
          /\ child' = [child EXCEPT ![who] = IF parent = "end" THEN "reaped" ELSE "zombie"]
          /\ \A d \in Callers : holders'[d] = holders[d] \ {who}
      BY <1>2 DEF ChildEnds
    <2>2. Forked' = Forked
      BY <2>1 DEF Forked
    <2>3. Main # who
      BY NamesAssumption
    <2>4. ServedWhileOpen'
      BY <2>1, <2>2, <2>3 DEF ServedWhileOpen
    <2> QED
      BY <2>1, <2>3, <2>4
  <1> QED
    BY <1>1, <1>2

LEMMA ListenerInvHolds == ListenerSpec => []ListenerInv
  <1>1. ListenerInv /\ [ListenerNext]_listenerVars => ListenerInv'
    <2> SUFFICES ASSUME ListenerInv, [ListenerNext]_listenerVars PROVE ListenerInv'
      OBVIOUS
    <2>1. ListenerTypeOK'
      BY ListenerTypesKept
    <2>2. CASE UNCHANGED listenerVars
      BY <2>2 DEF listenerVars, ListenerInv, ListenerTypeOK, ServedWhileOpen, Forked
    <2> QED
      BY <2>1, <2>2, AcceptKeepsInv, ForkKeepsInv, EndKeepsInv, ForkFailsKeepsInv, OthersKeepInv
      DEF ListenerNext
  <1> QED
    BY ListenerInvInit, <1>1, PTL DEF ListenerSpec

\* A client being served keeps its connection whatever main and the other children
\* do, and is refused a child only when no process is left (server.c:449-469).
THEOREM KeepsServed == ListenerSpec => []ServedWhileOpen
  <1>1. ListenerInv => ServedWhileOpen
    BY DEF ListenerInv
  <1> QED
    BY ListenerInvHolds, <1>1, PTL

------------------------------------------------------------------------------
(* The list in an array.                                                    *)

\* The array is always as long as it was made, and its front is the list.
ListInv ==
  /\ data \in [0..cap - 1 -> Elements \cup {NoElement}] /\ size \in 0..cap
  /\ kept \in Seq(Elements) /\ Len(kept) = size
  /\ \A i \in 1..size : data[i - 1] = kept[i]

\* What the community module's operators on sequences return.
LEMMA Piece ==
  ASSUME NEW S, NEW s \in Seq(S), NEW m \in 1..Len(s) + 1, NEW n \in 0..Len(s), m <= n + 1
  PROVE  /\ SubSeq(s, m, n) \in Seq(S) /\ Len(SubSeq(s, m, n)) = n - m + 1
         /\ \A k \in 1..n - m + 1 : SubSeq(s, m, n)[k] = s[m + k - 1]
  <1>1. m \in Int /\ n \in Int /\ \A k \in m..n : s[k] \in S
    OBVIOUS
  <1>2. /\ SubSeq(s, m, n) \in Seq(S)
        /\ Len(SubSeq(s, m, n)) = IF m <= n THEN n - m + 1 ELSE 0
        /\ \A k \in 1..n - m + 1 : SubSeq(s, m, n)[k] = s[m + k - 1]
    BY ONLY SMTT(60), <1>1, SubSeqProperties
  <1> QED
    BY <1>2

LEMMA Removed ==
  ASSUME NEW S, NEW s \in Seq(S), NEW i \in 1..Len(s)
  PROVE  /\ RemoveAt(s, i) \in Seq(S) /\ Len(RemoveAt(s, i)) = Len(s) - 1
         /\ \A k \in 1..Len(s) - 1 :
              RemoveAt(s, i)[k] = IF k < i THEN s[k] ELSE s[k + 1]
  <1> DEFINE a == SubSeq(s, 1, i - 1)
             b == SubSeq(s, i + 1, Len(s))
  <1>1. a \in Seq(S) /\ Len(a) = i - 1 /\ \A k \in 1..i - 1 : a[k] = s[k]
    <2>1. 1 \in 1..Len(s) + 1 /\ i - 1 \in 0..Len(s)
      OBVIOUS
    <2>2. /\ a \in Seq(S) /\ Len(a) = (i - 1) - 1 + 1
          /\ \A k \in 1..(i - 1) - 1 + 1 : a[k] = s[1 + k - 1]
      BY <2>1, Piece
    <2> QED
      BY <2>2
  <1>2. b \in Seq(S) /\ Len(b) = Len(s) - i /\ \A k \in 1..Len(s) - i : b[k] = s[i + k]
    <2>1. i + 1 \in 1..Len(s) + 1 /\ Len(s) \in 0..Len(s)
      OBVIOUS
    <2>2. /\ b \in Seq(S) /\ Len(b) = Len(s) - (i + 1) + 1
          /\ \A k \in 1..Len(s) - (i + 1) + 1 : b[k] = s[(i + 1) + k - 1]
      BY <2>1, Piece
    <2> QED
      BY <2>2
  <1>3. RemoveAt(s, i) = a \o b
    BY DEF RemoveAt
  <1> HIDE DEF a, b
  <1>4. /\ a \o b \in Seq(S) /\ Len(a \o b) = Len(a) + Len(b)
        /\ \A k \in 1..Len(a) + Len(b) : (a \o b)[k] = IF k <= Len(a) THEN a[k] ELSE b[k - Len(a)]
    BY <1>1, <1>2, ConcatProperties
  <1>5. Len(s) \in Nat
    OBVIOUS
  <1>6. Len(a \o b) = Len(s) - 1
    BY <1>1, <1>2, <1>4, <1>5
  <1>7. ASSUME NEW k \in 1..Len(s) - 1
        PROVE  (a \o b)[k] = IF k < i THEN s[k] ELSE s[k + 1]
    <2>1. k \in 1..Len(a) + Len(b)
      BY <1>1, <1>2, <1>5
    <2>2. (a \o b)[k] = IF k <= Len(a) THEN a[k] ELSE b[k - Len(a)]
      BY <1>4, <2>1
    <2>3. CASE k < i
      <3>1. k \in 1..i - 1 /\ k <= Len(a)
        BY <1>1, <2>3
      <3> QED
        BY <1>1, <2>2, <2>3, <3>1
    <2>4. CASE ~(k < i)
      <3>1. k - Len(a) \in 1..Len(s) - i /\ ~(k <= Len(a)) /\ i + (k - Len(a)) = k + 1
        BY <1>1, <1>5, <2>4
      <3>2. b[k - Len(a)] = s[k + 1]
        BY <1>2, <3>1
      <3> QED
        BY <2>2, <2>4, <3>1, <3>2
    <2> QED
      BY <2>3, <2>4
  <1> QED
    BY <1>3, <1>4, <1>6, <1>7

IsInserted(r, S, s, i, e) ==
  /\ r \in Seq(S) /\ Len(r) = Len(s) + 1
  /\ \A k \in 1..Len(s) + 1 : r[k] = IF k < i THEN s[k] ELSE IF k = i THEN e ELSE s[k - 1]

LEMMA Inserted ==
  ASSUME NEW S, NEW s \in Seq(S), NEW i \in 1..Len(s) + 1, NEW e \in S
  PROVE  IsInserted(InsertAt(s, i, e), S, s, i, e)
  <1> DEFINE a == SubSeq(s, 1, i - 1)
             b == SubSeq(s, i, Len(s))
             ae == a \o <<e>>
  <1>1. a \in Seq(S) /\ Len(a) = i - 1 /\ \A k \in 1..i - 1 : a[k] = s[k]
    <2>1. 1 \in 1..Len(s) + 1 /\ i - 1 \in 0..Len(s)
      OBVIOUS
    <2>2. /\ a \in Seq(S) /\ Len(a) = (i - 1) - 1 + 1
          /\ \A k \in 1..(i - 1) - 1 + 1 : a[k] = s[1 + k - 1]
      BY <2>1, Piece
    <2> QED
      BY <2>2
  <1>2. b \in Seq(S) /\ Len(b) = Len(s) - i + 1 /\ \A k \in 1..Len(s) - i + 1 : b[k] = s[i + k - 1]
    BY Len(s) \in 0..Len(s), Piece
  <1>3. <<e>> \in Seq(S) /\ Len(<<e>>) = 1 /\ <<e>>[1] = e
    OBVIOUS
  <1>4. InsertAt(s, i, e) = ae \o b
    BY DEF InsertAt
  <1> HIDE DEF a, b
  <1>5. ae \in Seq(S) /\ Len(ae) = i /\ \A k \in 1..i : ae[k] = IF k < i THEN a[k] ELSE e
    <2>1. /\ ae \in Seq(S) /\ Len(ae) = Len(a) + Len(<<e>>)
          /\ \A k \in 1..Len(a) + Len(<<e>>) :
               ae[k] = IF k <= Len(a) THEN a[k] ELSE <<e>>[k - Len(a)]
      BY <1>1, <1>3, ConcatProperties
    <2> QED
      BY <1>1, <1>3, <2>1
  <1> HIDE DEF ae
  <1>6. /\ ae \o b \in Seq(S) /\ Len(ae \o b) = Len(ae) + Len(b)
        /\ \A k \in 1..Len(ae) + Len(b) :
             (ae \o b)[k] = IF k <= Len(ae) THEN ae[k] ELSE b[k - Len(ae)]
    BY <1>2, <1>5, ConcatProperties
  <1>7. ASSUME NEW k \in 1..Len(s) + 1
        PROVE  (ae \o b)[k] = IF k < i THEN s[k] ELSE IF k = i THEN e ELSE s[k - 1]
    <2>1. CASE k <= i
      <3>1. k \in 1..i /\ k \in 1..Len(ae) + Len(b) /\ k <= Len(ae)
        BY <1>2, <1>5, <2>1
      <3>2. (ae \o b)[k] = ae[k]
        BY <1>6, <3>1
      <3>3. ae[k] = IF k < i THEN a[k] ELSE e
        BY <1>5, <3>1
      <3>4. k < i => a[k] = s[k]
        BY <1>1, <3>1
      <3> QED
        BY <2>1, <3>2, <3>3, <3>4
    <2>2. CASE ~(k <= i)
      <3>1. k - i \in 1..Len(s) - i + 1 /\ i + (k - i) - 1 = k - 1
        BY <2>2
      <3>2. b[k - i] = s[k - 1]
        BY <1>2, <3>1
      <3>3. k \in 1..Len(ae) + Len(b) /\ Len(ae) = i
        BY <1>2, <1>5
      <3>4. (ae \o b)[k] = b[k - i]
        BY <1>6, <2>2, <3>3
      <3> QED
        BY <2>2, <3>2, <3>4
    <2> QED
      BY <2>1, <2>2
  <1> QED
    BY <1>2, <1>4, <1>5, <1>6, <1>7 DEF IsInserted

LEMMA Memmoved ==
  ASSUME ListInv, NEW to \in Nat, NEW from \in Nat, NEW n \in Int,
         to + n <= cap, from + n <= cap
  PROVE  /\ Memmove(to, from, n) \in [0..cap - 1 -> Elements \cup {NoElement}]
         /\ \A k \in 0..cap - 1 :
              Memmove(to, from, n)[k] = IF k \in to..to + n - 1 THEN data[k - to + from]
                                        ELSE data[k]
  <1>1. DOMAIN data \cup to..to + n - 1 = 0..cap - 1
    BY CapAssumption DEF ListInv
  <1>2. \A k \in to..to + n - 1 : k - to + from \in 0..cap - 1
    BY CapAssumption
  <1> QED
    BY <1>1, <1>2, CapAssumption DEF ListInv, Memmove

LEMMA PutKeepsList ==
  ASSUME ListInv, NEW e \in Elements, ArrayList_put(e)
  PROVE  ListInv'
  <1> USE DEF ListInv
  <1>1. CASE Fails(size < cap)
    BY <1>1 DEF Fails
  <1>2. CASE ~Fails(size < cap)
    <2>1. size < cap /\ data' = [data EXCEPT ![size] = e] /\ size' = size + 1
          /\ kept' = Append(kept, e)
      BY <1>2 DEF ArrayList_put, Passes
    <2>2. size \in 0..cap - 1 /\ size' \in 0..cap /\ Len(kept) = size
      BY <2>1, CapAssumption
    <2>3. data' \in [0..cap - 1 -> Elements \cup {NoElement}]
      BY <2>1
    <2>4. /\ kept' \in Seq(Elements) /\ Len(kept') = size'
          /\ \A i \in 1..size : kept'[i] = kept[i]
          /\ kept'[size'] = e
      BY <2>1, <2>2
    <2>5. ASSUME NEW i \in 1..size' PROVE data'[i - 1] = kept'[i]
      <3>1. CASE i \in 1..size
        <4>1. i - 1 \in 0..cap - 1 /\ i - 1 # size
          BY <2>2, <3>1, CapAssumption
        <4> QED
          BY <2>1, <2>4, <3>1, <4>1
      <3>2. CASE i = size'
        <4>1. i - 1 = size
          BY <2>1, <2>2, <3>2
        <4> QED
          BY <2>1, <2>2, <2>4, <3>2, <4>1
      <3> QED
        BY <2>1, <2>2, <3>1, <3>2
    <2> QED
      BY <2>2, <2>3, <2>4, <2>5
  <1> QED
    BY <1>1, <1>2

LEMMA RemoveKeepsList ==
  ASSUME ListInv, NEW i \in Indices, ArrayList_remove(i)
  PROVE  ListInv'
  <1> USE DEF ListInv
  <1>1. CASE Fails(IDX(i) \in 0..size - 1)
    BY <1>1 DEF Fails
  <1>2. CASE ~Fails(IDX(i) \in 0..size - 1)
    <2>1. PICK idx \in 0..size - 1 :
            /\ data' = Memmove(idx, idx + 1, size - (idx + 1)) /\ size' = size - 1
            /\ kept' = RemoveAt(kept, idx + 1)
      BY <1>2 DEF ArrayList_remove, Passes
    <2>2. /\ data' \in [0..cap - 1 -> Elements \cup {NoElement}]
          /\ \A k \in 0..cap - 1 :
               data'[k] = IF k \in idx..size - 2 THEN data[k + 1] ELSE data[k]
      <3> DEFINE above == idx + 1
                 moved == size - (idx + 1)
      <3>1. /\ idx \in Nat /\ above \in Nat /\ moved \in Int
            /\ idx + moved <= cap /\ above + moved <= cap
        BY <2>1, CapAssumption
      <3>2. data' = Memmove(idx, above, moved)
        BY <2>1
      <3>3. \A k \in Int : /\ k \in idx..idx + moved - 1 <=> k \in idx..size - 2
                          /\ k - idx + above = k + 1
        BY <2>1, CapAssumption
      <3> HIDE DEF above, moved, ListInv
      <3>4. /\ data' \in [0..cap - 1 -> Elements \cup {NoElement}]
            /\ \A k \in 0..cap - 1 :
                 data'[k] = IF k \in idx..idx + moved - 1 THEN data[k - idx + above] ELSE data[k]
        BY <3>1, <3>2, Memmoved
      <3>5. ASSUME NEW k \in 0..cap - 1
            PROVE  data'[k] = IF k \in idx..size - 2 THEN data[k + 1] ELSE data[k]
        <4>1. k \in Int
          BY CapAssumption
        <4>2. data'[k] = IF k \in idx..idx + moved - 1 THEN data[k - idx + above] ELSE data[k]
          BY ONLY <3>4, k \in 0..cap - 1
        <4>3. (k \in idx..idx + moved - 1 <=> k \in idx..size - 2) /\ k - idx + above = k + 1
          BY ONLY <3>3, <4>1
        <4> QED
          BY ONLY <4>2, <4>3
      <3> QED
        BY ONLY <3>4, <3>5
    <2>3. /\ kept' \in Seq(Elements) /\ Len(kept') = size - 1
          /\ \A k \in 1..size - 1 : kept'[k] = IF k < idx + 1 THEN kept[k] ELSE kept[k + 1]
      <3>1. idx + 1 \in 1..Len(kept)
        BY <2>1
      <3> QED
        BY <2>1, <3>1, Removed
    <2>4. ASSUME NEW k \in 1..size - 1 PROVE data'[k - 1] = kept'[k]
      <3>1. k - 1 \in 0..cap - 1 /\ k \in 1..size /\ k + 1 \in 1..size
        BY <2>1, CapAssumption
      <3>2. k - 1 \in idx..size - 2 <=> ~(k < idx + 1)
        BY <2>1
      <3>3. data[k - 1] = kept[k] /\ data[(k - 1) + 1] = kept[k + 1]
        BY <3>1
      <3> QED
        BY <2>2, <2>3, <3>1, <3>2, <3>3
    <2> QED
      BY <2>1, <2>2, <2>3, <2>4, CapAssumption
  <1> QED
    BY <1>1, <1>2

LEMMA ReplaceKeepsList ==
  ASSUME ListInv, NEW i \in Indices, NEW e \in Elements, ArrayList_replace(i, e)
  PROVE  ListInv'
  <1> USE DEF ListInv
  <1>1. CASE Fails(IDX(i) \in 0..size - 1)
    BY <1>1 DEF Fails
  <1>2. CASE ~Fails(IDX(i) \in 0..size - 1)
    <2>1. PICK idx \in 0..size - 1 :
            /\ data' = [data EXCEPT ![idx] = e] /\ size' = size
            /\ kept' = ReplaceAt(kept, idx + 1, e)
      BY <1>2 DEF ArrayList_replace, Passes
    <2>2. /\ kept' \in Seq(Elements) /\ Len(kept') = size
          /\ \A k \in 1..size : kept'[k] = IF k = idx + 1 THEN e ELSE kept[k]
      <3> DEFINE place == idx + 1
      <3>1. place \in 1..Len(kept) /\ kept' = ReplaceAt(kept, place, e)
        BY <2>1
      <3> HIDE DEF place
      <3>2. /\ ReplaceAt(kept, place, e) \in Seq(Elements)
            /\ Len(ReplaceAt(kept, place, e)) = Len(kept)
            /\ \A k \in 1..Len(kept) :
                 ReplaceAt(kept, place, e)[k] = IF k = place THEN e ELSE kept[k]
        <4>1. kept \in Seq(Elements) /\ e \in Elements
          OBVIOUS
        <4> QED
          BY ONLY <3>1, <4>1 DEF ReplaceAt
      <3> QED
        BY <3>1, <3>2 DEF place
    <2>3. data' \in [0..cap - 1 -> Elements \cup {NoElement}]
      BY <2>1
    <2>4. ASSUME NEW k \in 1..size PROVE data'[k - 1] = kept'[k]
      <3>1. k - 1 \in 0..cap - 1 /\ (k - 1 = idx <=> k = idx + 1)
        BY <2>1, CapAssumption
      <3>2. data'[k - 1] = IF k - 1 = idx THEN e ELSE data[k - 1]
        BY <2>1, <3>1
      <3> QED
        BY <2>2, <3>1, <3>2
    <2> QED
      BY <2>1, <2>2, <2>3, <2>4, CapAssumption
  <1> QED
    BY <1>1, <1>2

LEMMA InsertKeepsList ==
  ASSUME ListInv, NEW i \in Indices, NEW e \in Elements, ArrayList_insert_at(i, e)
  PROVE  ListInv'
  <1> USE DEF ListInv
  <1>1. CASE Fails(size < cap /\ IDX(i) \in 0..size)
    BY <1>1 DEF Fails
  <1>2. CASE ~Fails(size < cap /\ IDX(i) \in 0..size)
    <2>1. PICK idx \in 0..size :
            /\ size < cap /\ size' = size + 1
            /\ data' = [Memmove(idx + 1, idx, size - idx) EXCEPT ![idx] = e]
            /\ kept' = InsertAt(kept, idx + 1, e)
      BY <1>2 DEF ArrayList_insert_at, Passes
    <2>2. /\ data' \in [0..cap - 1 -> Elements \cup {NoElement}]
          /\ \A k \in 0..cap - 1 :
               data'[k] = IF k = idx THEN e
                          ELSE IF k \in idx + 1..size THEN data[k - 1] ELSE data[k]
      <3> DEFINE m == Memmove(idx + 1, idx, size - idx)
      <3>0. data' = [m EXCEPT ![idx] = e]
        BY <2>1
      <3>1. /\ idx + 1 \in Nat /\ idx \in Nat /\ size - idx \in Int
            /\ (idx + 1) + (size - idx) <= cap /\ idx + (size - idx) <= cap
        BY <2>1, CapAssumption
      <3>2. /\ m \in [0..cap - 1 -> Elements \cup {NoElement}]
            /\ \A k \in 0..cap - 1 :
                 m[k] = IF k \in idx + 1..(idx + 1) + (size - idx) - 1
                        THEN data[k - (idx + 1) + idx] ELSE data[k]
        BY <3>1, Memmoved
      <3> HIDE DEF m
      <3>3. /\ data' \in [0..cap - 1 -> Elements \cup {NoElement}]
            /\ \A k \in 0..cap - 1 : data'[k] = IF k = idx THEN e ELSE m[k]
        BY <3>0, <3>2
      <3>4. \A k \in 0..cap - 1 : m[k] = IF k \in idx + 1..size THEN data[k - 1] ELSE data[k]
        BY <2>1, <3>2
      <3> QED
        BY <3>3, <3>4
    <2>3. /\ kept' \in Seq(Elements) /\ Len(kept') = size + 1
          /\ \A k \in 1..size + 1 :
               kept'[k] = IF k < idx + 1 THEN kept[k]
                          ELSE IF k = idx + 1 THEN e ELSE kept[k - 1]
      <3> DEFINE place == idx + 1
      <3>1. place \in 1..Len(kept) + 1 /\ kept' = InsertAt(kept, place, e)
        BY <2>1
      <3> HIDE DEF place
      <3>2. /\ InsertAt(kept, place, e) \in Seq(Elements)
            /\ Len(InsertAt(kept, place, e)) = Len(kept) + 1
            /\ \A k \in 1..Len(kept) + 1 :
                 InsertAt(kept, place, e)[k] =
                   IF k < place THEN kept[k] ELSE IF k = place THEN e ELSE kept[k - 1]
        <4>1. kept \in Seq(Elements)
          OBVIOUS
        <4>2. IsInserted(InsertAt(kept, place, e), Elements, kept, place, e)
          BY <3>1, <4>1, Inserted
        <4> QED
          BY <4>2 DEF IsInserted
      <3> QED
        BY <3>1, <3>2 DEF place
    <2> QED
      BY <2>1, <2>2, <2>3, CapAssumption
  <1> QED
    BY <1>1, <1>2

LEMMA ListInvHolds == ListSpec => []ListInv
  <1>1. ArrayList_new => ListInv
    BY CapAssumption DEF ArrayList_new, ListInv
  <1>2. ListInv /\ UNCHANGED listVars => ListInv'
    BY DEF ListInv, listVars
  <1>3. ASSUME ListInv, NEW i \in Indices, ArrayList_get(i) PROVE ListInv'
    BY <1>3 DEF ListInv, ArrayList_get, Fails
  <1>4. ListInv /\ [ListNext]_listVars => ListInv'
    BY <1>2, <1>3, PutKeepsList, RemoveKeepsList, ReplaceKeepsList, InsertKeepsList DEF ListNext
  <1> QED
    BY <1>1, <1>4, PTL DEF ListSpec

\* A set of indices has a least one.
LEMMA HasLeast ==
  ASSUME NEW S, S \subseteq Nat, S # {}
  PROVE  \E x \in S : \A y \in S : x <= y
  <1>1. \E x \in S : \A y \in S : ~ (<<y, x>> \in OpToRel(<, Nat))
    BY NatLessThanWellFounded, WFMin, Zenon
  <1>2. \A x, y \in S : ~ (<<y, x>> \in OpToRel(<, Nat)) => x <= y
    BY DEF OpToRel
  <1> QED
    BY <1>1, <1>2

\* Whatever has been put, inserted, replaced and removed, the array holds the list,
\* and get and indexof answer as the list would (arraylist.c:34-107).
THEOREM HoldsList == ListSpec => []ArrayHoldsList
  <1>1. ASSUME ListInv PROVE ArrayHoldsList
    <2> USE DEF ListInv
    <2>1. \A i \in 1..size : ElementAt(i - 1 - size) = kept[i]
      BY <1>1 DEF ElementAt, IDX
    <2>2. ASSUME NEW e \in Elements
          PROVE  LET k == ArrayList_indexof(e)
                 IN  IF k = -1 THEN e \notin ToSet(kept)
                     ELSE kept[k + 1] = e /\ e \notin ToSet(SubSeq(kept, 1, k))
      <3> DEFINE found == {k \in 0..size - 1 : data[k] = e}
      <3>1. CASE found = {}
        <4>1. ArrayList_indexof(e) = -1
          BY <3>1 DEF ArrayList_indexof
        <4>2. ASSUME NEW i \in 1..size PROVE kept[i] # e
          <5>1. i - 1 \in 0..size - 1 /\ data[i - 1] = kept[i]
            BY <1>1
          <5> QED
            BY <3>1, <5>1
        <4>3. DOMAIN kept = 1..size
          BY <1>1
        <4>4. e \notin ToSet(kept)
          BY <4>2, <4>3 DEF ToSet
        <4> QED
          BY <4>1, <4>4
      <3>2. CASE found # {}
        <4>1. PICK k \in found : \A l \in found : k <= l
          <5>1. found \subseteq Nat
            BY <1>1
          <5> QED
            BY <3>2, <5>1, HasLeast
        <4>2. ArrayList_indexof(e) = k
          BY <3>2, <4>1 DEF ArrayList_indexof
        <4>3. k \in 0..size - 1 /\ kept[k + 1] = e
          BY <1>1, <4>1
        <4>4. \A i \in 1..k : kept[i] # e
          BY <1>1, <4>1
        <4>5. Len(SubSeq(kept, 1, k)) = k /\ \A i \in 1..k : SubSeq(kept, 1, k)[i] = kept[i]
          BY <1>1, <4>3
        <4> QED
          BY <4>2, <4>3, <4>4, <4>5 DEF ToSet
      <3> QED
        BY <3>1, <3>2
    <2> QED
      BY <1>1, <2>1, <2>2 DEF ArrayHoldsList
  <1> QED
    BY ListInvHolds, <1>1, PTL

------------------------------------------------------------------------------
(* Sequences read backwards.                                                *)

\* Backwards gives a sequence of the same length over the same set.
LEMMA BackwardsType ==
  ASSUME NEW V, NEW s \in Seq(V)
  PROVE  /\ Backwards(s) \in Seq(V) /\ Len(Backwards(s)) = Len(s)
         /\ DOMAIN Backwards(s) = 1..Len(s)
         /\ \A i \in 1..Len(s) : Backwards(s)[i] = s[Len(s) + 1 - i]
  <1>1. \A i \in 1..Len(s) : Len(s) + 1 - i \in 1..Len(s) /\ s[Len(s) + 1 - i] \in V
    OBVIOUS
  <1>2. Backwards(s) \in [1..Len(s) -> V]
    BY <1>1 DEF Backwards
  <1>3. Backwards(s) \in Seq(V)
    BY <1>2
  <1> QED BY <1>2, <1>3 DEF Backwards

\* What a sequence is when its last element is taken off.
LEMMA ButLast ==
  ASSUME NEW V, NEW s \in Seq(V), s # <<>>
  PROVE  LET r == SubSeq(s, 1, Len(s) - 1)
         IN  /\ r \in Seq(V) /\ Len(r) = Len(s) - 1
             /\ \A i \in 1..Len(s) - 1 : r[i] = s[i]
             /\ TopOf(s) \in V
  <1>1. Len(s) \in Nat \ {0} /\ \A i \in 1..Len(s) : s[i] \in V
    BY EmptySeq, ElementOfSeq
  <1>2. \A i \in 1..Len(s) - 1 : s[i] \in V
    BY <1>1
  <1>3. Len(s) - 1 \in Int /\ 1 \in Int
    BY <1>1
  <1> DEFINE n == Len(s) - 1
             r == SubSeq(s, 1, n)
  <1>4. n \in Nat /\ n \in Int /\ \A i \in 1..n : s[i] \in V
    BY <1>1, <1>2
  <1> HIDE DEF n
  <1>5. /\ r \in Seq(V)
        /\ Len(r) = IF 1 <= n THEN n - 1 + 1 ELSE 0
        /\ \A i \in 1..n - 1 + 1 : r[i] = s[1 + i - 1]
    BY <1>3, <1>4, SubSeqProperties
  <1>6. Len(r) = n /\ \A i \in 1..n : r[i] = s[i]
    BY <1>4, <1>5
  <1>7. TopOf(s) \in V
    BY <1>1 DEF TopOf
  <1> QED BY <1>5, <1>6, <1>7 DEF n

\* What the stacks' operations do to a sequence of elements.
LEMMA StackOps ==
  ASSUME NEW V, NEW s \in Seq(V)
  PROVE  /\ Len(s) \in Nat
         /\ s = <<>> <=> Len(s) = 0
         /\ \A e \in V : /\ Append(s, e) \in Seq(V)
                         /\ Len(Append(s, e)) = Len(s) + 1
                         /\ Append(s, e) # <<>>
  BY EmptySeq, AppendProperties, LenProperties

\* Taking the top off a sequence and putting it back, and the other way round.
LEMMA TakeAndPutBack ==
  ASSUME NEW V, NEW s \in Seq(V), NEW e \in V
  PROVE  /\ Append(s, e) # <<>> /\ TopOf(Append(s, e)) = e
         /\ SubSeq(Append(s, e), 1, Len(Append(s, e)) - 1) = s
         /\ s # <<>> => Append(SubSeq(s, 1, Len(s) - 1), TopOf(s)) = s
  <1> DEFINE t == Append(s, e)
             r == SubSeq(t, 1, Len(t) - 1)
  <1>1. /\ t \in Seq(V) /\ t # <<>> /\ Len(t) = Len(s) + 1 /\ Len(s) \in Nat
        /\ \A i \in 1..Len(s) : t[i] = s[i]
        /\ t[Len(s) + 1] = e
    BY AppendProperties, LenProperties
  <1>2. TopOf(t) = e
    BY <1>1 DEF TopOf
  <1>3. r = s
    <2> HIDE DEF t
    <2>1. r \in Seq(V) /\ Len(r) = Len(t) - 1 /\ \A i \in 1..Len(t) - 1 : r[i] = t[i]
      BY <1>1, ButLast
    <2> HIDE DEF r
    <2>2. Len(r) = Len(s) /\ \A i \in 1..Len(r) : r[i] = s[i]
      BY <1>1, <2>1
    <2> QED BY <2>1, <2>2, SeqEqual
  <1>4. ASSUME s # <<>> PROVE Append(SubSeq(s, 1, Len(s) - 1), TopOf(s)) = s
    <2> DEFINE f == SubSeq(s, 1, Len(s) - 1)
               g == Append(f, TopOf(s))
    <2>1. /\ f \in Seq(V) /\ Len(f) = Len(s) - 1 /\ TopOf(s) \in V
          /\ \A i \in 1..Len(s) - 1 : f[i] = s[i]
      BY <1>4, ButLast
    <2> HIDE DEF f
    <2>2. /\ g \in Seq(V) /\ Len(g) = Len(f) + 1 /\ g[Len(f) + 1] = TopOf(s)
          /\ \A i \in 1..Len(f) : g[i] = f[i]
      BY <2>1, AppendProperties
    <2> HIDE DEF g
    <2>3. Len(s) \in Nat \ {0}
      BY <1>4, EmptySeq
    <2>4. ASSUME NEW i \in 1..Len(g) PROVE g[i] = s[i]
      <3>1. CASE i \in 1..Len(s) - 1
        BY <3>1, <2>1, <2>2, <2>3
      <3>2. CASE i = Len(s)
        BY <3>2, <2>1, <2>2, <2>3 DEF TopOf
      <3> QED BY <3>1, <3>2, <2>1, <2>2, <2>3
    <2>5. Len(g) = Len(s)
      BY <2>1, <2>2, <2>3
    <2>6. g = s
      BY <2>2, <2>4, <2>5, SeqEqual
    <2> QED BY <2>6 DEF g, f
  <1> QED BY <1>1, <1>2, <1>3, <1>4

\* What a call may return.
LEMMA ResultTypes ==
  /\ <<"push", TRUE>> \in Results /\ <<"push", FALSE>> \in Results
  /\ <<"pop", -1>> \in Results /\ <<>> \in Results
  /\ \A v \in Vals : <<"pop", v>> \in Results
  BY DEF Results

\* The queue the two stacks hold is the same when the top of the first is put
\* on top of the second: what Spill does, and Refill the other way round.
LEMMA MoveKeepsQueue ==
  ASSUME NEW V, NEW a \in Seq(V), NEW b \in Seq(V), a # <<>>
  PROVE  SubSeq(a, 1, Len(a) - 1) \o Backwards(Append(b, TopOf(a))) = a \o Backwards(b)
  <1> DEFINE r == SubSeq(a, 1, Len(a) - 1)
             bt == Append(b, TopOf(a))
  <1>1. /\ r \in Seq(V) /\ Len(r) = Len(a) - 1 /\ Len(a) \in Nat \ {0}
        /\ \A i \in 1..Len(a) - 1 : r[i] = a[i]
    BY ButLast
  <1>2. /\ bt \in Seq(V) /\ Len(bt) = Len(b) + 1 /\ Len(b) \in Nat
        /\ bt[Len(b) + 1] = a[Len(a)]
        /\ \A i \in 1..Len(b) : bt[i] = b[i]
    BY ButLast DEF TopOf
  <1>3. /\ Backwards(bt) \in Seq(V) /\ Len(Backwards(bt)) = Len(b) + 1
        /\ \A i \in 1..Len(b) + 1 : Backwards(bt)[i] = bt[Len(b) + 2 - i]
    <2> HIDE DEF bt
    <2> QED BY <1>2, BackwardsType
  <1>4. /\ Backwards(b) \in Seq(V) /\ Len(Backwards(b)) = Len(b)
        /\ \A i \in 1..Len(b) : Backwards(b)[i] = b[Len(b) + 1 - i]
    BY BackwardsType
  <1> HIDE DEF r, bt
  <1> DEFINE left == r \o Backwards(bt)
             right == a \o Backwards(b)
  <1>5. left \in Seq(V) /\ right \in Seq(V) /\ Len(left) = Len(a) + Len(b)
          /\ Len(right) = Len(a) + Len(b)
    <2>1. left \in Seq(V) /\ Len(left) = Len(r) + Len(Backwards(bt))
      BY <1>1, <1>3, ConcatProperties
    <2>2. right \in Seq(V) /\ Len(right) = Len(a) + Len(Backwards(b))
      BY <1>4, ConcatProperties
    <2> QED BY <2>1, <2>2, <1>1, <1>2, <1>3, <1>4
  <1>6. ASSUME NEW i \in 1..Len(a) + Len(b) PROVE left[i] = right[i]
    <2>1. CASE i \in 1..Len(a) - 1
      BY <2>1, <1>1, <1>2, <1>3, <1>4
    <2>2. CASE i = Len(a)
      <3>1. left[i] = Backwards(bt)[1]
        BY <2>2, <1>1, <1>2, <1>3
      <3>2. Backwards(bt)[1] = a[Len(a)]
        BY <1>2, <1>3
      <3> QED BY <2>2, <3>1, <3>2, <1>1, <1>4
    <2>3. CASE i \in Len(a) + 1..Len(a) + Len(b)
      <3> DEFINE k == i - Len(a)
      <3>1. k \in 1..Len(b) /\ k + 1 \in 1..Len(b) + 1
        BY <2>3, <1>1, <1>2
      <3>2. left[i] = Backwards(bt)[k + 1]
        <4>1. /\ i \in 1..Len(r) + Len(Backwards(bt)) /\ ~(i <= Len(r))
              /\ i - Len(r) = k + 1
          BY <2>3, <1>1, <1>2, <1>3
        <4>2. left[i] = Backwards(bt)[i - Len(r)]
          BY <1>1, <1>3, <4>1, ConcatProperties
        <4> HIDE DEF left, k
        <4> QED
          BY <4>1, <4>2
      <3>3. right[i] = Backwards(b)[k]
        <4>1. i \in 1..Len(a) + Len(Backwards(b)) /\ ~(i <= Len(a))
          BY <2>3, <1>1, <1>2, <1>4
        <4> QED
          BY <1>4, <4>1, ConcatProperties
      <3> HIDE DEF k
      <3>4. Backwards(bt)[k + 1] = bt[Len(b) + 1 - k]
        <4>1. Backwards(bt)[k + 1] = bt[Len(b) + 2 - (k + 1)]
          BY <3>1, <1>3
        <4>2. Len(b) + 2 - (k + 1) = Len(b) + 1 - k
          BY <3>1, <1>2
        <4> QED
          BY <4>1, <4>2
      <3>5. bt[Len(b) + 1 - k] = b[Len(b) + 1 - k]
        <4>1. Len(b) + 1 - k \in 1..Len(b)
          BY <3>1, <1>2
        <4> QED
          BY <4>1, <1>2
      <3>6. Backwards(b)[k] = b[Len(b) + 1 - k]
        BY <3>1, <1>4
      <3> QED BY <3>2, <3>3, <3>4, <3>5, <3>6
    <2>4. i \in 1..Len(a) - 1 \/ i = Len(a) \/ i \in Len(a) + 1..Len(a) + Len(b)
      BY <1>1, <1>2
    <2> QED BY <2>1, <2>2, <2>3, <2>4
  <1>7. left = right
    <2> HIDE DEF left, right
    <2> QED BY <1>5, <1>6, SeqEqual
  <1> QED BY <1>7 DEF r, bt

------------------------------------------------------------------------------
(* The invariant.                                                           *)

Inv == TypeOK /\ OneSideHoldsAll

\* Initially both stacks are empty.
LEMMA InitInv == Init => Inv
  BY CapPositive, EmptySeq, ResultTypes DEF Init, Inv, TypeOK, OneSideHoldsAll

\* The ranges every step of the proof below starts from.
LEMMA Ranges ==
  ASSUME Inv
  PROVE  /\ s1 \in Seq(Vals) /\ s2 \in Seq(Vals) /\ Len(s1) \in Nat /\ Len(s2) \in Nat
         /\ Len(s1) <= Cap /\ Len(s2) <= Cap /\ Len(s1) + Len(s2) <= Cap
         /\ s1 = <<>> <=> Len(s1) = 0
         /\ s2 = <<>> <=> Len(s2) = 0
  BY StackOps DEF Inv, TypeOK, OneSideHoldsAll

\* A round of Queue_pop's loop moves one element, and leaves one.
LEMMA SpillMoves ==
  ASSUME Inv, Spill
  PROVE  /\ s1' = SubSeq(s1, 1, Len(s1) - 1) /\ s1 # <<>>
         /\ s2' = Append(s2, TopOf(s1)) /\ TopOf(s1) \in Vals
         /\ s1' \in Seq(Vals) /\ Len(s1') = Len(s1) - 1
         /\ s2' \in Seq(Vals) /\ Len(s2') = Len(s2) + 1
         /\ Len(s1) >= 2
  <1>1. s1 # <<>> /\ Len(s1) # 1 /\ s1' = SubSeq(s1, 1, Len(s1) - 1)
    BY DEF Spill, Inv, OneSideHoldsAll, S1!Pop
  <1>2. Len(s1) >= 2 /\ Len(s2) < Cap
    <2>1. Len(s1) \in Nat /\ Len(s1) # 0 /\ Len(s1) # 1
      BY <1>1, Ranges
    <2> DEFINE n == Len(s1)
    <2>2. n >= 2
      <3>1. n \in Nat /\ n # 0 /\ n # 1
        BY <2>1
      <3> HIDE DEF n
      <3> QED BY <3>1
    <2>3. Len(s2) < Cap
      BY DEF Inv, OneSideHoldsAll
    <2> QED BY <2>2, <2>3
  <1>3. s2' = Append(s2, TopOf(s1))
    BY <1>2 DEF Spill, S2!Push
  <1> QED BY <1>1, <1>2, <1>3, Ranges, ButLast, StackOps

\* A round of Queue_push's loop moves one element the other way.
LEMMA RefillMoves ==
  ASSUME Inv, Refill
  PROVE  /\ s2' = SubSeq(s2, 1, Len(s2) - 1) /\ s2 # <<>>
         /\ s1' = Append(s1, TopOf(s2)) /\ TopOf(s2) \in Vals
         /\ s2' \in Seq(Vals) /\ Len(s2') = Len(s2) - 1
         /\ s1' \in Seq(Vals) /\ Len(s1') = Len(s1) + 1
         /\ Len(s1) + Len(s2) < Cap
  <1>1. s2 # <<>> /\ s2' = SubSeq(s2, 1, Len(s2) - 1)
    BY DEF Refill, S2!Pop
  <1>2. Len(s1) + Len(s2) < Cap /\ Len(s1) < Cap
    BY Ranges, CapPositive DEF Refill, Inv, OneSideHoldsAll
  <1>3. s1' = Append(s1, TopOf(s2))
    BY <1>2 DEF Refill, S1!Push
  <1> QED BY <1>1, <1>2, <1>3, Ranges, ButLast, StackOps

\* What the last step of a Queue_push does.
LEMMA PushedOrFull ==
  ASSUME Inv, NEW e \in Vals, PushAndReturn(e)
  PROVE  /\ s1' \in Seq(Vals) /\ result' \in Results
         /\ \/ Len(s1) < Cap /\ s1' = Append(s1, e) /\ Len(s1') = Len(s1) + 1
               /\ result' = <<"push", TRUE>>
            \/ Len(s1) = Cap /\ s1' = s1 /\ result' = <<"push", FALSE>>
  <1>1. Append(s1, e) \in Seq(Vals) /\ Len(Append(s1, e)) = Len(s1) + 1 /\ s1 \in Seq(Vals)
    BY Ranges, AppendProperties
  <1>2. CASE S1!Push(e) /\ result' = <<"push", TRUE>>
    BY <1>1, <1>2, ResultTypes DEF S1!Push
  <1>3. CASE Len(s1) = Cap /\ UNCHANGED s1 /\ result' = <<"push", FALSE>>
    BY <1>1, <1>3, ResultTypes
  <1> QED BY <1>2, <1>3 DEF PushAndReturn

\* Every step of a call keeps the invariant.
LEMMA NextInv == Inv /\ [Next]_vars => Inv'
  <1> SUFFICES ASSUME Inv, [Next]_vars PROVE Inv'
    OBVIOUS
  <1>1. /\ s1 \in Seq(Vals) /\ s2 \in Seq(Vals) /\ Len(s1) \in Nat /\ Len(s2) \in Nat
        /\ Len(s1) <= Cap /\ Len(s2) <= Cap /\ Len(s1) + Len(s2) <= Cap
        /\ s1 = <<>> <=> Len(s1) = 0
        /\ s2 = <<>> <=> Len(s2) = 0
        /\ arg \in Vals \cup {-1} /\ result \in Results
        /\ pc = "idle" => s1 = <<>> \/ s2 = <<>>
        /\ Len(s2) < Cap
        /\ pc = "refill" => arg \in Vals /\ Len(s1) + Len(s2) < Cap
    BY Ranges DEF Inv, TypeOK, OneSideHoldsAll
  <1>2. CASE Queue_pop
    <2>1. CASE S2!Pop /\ result' = <<"pop", TopOf(s2)>> /\ UNCHANGED <<s1, pc, arg>>
      <3>1. s2 # <<>> /\ s2' = SubSeq(s2, 1, Len(s2) - 1)
        BY <2>1 DEF S2!Pop
      <3>2. s2' \in Seq(Vals) /\ Len(s2') = Len(s2) - 1 /\ TopOf(s2) \in Vals
        BY <3>1, <1>1, ButLast
      <3>3. result' \in Results /\ s1 = <<>> /\ pc = "idle"
        BY <2>1, <3>1, <3>2, <1>1, <1>2, ResultTypes DEF Queue_pop
      <3> QED BY <2>1, <3>2, <3>3, <1>1, CapPositive DEF Inv, TypeOK, OneSideHoldsAll
    <2>2. CASE s2 = <<>> /\ s1 = <<>> /\ result' = <<"pop", -1>> /\ UNCHANGED <<s1, s2, pc, arg>>
      BY <2>2, ResultTypes DEF Inv, TypeOK, OneSideHoldsAll
    <2>3. CASE s2 = <<>> /\ s1 # <<>> /\ pc' = "spill" /\ UNCHANGED <<s1, s2, arg, result>>
      BY <2>3 DEF Inv, TypeOK, OneSideHoldsAll
    <2> QED BY <1>2, <2>1, <2>2, <2>3 DEF Queue_pop
  <1>3. CASE Spill
    <2>1. pc = "spill" /\ UNCHANGED <<pc, arg, result>>
      BY <1>3 DEF Spill
    <2>2. /\ s1' \in Seq(Vals) /\ Len(s1') = Len(s1) - 1
          /\ s2' \in Seq(Vals) /\ Len(s2') = Len(s2) + 1
          /\ Len(s1) >= 2
      BY <1>3, SpillMoves
    <2>3. s1' # <<>>
      BY <2>2, <1>1, StackOps
    <2> QED BY <1>1, <2>1, <2>2, <2>3, CapPositive DEF Inv, TypeOK, OneSideHoldsAll
  <1>4. CASE PopLast
    <2>1. /\ Len(s1) = 1 /\ pc' = "idle" /\ UNCHANGED <<s2, arg>>
          /\ s1 # <<>> /\ s1' = SubSeq(s1, 1, Len(s1) - 1)
          /\ result' = <<"pop", TopOf(s1)>>
      BY <1>4 DEF PopLast, S1!Pop
    <2>2. s1' \in Seq(Vals) /\ Len(s1') = 0 /\ result' \in Results
      BY <1>1, <2>1, ButLast, ResultTypes
    <2>3. s1' = <<>>
      BY <2>2, StackOps
    <2> QED BY <1>1, <2>1, <2>2, <2>3, CapPositive DEF Inv, TypeOK, OneSideHoldsAll
  <1>5. CASE Refill
    <2>1. pc = "refill" /\ UNCHANGED <<pc, arg, result>>
      BY <1>5 DEF Refill
    <2>2. /\ s2' \in Seq(Vals) /\ Len(s2') = Len(s2) - 1
          /\ s1' \in Seq(Vals) /\ Len(s1') = Len(s1) + 1
          /\ Len(s1) + Len(s2) < Cap
      BY <1>5, RefillMoves
    <2> QED BY <1>1, <2>1, <2>2, CapPositive DEF Inv, TypeOK, OneSideHoldsAll
  <1>6. CASE PushLast
    <2>1. pc = "refill" /\ s2 = <<>> /\ pc' = "idle" /\ UNCHANGED <<s2, arg>>
      BY <1>6 DEF PushLast
    <2>2. /\ s1' \in Seq(Vals) /\ result' \in Results
          /\ Len(s1') = Len(s1) \/ (Len(s1) < Cap /\ Len(s1') = Len(s1) + 1)
      BY <1>1, <1>6, <2>1, PushedOrFull DEF PushLast
    <2> QED BY <1>1, <2>1, <2>2, CapPositive DEF Inv, TypeOK, OneSideHoldsAll
  <1>7. ASSUME NEW e \in Vals, Queue_push(e) PROVE Inv'
    <2>1. CASE s1 # <<>> /\ PushAndReturn(e) /\ UNCHANGED <<pc, arg>>
      <3>1. s2 = <<>> /\ s2' = s2 /\ pc = "idle"
        BY <1>1, <1>7, <2>1 DEF Queue_push
      <3>2. /\ s1' \in Seq(Vals) /\ result' \in Results
            /\ Len(s1') = Len(s1) \/ (Len(s1) < Cap /\ Len(s1') = Len(s1) + 1)
        BY <2>1, PushedOrFull
      <3> QED BY <1>1, <2>1, <3>1, <3>2, CapPositive DEF Inv, TypeOK, OneSideHoldsAll
    <2>2. CASE s1 = <<>> /\ pc' = "refill" /\ arg' = e /\ UNCHANGED <<s1, result>>
      <3>1. s2' = s2
        BY <1>7 DEF Queue_push
      <3> QED BY <1>1, <2>2, <3>1, CapPositive DEF Inv, TypeOK, OneSideHoldsAll
    <2> QED BY <1>7, <2>1, <2>2 DEF Queue_push
  <1>8. CASE UNCHANGED vars
    BY <1>8 DEF vars, Inv, TypeOK, OneSideHoldsAll
  <1> QED BY <1>2, <1>3, <1>4, <1>5, <1>6, <1>7, <1>8 DEF Next, Goes

\* The stacks hold integers, at most QUEUE_MAX of them together, and between
\* calls one of them is empty (queue.c:13-43).
THEOREM OneSide == Spec => [](TypeOK /\ OneSideHoldsAll)
  BY InitInv, NextInv, PTL DEF Spec, Inv

------------------------------------------------------------------------------
(* The refinement.                                                          *)

Held == s1 \o Backwards(s2)

\* The elements of the queue, by their places in the two stacks.
LEMMA HeldParts ==
  ASSUME NEW V, NEW a \in Seq(V), NEW b \in Seq(V)
  PROVE  /\ Backwards(<<>>) = <<>>
         /\ a \o Backwards(<<>>) = a
         /\ <<>> \o Backwards(b) = Backwards(b)
         /\ a \o Backwards(b) \in Seq(V)
         /\ Len(a \o Backwards(b)) = Len(a) + Len(b)
  <1>1. Backwards(<<>>) = <<>>
    BY DEF Backwards
  <1>2. Backwards(b) \in Seq(V) /\ Len(Backwards(b)) = Len(b)
    BY BackwardsType
  <1>3. a \o Backwards(b) \in Seq(V) /\ Len(a \o Backwards(b)) = Len(a) + Len(Backwards(b))
    BY <1>2, ConcatProperties
  <1> QED BY <1>1, <1>2, <1>3, ConcatEmptySeq

\* Taking the top off the second stack, when the first is empty, is taking the
\* head off the queue.
LEMMA TopIsHead ==
  ASSUME NEW V, NEW b \in Seq(V), b # <<>>
  PROVE  /\ Backwards(b) # <<>>
         /\ Head(Backwards(b)) = TopOf(b)
         /\ Tail(Backwards(b)) = Backwards(SubSeq(b, 1, Len(b) - 1))
  <1> DEFINE q == Backwards(b)
             r == SubSeq(b, 1, Len(b) - 1)
  <1>1. /\ r \in Seq(V) /\ Len(r) = Len(b) - 1
        /\ \A i \in 1..Len(b) - 1 : r[i] = b[i]
    BY ButLast
  <1>2. /\ q \in Seq(V) /\ Len(q) = Len(b) /\ Len(b) \in Nat \ {0}
        /\ \A i \in 1..Len(b) : q[i] = b[Len(b) + 1 - i]
    BY BackwardsType, EmptySeq
  <1> HIDE DEF q
  <1>3. q # <<>>
    BY <1>2, EmptySeq
  <1>4. Head(q) = TopOf(b)
    <2>1. Head(q) = q[1]
      BY <1>2, <1>3
    <2> QED BY <2>1, <1>2 DEF TopOf
  <1>5. /\ Tail(q) \in Seq(V) /\ Len(Tail(q)) = Len(b) - 1
        /\ \A i \in 1..Len(b) - 1 : Tail(q)[i] = q[i + 1]
    BY <1>2, <1>3, HeadTailProperties
  <1>6. /\ Backwards(r) \in Seq(V) /\ Len(Backwards(r)) = Len(b) - 1
        /\ \A i \in 1..Len(b) - 1 : Backwards(r)[i] = r[Len(b) - i]
    <2> HIDE DEF r
    <2>1. /\ Backwards(r) \in Seq(V) /\ Len(Backwards(r)) = Len(r)
          /\ \A i \in 1..Len(r) : Backwards(r)[i] = r[Len(r) + 1 - i]
      BY <1>1, BackwardsType
    <2> QED BY <2>1, <1>1, <1>2
  <1> HIDE DEF r
  <1>7. ASSUME NEW i \in 1..Len(b) - 1 PROVE Tail(q)[i] = Backwards(r)[i]
    <2>1. i + 1 \in 1..Len(b) /\ Len(b) - i \in 1..Len(b) - 1
      BY <1>2
    <2>2. Tail(q)[i] = b[Len(b) + 1 - (i + 1)]
      BY <1>2, <1>5, <2>1
    <2>3. Backwards(r)[i] = b[Len(b) - i]
      BY <1>1, <1>6, <2>1
    <2> QED BY <2>2, <2>3, <1>2
  <1>8. Tail(q) = Backwards(r)
    BY <1>5, <1>6, <1>7, SeqEqual
  <1> QED BY <1>3, <1>4, <1>8 DEF q, r

\* Appending to the queue is pushing on the first stack, when the second is empty.
LEMMA PushIsAppend ==
  ASSUME Inv, NEW e \in Vals, PushAndReturn(e), s2 = <<>>, s2' = s2
  PROVE  F!Enqueue(e)
  <1>1. Held = s1 /\ Held' = s1'
    BY Ranges, PushedOrFull, HeldParts DEF Held
  <1>2. CASE Len(s1) < Cap /\ s1' = Append(s1, e) /\ result' = <<"push", TRUE>>
    BY <1>1, <1>2 DEF F!Enqueue, Held
  <1>3. CASE Len(s1) = Cap /\ s1' = s1 /\ result' = <<"push", FALSE>>
    BY <1>1, <1>3 DEF F!Enqueue, Held
  <1> QED BY <1>2, <1>3, PushedOrFull

\* Every step is a step of the queue or leaves it as it is.
LEMMA StepRefines ==
  ASSUME Inv, [Next]_vars
  PROVE  F!Next \/ UNCHANGED <<Held, result>>
  <1>0. s1 \in Seq(Vals) /\ s2 \in Seq(Vals)
    BY Ranges
  <1>1. CASE Queue_pop
    <2>1. CASE S2!Pop /\ result' = <<"pop", TopOf(s2)>> /\ UNCHANGED <<s1, pc, arg>>
      <3>1. s2 # <<>> /\ s2' = SubSeq(s2, 1, Len(s2) - 1) /\ s1 = <<>> /\ s1' = <<>>
        BY <1>1, <2>1 DEF S2!Pop, Queue_pop, Inv, OneSideHoldsAll
      <3>2. s2' \in Seq(Vals)
        BY <1>0, <3>1, ButLast
      <3>3. Held = Backwards(s2) /\ Held' = Backwards(s2')
        BY <1>0, <3>1, <3>2, HeldParts DEF Held
      <3>4. Held # <<>> /\ Head(Held) = TopOf(s2) /\ Tail(Held) = Held'
        BY <1>0, <3>1, <3>3, TopIsHead
      <3> QED BY <2>1, <3>4 DEF F!Next, F!Dequeue, Held
    <2>2. CASE s2 = <<>> /\ s1 = <<>> /\ result' = <<"pop", -1>> /\ UNCHANGED <<s1, s2, pc, arg>>
      <3>1. Held = <<>> /\ Held' = Held
        BY <1>0, <2>2, HeldParts DEF Held
      <3> QED BY <2>2, <3>1 DEF F!Next, F!Dequeue, Held
    <2>3. CASE s2 = <<>> /\ s1 # <<>> /\ pc' = "spill" /\ UNCHANGED <<s1, s2, arg, result>>
      BY <2>3 DEF Held
    <2> QED BY <1>1, <2>1, <2>2, <2>3 DEF Queue_pop
  <1>2. CASE Spill
    <2>1. /\ s1' = SubSeq(s1, 1, Len(s1) - 1) /\ s1 # <<>>
          /\ s2' = Append(s2, TopOf(s1)) /\ result' = result
      BY <1>2, SpillMoves DEF Spill
    <2>2. Held' = Held
      BY <1>0, <2>1, MoveKeepsQueue DEF Held
    <2> QED BY <2>1, <2>2
  <1>3. CASE PopLast
    <2>1. /\ Len(s1) = 1 /\ s1 # <<>> /\ s1' = SubSeq(s1, 1, Len(s1) - 1)
          /\ s2' = s2 /\ result' = <<"pop", TopOf(s1)>>
      BY <1>3 DEF PopLast, S1!Pop
    <2>2. s1' = <<>> /\ s1 = <<TopOf(s1)>> /\ TopOf(s1) \in Vals
      BY <1>0, <2>1, ButLast, StackOps DEF TopOf
    <2>3. Held' = Backwards(s2) /\ Backwards(s2) \in Seq(Vals)
      BY <1>0, <2>1, <2>2, HeldParts, BackwardsType DEF Held
    <2>4. Held = <<TopOf(s1)>> \o Backwards(s2)
      BY <2>2 DEF Held
    <2>5. Held # <<>> /\ Head(Held) = TopOf(s1) /\ Tail(Held) = Backwards(s2)
      BY <2>2, <2>3, <2>4
    <2> QED BY <2>1, <2>3, <2>5 DEF F!Next, F!Dequeue, Held
  <1>4. CASE Refill
    <2>1. /\ s2' = SubSeq(s2, 1, Len(s2) - 1) /\ s2 # <<>> /\ s2' \in Seq(Vals)
          /\ s1' = Append(s1, TopOf(s2)) /\ s1' \in Seq(Vals) /\ result' = result
          /\ TopOf(s2) \in Vals
      BY <1>4, RefillMoves DEF Refill
    <2>2. /\ s1' # <<>> /\ SubSeq(s1', 1, Len(s1') - 1) = s1 /\ TopOf(s1') = TopOf(s2)
          /\ Append(s2', TopOf(s2)) = s2
      BY <1>0, <2>1, TakeAndPutBack
    <2>3. SubSeq(s1', 1, Len(s1') - 1) \o Backwards(Append(s2', TopOf(s1')))
            = s1' \o Backwards(s2')
      BY <2>1, <2>2, MoveKeepsQueue
    <2>4. Held' = Held
      BY <2>2, <2>3 DEF Held
    <2> QED BY <2>1, <2>4
  <1>5. CASE PushLast
    <2>1. s2 = <<>> /\ s2' = s2 /\ PushAndReturn(arg) /\ arg \in Vals
      BY <1>5 DEF PushLast, Inv, OneSideHoldsAll
    <2> QED BY <2>1, PushIsAppend DEF F!Next
  <1>6. ASSUME NEW e \in Vals, Queue_push(e)
        PROVE  F!Next \/ UNCHANGED <<Held, result>>
    <2>1. CASE s1 # <<>> /\ PushAndReturn(e)
      <3>1. s2 = <<>> /\ s2' = s2
        BY <1>6, <2>1 DEF Queue_push, Inv, OneSideHoldsAll
      <3> QED BY <2>1, <3>1, PushIsAppend DEF F!Next
    <2>2. CASE UNCHANGED <<s1, s2, result>>
      BY <2>2 DEF Held
    <2> QED BY <1>6, <2>1, <2>2 DEF Queue_push
  <1>7. CASE UNCHANGED vars
    BY <1>7 DEF vars, Held
  <1> QED BY <1>1, <1>2, <1>3, <1>4, <1>5, <1>6, <1>7 DEF Next, Goes

\* The queue of two stacks is a queue: for every capacity, every call takes and
\* gives elements as F does, and the moves between the stacks do not show.
THEOREM QueueIsFIFO == Spec => ImplementsFIFO
  <1>1. Init => F!Init
    BY HeldParts, EmptySeq DEF Init, F!Init
  <1>2. Inv /\ [Next]_vars => [F!Next]_<<Held, result>>
    BY StepRefines
  <1>3. Spec => []Inv
    BY InitInv, NextInv, PTL DEF Spec
  <1> QED BY <1>1, <1>2, <1>3, PTL DEF Spec, ImplementsFIFO, F!Spec, Held

------------------------------------------------------------------------------
(* The source highlighter.                                                  *)

Commenting == {"comment", "line", "block", "star"}

CommentColour ==
  /\ mode \in Commenting => colour = "COMMENT"
  /\ colour = "COMMENT" => mode \in Commenting \cup {"word"}

\* What is printed is what was read but for the word in wbuf, which is empty outside
\* word(); the comment's colour is on in comment() and the word() it calls, and was since it began.
TextInv ==
  /\ HighlightTypeOK
  /\ KeepsText
  /\ \A k \in DOMAIN wbuf : wbuf[k] = text[Len(out) + k]
  /\ mode # "word" => wbuf = <<>>
  /\ ColourOff
  /\ CommentColour
  /\ mode \in Commenting => Len(out) > 0 /\ out[Len(out)][2] = "COMMENT"

NoTwoStars == \A k \in 1..Len(text) - 1 : ~(text[k] = "*" /\ text[k + 1] = "*")
IsComment(k) == out[k][2] = "COMMENT"

\* A comment begins at k.
Opens(k) ==
  /\ k \in DOMAIN out /\ out[k] = <<"/", "COMMENT">>
  /\ k < Len(text) /\ text[k + 1] = "*" /\ (k > 1 => ~IsComment(k - 1))

\* It has only begun; it goes on; its end has been printed; or the text has none.
Fresh(k) == Len(out) = k /\ mode = "comment"
Within(k) ==
  /\ Len(out) > k /\ mode \in {"block", "star"}
  /\ \A i \in k..Len(out) : IsComment(i)
  /\ \A i \in Ends(k) : i > Len(out)
  /\ mode = "star" <=> text[Len(out)] = "*" /\ Len(out) >= k + 2
ClosedAt(k, j) ==
  /\ j \in Ends(k) /\ \A i \in Ends(k) : j <= i
  /\ j <= Len(out) /\ \A i \in k..j : IsComment(i)
  /\ j < Len(out) => (IsComment(j + 1) => text[j + 1] = "/")
  /\ j = Len(out) => mode \notin Commenting
Closed(k) == \E j \in Ends(k) : ClosedAt(k, j)
Endless(k) == mode = "done" /\ Ends(k) = {}

CommentsInv ==
  NoTwoStars => \A k \in 1..Len(text) :
    Opens(k) => Fresh(k) \/ Within(k) \/ Closed(k) \/ Endless(k)

HighlightInv == TextInv /\ CommentsInv

\* What a function may leave behind: the mode and the colour that go together.
Fits(m, col) ==
  /\ col \in Colours
  /\ m \in {"highlight", "space", "done"} => col = "off"
  /\ m \in Commenting => col = "COMMENT"
  /\ col = "COMMENT" => m \in Commenting \cup {"word"}

\* A step prints the next character, or does not move in the file.
Prints(col) ==
  /\ mode \in Modes /\ ~AtEnd /\ Echo(col) /\ col \in Colours
  /\ mode' \in Modes /\ Fits(mode', colour') /\ isheader' \in BOOLEAN
  /\ UNCHANGED <<text, wbuf>>
Peeks ==
  /\ mode \in Modes /\ Fits(mode', colour') /\ isheader' \in BOOLEAN
  /\ mode' \in (Modes \ Commenting) \cup {"word"} \/ (mode' = "done" /\ AtEnd)
  /\ UNCHANGED <<text, read, out, wbuf>>

LEMMA TextFacts ==
  ASSUME TextInv
  PROVE  /\ text \in Seq(Chars) /\ Len(text) \in Nat /\ Len(out) \in Nat /\ Len(wbuf) \in Nat
         /\ read \in Nat /\ read <= Len(text) /\ Len(out) + Len(wbuf) = read
         /\ \A k \in 1..Len(text) : text[k] \in Chars
  BY TextsAssumption DEF TextInv, HighlightTypeOK, KeepsText

LEMMA Printed ==
  ASSUME TextInv, NEW col, Prints(col)
  PROVE  /\ Len(out) < Len(text) /\ read = Len(out) /\ read' = Len(out) + 1
         /\ c = text[Len(out) + 1] /\ c \in Chars
         /\ out' \in Seq(Coloured) /\ Len(out') = Len(out) + 1
         /\ \A i \in 1..Len(out) : out'[i] = out[i]
         /\ out'[Len(out) + 1] = <<c, col>>
         /\ wbuf = <<>>
  <1>1. wbuf = <<>>
    BY DEF Prints, Modes, TextInv
  <1>2. read = Len(out) /\ read < Len(text)
    BY <1>1, TextFacts DEF Prints, AtEnd
  <1>3. c = text[Len(out) + 1] /\ c \in Chars
    BY <1>2, TextFacts DEF c
  <1>4. col \in Colours /\ out \in Seq(Coloured)
    BY DEF Prints, TextInv, HighlightTypeOK, Coloured
  <1>5. <<c, col>> \in Coloured
    BY <1>3, <1>4 DEF Coloured
  <1>6. read' = read + 1 /\ out' = Append(out, <<c, col>>)
    BY DEF Prints, Echo
  <1> HIDE DEF c
  <1>7. /\ out' \in Seq(Coloured) /\ Len(out') = Len(out) + 1
        /\ \A i \in 1..Len(out) : out'[i] = out[i]
        /\ out'[Len(out) + 1] = <<c, col>>
    BY ONLY <1>4, <1>5, <1>6, AppendProperties
  <1> QED
    BY <1>1, <1>2, <1>3, <1>6, <1>7

LEMMA PrintedText ==
  ASSUME TextInv, NEW col, Prints(col), mode' \in Commenting => col = "COMMENT"
  PROVE  TextInv'
  <1> DEFINE n == Len(out)
  <1>1. /\ n \in Nat /\ n < Len(text) /\ read' = n + 1 /\ c = text[n + 1]
        /\ out' \in Seq(Coloured) /\ Len(out') = n + 1
        /\ \A i \in 1..n : out'[i] = out[i]
        /\ out'[n + 1] = <<c, col>> /\ wbuf = <<>> /\ Len(text) \in Nat
    BY Printed, TextFacts
  <1>2. /\ text' = text /\ wbuf' = <<>> /\ mode' \in Modes /\ mode' # "done" /\ mode' # "word"
        /\ isheader' \in BOOLEAN /\ Fits(mode', colour')
    BY <1>1 DEF Prints, Modes
  <1>3. \A i \in 1..n : out[i][1] = text[i]
    BY DEF TextInv, KeepsText, HighlightTypeOK
  <1> HIDE DEF n
  <1>4. HighlightTypeOK'
    <2>1. read' \in 0..Len(text') /\ text' \in Texts
      BY <1>1, <1>2 DEF TextInv, HighlightTypeOK
    <2>2. wbuf' \in Seq(InWord)
      BY <1>2
    <2>3. colour' \in Colours
      BY <1>2 DEF Fits
    <2> QED
      BY <1>1, <1>2, <2>1, <2>2, <2>3 DEF HighlightTypeOK, Colours
  <1>5. KeepsText'
    <2>1. ASSUME NEW i \in DOMAIN out' PROVE out'[i][1] = text'[i]
      <3>1. i \in 1..n + 1
        BY <1>1
      <3>2. CASE i = n + 1
        BY <1>1, <1>2, <3>2
      <3>3. CASE i # n + 1
        BY <1>1, <1>2, <1>3, <3>1, <3>3
      <3> QED
        BY <3>2, <3>3
    <2> QED
      BY <1>1, <1>2, <2>1 DEF KeepsText
  <1>6. ColourOff' /\ CommentColour'
    BY <1>2 DEF Fits, ColourOff, CommentColour
  <1>7. mode' \in Commenting => Len(out') > 0 /\ out'[Len(out')][2] = "COMMENT"
    BY <1>1
  <1> QED
    BY <1>2, <1>4, <1>5, <1>6, <1>7 DEF TextInv

LEMMA PeekedText ==
  ASSUME TextInv, Peeks
  PROVE  TextInv'
  <1>1. /\ UNCHANGED <<text, read, out, wbuf>> /\ wbuf = <<>> /\ mode' \notin Commenting
        /\ mode' \in Modes \cup {"word", "done"} /\ Fits(mode', colour') /\ isheader' \in BOOLEAN
        /\ mode' = "done" => AtEnd
    BY DEF Peeks, Modes, Commenting, TextInv
  <1>2. HighlightTypeOK'
    BY <1>1 DEF TextInv, HighlightTypeOK, Fits, Colours
  <1>3. KeepsText'
    <2>1. mode' = "done" => Len(out) = Len(text)
      BY <1>1, TextFacts DEF AtEnd
    <2> QED
      BY <1>1, <2>1 DEF TextInv, KeepsText
  <1>4. ColourOff' /\ CommentColour'
    BY <1>1 DEF Fits, ColourOff, CommentColour
  <1> QED
    BY <1>1, <1>2, <1>3, <1>4 DEF TextInv

\* word() reads on, or prints what it has read.
ReadsWord ==
  /\ mode = "word" /\ Sees(InWord) /\ read' = read + 1 /\ wbuf' = Append(wbuf, c)
  /\ UNCHANGED <<text, out, mode, colour, isheader>>
PrintsWord ==
  /\ mode = "word"
  /\ out' = out \o [k \in 1..Len(wbuf) |-> <<wbuf[k], WordColour>>]
  /\ wbuf' = <<>> /\ colour' = "off"
  /\ mode' = "highlight" \/ (mode' = "done" /\ AtEnd)
  /\ UNCHANGED <<text, read, isheader>>

LEMMA ReadWordText ==
  ASSUME TextInv, ReadsWord
  PROVE  TextInv'
  <1>1. /\ c \in InWord /\ c = text[read + 1] /\ read + 1 \in Nat /\ read < Len(text)
    BY TextFacts DEF ReadsWord, Sees, AtEnd, c
  <1>2. /\ UNCHANGED <<text, out, mode, colour, isheader>> /\ mode = "word"
        /\ read' = read + 1 /\ wbuf' = Append(wbuf, c)
    BY DEF ReadsWord
  <1> HIDE DEF c
  <1>3. /\ wbuf' \in Seq(InWord) /\ Len(wbuf') = Len(wbuf) + 1
        /\ \A k \in 1..Len(wbuf) : wbuf'[k] = wbuf[k]
        /\ wbuf'[Len(wbuf) + 1] = c
    BY <1>1, <1>2, AppendProperties DEF TextInv, HighlightTypeOK
  <1>4. ASSUME NEW k \in DOMAIN wbuf' PROVE wbuf'[k] = text'[Len(out') + k]
    <2>1. k \in 1..Len(wbuf) + 1 /\ DOMAIN wbuf = 1..Len(wbuf)
      BY <1>3, TextFacts DEF TextInv, HighlightTypeOK
    <2>2. CASE k = Len(wbuf) + 1
      <3>1. Len(out) + k = read + 1
        BY <2>2, TextFacts
      <3> QED
        BY <1>1, <1>2, <1>3, <2>2, <3>1
    <2>3. CASE k # Len(wbuf) + 1
      BY <1>2, <1>3, <2>1, <2>3, TextFacts DEF TextInv
    <2> QED
      BY <2>2, <2>3
  <1>5. HighlightTypeOK'
    BY <1>1, <1>2, <1>3, TextFacts DEF TextInv, HighlightTypeOK
  <1>6. KeepsText'
    BY <1>2, <1>3, TextFacts DEF TextInv, KeepsText
  <1> QED
    BY <1>2, <1>4, <1>5, <1>6 DEF TextInv, ColourOff, CommentColour, Commenting

LEMMA WordIsPrinted ==
  ASSUME TextInv, PrintsWord
  PROVE  /\ out' \in Seq(Coloured) /\ Len(out') = read
         /\ \A i \in 1..Len(out) : out'[i] = out[i]
         /\ \A i \in Len(out) + 1..read : out'[i] = <<text[i], WordColour>>
         /\ WordColour \in {"KEYWORD", "FUNC", "VARIANT"}
  <1> DEFINE w == [k \in 1..Len(wbuf) |-> <<wbuf[k], WordColour>>]
  <1>1. WordColour \in {"KEYWORD", "FUNC", "VARIANT"}
    BY DEF WordColour
  <1> HIDE DEF WordColour
  <1>2. wbuf \in Seq(Chars) /\ DOMAIN wbuf = 1..Len(wbuf)
    BY DEF TextInv, HighlightTypeOK, Chars
  <1>3. w \in Seq(Coloured) /\ Len(w) = Len(wbuf)
        /\ \A k \in 1..Len(wbuf) : w[k] = <<wbuf[k], WordColour>>
    <2>1. ASSUME NEW k \in 1..Len(wbuf) PROVE <<wbuf[k], WordColour>> \in Coloured
      BY <1>1, <1>2 DEF Coloured
    <2>2. Len(wbuf) \in Nat
      BY TextFacts
    <2> QED
      BY <2>1, <2>2
  <1>4. out \in Seq(Coloured)
    BY DEF TextInv, HighlightTypeOK
  <1>8. out' = out \o w
    BY DEF PrintsWord
  <1> HIDE DEF w
  <1>5. /\ out' \in Seq(Coloured) /\ Len(out') = Len(out) + Len(w)
        /\ \A i \in 1..Len(out) + Len(w) :
             out'[i] = IF i <= Len(out) THEN out[i] ELSE w[i - Len(out)]
    <2> DEFINE both == out \o w
    <2>1. w \in Seq(Coloured)
      BY <1>3
    <2>2. /\ both \in Seq(Coloured) /\ Len(both) = Len(out) + Len(w)
          /\ \A i \in 1..Len(out) + Len(w) :
               both[i] = IF i <= Len(out) THEN out[i] ELSE w[i - Len(out)]
      BY <1>4, <2>1, ConcatProperties
    <2>3. out' = both
      BY <1>8
    <2> HIDE DEF both
    <2> QED
      BY <2>2, <2>3
  <1>6. \A i \in 1..Len(out) : out'[i] = out[i]
    BY <1>3, <1>5, TextFacts
  <1>7. ASSUME NEW i \in Len(out) + 1..read PROVE out'[i] = <<text[i], WordColour>>
    <2>1. i - Len(out) \in 1..Len(wbuf) /\ i \in 1..Len(out) + Len(w) /\ ~(i <= Len(out))
      BY <1>3, TextFacts
    <2>2. out'[i] = w[i - Len(out)] /\ w[i - Len(out)] = <<wbuf[i - Len(out)], WordColour>>
      BY <1>3, <1>5, <2>1
    <2>3. wbuf[i - Len(out)] = text[Len(out) + (i - Len(out))]
      BY <1>2, <2>1 DEF TextInv
    <2>4. Len(out) + (i - Len(out)) = i
      BY TextFacts
    <2> QED
      BY <2>2, <2>3, <2>4
  <1> QED
    BY <1>1, <1>3, <1>5, <1>6, <1>7, TextFacts

LEMMA PrintedWordText ==
  ASSUME TextInv, PrintsWord
  PROVE  TextInv'
  <1>1. /\ text' = text /\ read' = read /\ wbuf' = <<>> /\ colour' = "off"
        /\ isheader' = isheader /\ mode' \in {"highlight", "done"}
        /\ mode' = "done" => AtEnd
    BY DEF PrintsWord
  <1>2. HighlightTypeOK'
    BY <1>1, WordIsPrinted DEF TextInv, HighlightTypeOK, Modes, Colours
  <1>3. KeepsText'
    <2>1. ASSUME NEW i \in DOMAIN out' PROVE out'[i][1] = text'[i]
      <3>1. i \in 1..read
        BY WordIsPrinted
      <3>2. CASE i \in 1..Len(out)
        BY <1>1, <3>2, WordIsPrinted DEF TextInv, KeepsText, HighlightTypeOK
      <3>3. CASE i \notin 1..Len(out)
        <4>1. i \in Len(out) + 1..read
          BY <3>1, <3>3, TextFacts
        <4> QED
          BY <1>1, <4>1, WordIsPrinted
      <3> QED
        BY <3>2, <3>3
    <2>2. mode' = "done" => Len(out') = Len(text')
      BY <1>1, WordIsPrinted DEF AtEnd
    <2> QED
      BY <1>1, <2>1, <2>2, WordIsPrinted, TextFacts DEF KeepsText
  <1> QED
    BY <1>1, <1>2, <1>3 DEF TextInv, ColourOff, CommentColour, Commenting

------------------------------------------------------------------------------

\* A comment that is there after a step was there before, or begins with it.
LEMMA OpenedBefore ==
  ASSUME TextInv, NEW col, Prints(col), NEW k \in 1..Len(text), Opens(k)'
  PROVE  Opens(k) \/ (k = Len(out) + 1 /\ col = "COMMENT" /\ c = "/" /\ mode \notin Commenting)
  <1> DEFINE n == Len(out)
  <1>1. /\ n \in Nat /\ Len(out') = n + 1 /\ \A i \in 1..n : out'[i] = out[i]
        /\ out'[n + 1] = <<c, col>> /\ text' = text /\ Len(text) \in Nat
        /\ DOMAIN out = 1..n /\ DOMAIN out' = 1..n + 1
    BY Printed, TextFacts DEF Prints
  <1>2. /\ k \in 1..n + 1 /\ out'[k] = <<"/", "COMMENT">> /\ k < Len(text) /\ text[k + 1] = "*"
        /\ k > 1 => out'[k - 1][2] # "COMMENT"
    BY <1>1 DEF Opens, IsComment
  <1>3. mode \in Commenting => n > 0 /\ out[n][2] = "COMMENT"
    BY DEF TextInv
  <1> HIDE DEF n
  <1>4. CASE k = n + 1
    <2>1. <<c, col>> = <<"/", "COMMENT">>
      BY <1>1, <1>2, <1>4
    <2>2. col = "COMMENT" /\ c = "/"
      BY <2>1
    <2>3. mode \notin Commenting
      BY <1>1, <1>2, <1>3, <1>4
    <2> QED
      BY <1>4, <2>2, <2>3 DEF n
  <1>5. CASE k # n + 1
    <2>1. k \in 1..n /\ out[k] = <<"/", "COMMENT">>
      BY <1>1, <1>2, <1>5
    <2>2. k > 1 => out[k - 1][2] # "COMMENT"
      BY <1>1, <1>2, <2>1
    <2> QED
      BY <1>1, <1>2, <2>1, <2>2 DEF Opens, IsComment
  <1> QED
    BY <1>4, <1>5

LEMMA StaysClosed ==
  ASSUME TextInv, NEW col, Prints(col), NEW k \in 1..Len(text), Closed(k),
         mode \in Commenting \/ col # "COMMENT" \/ c = "/"
  PROVE  Closed(k)'
  <1> DEFINE n == Len(out)
  <1>1. /\ n \in Nat /\ Len(out') = n + 1 /\ \A i \in 1..n : out'[i] = out[i]
        /\ out'[n + 1] = <<c, col>> /\ c = text[n + 1] /\ text' = text
    BY Printed, TextFacts DEF Prints
  <1>2. PICK j \in Ends(k) : ClosedAt(k, j)
    BY DEF Closed
  <1>3. /\ j \in Nat /\ \A i \in Ends(k) : j <= i
        /\ j <= n /\ \A i \in k..j : out[i][2] = "COMMENT"
        /\ j < n => (out[j + 1][2] = "COMMENT" => text[j + 1] = "/")
        /\ j = n => mode \notin Commenting
    BY <1>2, TextFacts DEF ClosedAt, IsComment, Ends
  <1>4. Ends(k)' = Ends(k)
    BY <1>1 DEF Ends
  <1> HIDE DEF n
  <1>5. \A i \in k..j : out'[i][2] = "COMMENT"
    BY <1>1, <1>3
  <1>6. j < n + 1 => (out'[j + 1][2] = "COMMENT" => text[j + 1] = "/")
    <2>1. CASE j = n
      BY <1>1, <1>3, <2>1
    <2>2. CASE j # n
      <3>1. j < n /\ j + 1 \in 1..n
        BY <1>1, <1>3, <2>2
      <3> QED
        BY <1>1, <1>3, <3>1
    <2> QED
      BY <2>1, <2>2
  <1>7. j <= n + 1 /\ j # n + 1
    BY <1>1, <1>3
  <1>8. ClosedAt(k, j)'
    <2>1. j \in Ends(k)' /\ \A i \in Ends(k)' : j <= i
      BY <1>3, <1>4
    <2> QED
      BY <1>1, <1>5, <1>6, <1>7, <2>1 DEF ClosedAt, IsComment
  <1> QED
    BY <1>4, <1>8 DEF Closed

LEMMA GoesOn ==
  ASSUME TextInv, Prints("COMMENT"), NEW k \in 1..Len(text), Within(k),
         mode' \in {"block", "star"}, mode' = "star" <=> c = "*", Len(out) + 1 \notin Ends(k)
  PROVE  Within(k)'
  <1> DEFINE n == Len(out)
  <1>1. /\ n \in Nat /\ Len(out') = n + 1 /\ \A i \in 1..n : out'[i] = out[i]
        /\ out'[n + 1] = <<c, "COMMENT">> /\ c = text[n + 1] /\ text' = text
    BY Printed, TextFacts DEF Prints
  <1>2. /\ n > k /\ \A i \in k..n : out[i][2] = "COMMENT"
        /\ \A i \in Ends(k) : i > n
    BY DEF Within, IsComment
  <1>3. Ends(k)' = Ends(k) /\ \A i \in Ends(k) : i \in Int /\ i # n + 1
    BY <1>1, TextFacts DEF Ends
  <1> HIDE DEF n
  <1>4. \A i \in k..n + 1 : out'[i][2] = "COMMENT"
    <2> TAKE i \in k..n + 1
    <2>1. CASE i = n + 1
      BY <1>1, <2>1
    <2>2. CASE i # n + 1
      BY <1>1, <1>2, <2>2
    <2> QED
      BY <2>1, <2>2
  <1>5. \A i \in Ends(k) : i > n + 1
    BY <1>1, <1>2, <1>3
  <1>6. n + 1 > k /\ n + 1 >= k + 2
    BY <1>1, <1>2
  <1> QED
    BY <1>1, <1>3, <1>4, <1>5, <1>6 DEF Within, IsComment

\* What CommentsInv says of the comment at k.
Known(k) == Fresh(k) \/ Within(k) \/ Closed(k) \/ Endless(k)

LEMMA PlainComments ==
  ASSUME HighlightInv, NEW col, Prints(col), mode \notin Commenting,
         (mode' \notin Commenting /\ col # "COMMENT") \/ (mode' = "comment" /\ c = "/")
  PROVE  CommentsInv'
  <1>1. text' = text /\ mode # "done" /\ TextInv
    BY DEF Prints, Modes, HighlightInv
  <1> SUFFICES ASSUME NoTwoStars, NEW k \in 1..Len(text), Opens(k)' PROVE Known(k)'
    BY <1>1 DEF CommentsInv, NoTwoStars, Known
  <1>2. CASE Opens(k)
    <2>1. Closed(k)
      BY <1>1, <1>2 DEF HighlightInv, CommentsInv, Known, Fresh, Within, Endless, Commenting
    <2> QED
      BY <1>1, <2>1, StaysClosed DEF Known
  <1>3. CASE ~Opens(k)
    <2>1. k = Len(out) + 1 /\ col = "COMMENT"
      BY <1>1, <1>3, OpenedBefore
    <2>2. mode' = "comment" /\ Len(out') = k
      BY <1>1, <2>1, Printed
    <2> QED
      BY <2>2 DEF Known, Fresh
  <1> QED
    BY <1>2, <1>3

LEMMA PeekedComments ==
  ASSUME HighlightInv, Peeks, mode = "comment" => AtEnd \/ c # "*",
         mode \in {"block", "star"} => mode' = "done"
  PROVE  CommentsInv'
  <1>1. /\ UNCHANGED <<text, out>> /\ mode # "done" /\ mode' \notin Commenting
        /\ (mode' = "done" => AtEnd) /\ wbuf = <<>> /\ TextInv
    BY DEF Peeks, Modes, HighlightInv, Commenting, TextInv
  <1>2. read = Len(out) /\ Len(out) \in Nat /\ Len(text) \in Nat
    BY <1>1, TextFacts
  <1> SUFFICES ASSUME NoTwoStars, NEW k \in 1..Len(text), Opens(k)' PROVE Known(k)'
    BY <1>1 DEF CommentsInv, NoTwoStars, Known
  <1>3. Opens(k) /\ Known(k) /\ Ends(k)' = Ends(k)
    BY <1>1 DEF Opens, IsComment, HighlightInv, CommentsInv, Known, Ends
  <1>4. ~Fresh(k)
    BY <1>2, <1>3 DEF Fresh, Opens, AtEnd, c
  <1>5. CASE Within(k)
    <2>1. mode' = "done" /\ Len(out) = Len(text)
      BY <1>1, <1>2, <1>5 DEF Within, AtEnd
    <2>2. Ends(k) = {}
      BY <1>2, <1>5, <2>1 DEF Within, Ends
    <2> QED
      BY <1>3, <2>1, <2>2 DEF Known, Endless
  <1>6. CASE Closed(k)
    <2>1. PICK j \in Ends(k) : ClosedAt(k, j)
      BY <1>6 DEF Closed
    <2>2. ClosedAt(k, j)'
      BY <1>1, <1>3, <2>1 DEF ClosedAt, IsComment
    <2> QED
      BY <1>3, <2>1, <2>2 DEF Known, Closed
  <1> QED
    BY <1>1, <1>3, <1>4, <1>5, <1>6 DEF Known, Endless

LEMMA WordComments ==
  ASSUME HighlightInv, ReadsWord \/ PrintsWord
  PROVE  CommentsInv'
  <1>1. text' = text /\ mode = "word" /\ TextInv /\ mode' \in {"word", "highlight", "done"}
    BY DEF ReadsWord, PrintsWord, HighlightInv
  <1> SUFFICES ASSUME NoTwoStars, NEW k \in 1..Len(text), Opens(k)' PROVE Known(k)'
    BY <1>1 DEF CommentsInv, NoTwoStars, Known
  <1>2. CASE ReadsWord
    <2>1. UNCHANGED <<text, out, mode>>
      BY <1>2 DEF ReadsWord
    <2>2. Opens(k) /\ Ends(k)' = Ends(k)
      BY <2>1 DEF Opens, IsComment, Ends
    <2>3. Closed(k)
      BY <1>1, <2>2 DEF HighlightInv, CommentsInv, Fresh, Within, Endless
    <2>4. PICK j \in Ends(k) : ClosedAt(k, j)
      BY <2>3 DEF Closed
    <2>5. ClosedAt(k, j)'
      BY <2>1, <2>2, <2>4 DEF ClosedAt, IsComment
    <2> QED
      BY <2>2, <2>4, <2>5 DEF Known, Closed
  <1>3. CASE PrintsWord
    <2> DEFINE n == Len(out)
    <2>1. /\ n \in Nat /\ read \in Nat /\ n <= read /\ Len(out') = read
          /\ \A i \in 1..n : out'[i] = out[i]
          /\ \A i \in n + 1..read : out'[i][2] # "COMMENT"
          /\ DOMAIN out = 1..n /\ DOMAIN out' = 1..read
      BY <1>1, <1>3, WordIsPrinted, TextFacts
    <2> HIDE DEF n
    <2>2. k \in 1..n
      BY <2>1 DEF Opens
    <2>3. Opens(k)
      BY <1>1, <2>1, <2>2 DEF Opens, IsComment
    <2>4. Closed(k) /\ Ends(k)' = Ends(k)
      BY <1>1, <2>3 DEF HighlightInv, CommentsInv, Fresh, Within, Endless, Ends
    <2>5. PICK j \in Ends(k) : ClosedAt(k, j)
      BY <2>4 DEF Closed
    <2>6. /\ j \in Nat /\ \A i \in Ends(k) : j <= i
          /\ j <= n /\ \A i \in k..j : out[i][2] = "COMMENT"
          /\ j < n => (out[j + 1][2] = "COMMENT" => text[j + 1] = "/")
      BY <1>1, <2>5, TextFacts DEF ClosedAt, IsComment, Ends, n
    <2>7. \A i \in k..j : out'[i][2] = "COMMENT"
      BY <2>1, <2>2, <2>6
    <2>8. j < read => (out'[j + 1][2] = "COMMENT" => text[j + 1] = "/")
      <3>1. CASE j = n
        BY <2>1, <3>1
      <3>2. CASE j # n
        BY <2>1, <2>6, <3>2
      <3> QED
        BY <3>1, <3>2
    <2>9. mode' \notin Commenting
      BY <1>1 DEF Commenting
    <2>10. ClosedAt(k, j)'
      <3>1. j \in Ends(k)' /\ \A i \in Ends(k)' : j <= i
        BY <2>4, <2>6
      <3>2. j <= read
        BY <2>1, <2>6
      <3> QED
        BY <1>1, <2>1, <2>7, <2>8, <2>9, <3>1, <3>2 DEF ClosedAt, IsComment
    <2> QED
      BY <2>4, <2>5, <2>10 DEF Known, Closed
  <1> QED
    BY <1>2, <1>3

\* The steps inside a comment.
LEMMA CommentGoesOn ==
  ASSUME HighlightInv, Prints("COMMENT"), mode \in Commenting,
         NoTwoStars, NEW k \in 1..Len(text), Opens(k)',
         Fresh(k) => c = "*" /\ mode' = "block",
         mode \in {"block", "star"} =>
           \/ mode = "star" /\ c = "/" /\ mode' \notin Commenting
           \/ mode = "star" /\ c # "/" /\ mode' = "block"
           \/ mode = "block" /\ mode' = IF c = "*" THEN "star" ELSE "block"
  PROVE  Known(k)'
  <1> DEFINE n == Len(out)
  <1>1. TextInv /\ Opens(k) /\ text' = text /\ Ends(k)' = Ends(k)
    BY OpenedBefore DEF HighlightInv, Prints, Ends
  <1>2. /\ n \in Nat /\ Len(out') = n + 1 /\ \A i \in 1..n : out'[i] = out[i]
        /\ out'[n + 1] = <<c, "COMMENT">> /\ c = text[n + 1] /\ n < Len(text) /\ Len(text) \in Nat
    BY <1>1, Printed, TextFacts
  <1>3. Known(k) /\ ~Endless(k)
    BY <1>1 DEF HighlightInv, CommentsInv, Known, Endless, Commenting
  <1> HIDE DEF n
  <1>4. CASE Fresh(k)
    <2>1. n = k /\ mode' = "block" /\ out[k] = <<"/", "COMMENT">>
      BY <1>1, <1>4 DEF Fresh, Opens, n
    <2>2. \A i \in k..n + 1 : out'[i][2] = "COMMENT"
      <3> TAKE i \in k..n + 1
      <3>1. i = k \/ i = n + 1
        BY <1>2, <2>1
      <3> QED
        BY <1>2, <2>1, <3>1
    <2>3. \A i \in Ends(k) : i > n + 1
      BY <1>2, <2>1 DEF Ends
    <2>4. Within(k)'
      BY <1>1, <1>2, <2>1, <2>2, <2>3 DEF Within, IsComment
    <2> QED
      BY <2>4 DEF Known
  <1>5. CASE Within(k)
    <2>1. /\ n > k /\ mode \in {"block", "star"}
          /\ \A i \in k..n : out[i][2] = "COMMENT"
          /\ \A i \in Ends(k) : i > n
          /\ mode = "star" <=> text[n] = "*" /\ n >= k + 2
      BY <1>5 DEF Within, IsComment, n
    <2>2. n + 1 \in Ends(k) <=> mode = "star" /\ c = "/"
      BY <1>2, <2>1 DEF Ends
    <2>3. CASE mode = "star" /\ c = "/"
      <3>1. \A i \in k..n + 1 : out'[i][2] = "COMMENT"
        <4> TAKE i \in k..n + 1
        <4>1. CASE i = n + 1
          BY <1>2, <4>1
        <4>2. CASE i # n + 1
          BY <1>2, <2>1, <4>2
        <4> QED
          BY <4>1, <4>2
      <3>2. \A i \in Ends(k) : n + 1 <= i
        <4>1. \A i \in Ends(k) : i \in Int
          BY <1>2 DEF Ends
        <4> QED
          BY <1>2, <2>1, <4>1
      <3>3. mode' \notin Commenting
        BY <2>3
      <3>4. PICK j \in Ends(k) : j = n + 1
        BY <2>2, <2>3
      <3>5. ClosedAt(k, j)'
        <4>1. j \in Ends(k)' /\ \A i \in Ends(k)' : j <= i
          BY <1>1, <3>2, <3>4
        <4>2. j <= Len(out)' /\ ~(j < Len(out)') /\ \A i \in k..j : out'[i][2] = "COMMENT"
          BY <1>2, <3>1, <3>4
        <4> QED
          BY <3>3, <4>1, <4>2 DEF ClosedAt, IsComment
      <3> QED
        BY <1>1, <3>4, <3>5 DEF Known, Closed
    <2>4. CASE ~(mode = "star" /\ c = "/")
      <3>1. mode = "star" => c # "*"
        BY <1>2, <2>1 DEF NoTwoStars
      <3>2. mode' \in {"block", "star"} /\ (mode' = "star" <=> c = "*")
        BY <2>1, <2>4, <3>1
      <3>3. Within(k)'
        BY <1>1, <1>5, <2>2, <2>4, <3>2, GoesOn DEF n
      <3> QED
        BY <3>3 DEF Known
    <2> QED
      BY <2>3, <2>4
  <1>6. CASE Closed(k)
    BY <1>1, <1>6, StaysClosed DEF Known
  <1> QED
    BY <1>3, <1>4, <1>5, <1>6 DEF Known

LEMMA CommentingComments ==
  ASSUME HighlightInv, Prints("COMMENT"), mode \in Commenting,
         mode = "comment" => \/ c = "*" /\ mode' = "block"
                             \/ c # "*",
         mode \in {"block", "star"} =>
           \/ mode = "star" /\ c = "/" /\ mode' \notin Commenting
           \/ mode = "star" /\ c # "/" /\ mode' = "block"
           \/ mode = "block" /\ mode' = IF c = "*" THEN "star" ELSE "block"
  PROVE  CommentsInv'
  <1>1. text' = text /\ TextInv
    BY DEF Prints, HighlightInv
  <1> SUFFICES ASSUME NoTwoStars, NEW k \in 1..Len(text), Opens(k)' PROVE Known(k)'
    BY <1>1 DEF CommentsInv, NoTwoStars, Known
  <1>2. Opens(k) /\ c = text[Len(out) + 1]
    BY <1>1, OpenedBefore, Printed
  <1>3. Fresh(k) => c = "*" /\ mode' = "block"
    BY <1>2 DEF Fresh, Opens
  <1> QED
    BY <1>3, CommentGoesOn

\* What each function does, as steps of these kinds.
LEMMA HighlightSteps ==
  ASSUME TextInv, highlight
  PROVE  \/ \E col \in Colours : /\ Prints(col) /\ mode \notin Commenting
                                 /\ \/ mode' \notin Commenting /\ col # "COMMENT"
                                    \/ mode' = "comment" /\ c = "/" /\ col = "COMMENT"
         \/ Peeks /\ mode = "highlight"
  <1> USE DEF highlight, Enter, Commenting, Modes, Fits, Colours
  <1>1. isheader \in BOOLEAN /\ mode = "highlight" /\ ~AtEnd /\ UNCHANGED <<text, wbuf>>
    BY DEF TextInv, HighlightTypeOK
  <1> HIDE DEF c, AtEnd, Echo
  <1>2. CASE c = "#" /\ Enter("macro_space", "MACRO") /\ Echo("MACRO") /\ UNCHANGED isheader
    <2>1. Prints("MACRO")
      BY <1>1, <1>2 DEF Prints
    <2> QED
      BY <1>1, <1>2, <2>1
  <1>3. CASE c = "'" /\ Enter("character", "CHAR") /\ Echo("CHAR") /\ UNCHANGED isheader
    <2>1. Prints("CHAR")
      BY <1>1, <1>3 DEF Prints
    <2> QED
      BY <1>1, <1>3, <2>1
  <1>4. CASE Enter("header", "HEADER") /\ Echo("HEADER") /\ UNCHANGED isheader
    <2>1. Prints("HEADER")
      BY <1>1, <1>4 DEF Prints
    <2> QED
      BY <1>1, <1>4, <2>1
  <1>5. CASE c = "/" /\ Enter("comment", "COMMENT") /\ Echo("COMMENT") /\ UNCHANGED isheader
    <2>1. Prints("COMMENT")
      BY <1>1, <1>5 DEF Prints
    <2> QED
      BY <1>1, <1>5, <2>1
  <1>6. CASE LET col == IF isheader THEN "HEADER" ELSE "STRING"
             IN  Enter("string", col) /\ Echo(col) /\ isheader' = FALSE
    <2> DEFINE col == IF isheader THEN "HEADER" ELSE "STRING"
    <2>1. Enter("string", col) /\ Echo(col) /\ isheader' = FALSE
      BY <1>6
    <2>2. col \in {"HEADER", "STRING"}
      OBVIOUS
    <2> HIDE DEF col
    <2>3. Prints(col)
      BY <1>1, <2>1, <2>2 DEF Prints
    <2> QED
      BY <1>1, <2>1, <2>2, <2>3
  <1>7. CASE Peek /\ UNCHANGED isheader /\ \/ Enter("space", "off")
                                           \/ Enter("punct", "PUNCT")
                                           \/ Enter("word", "off")
    BY <1>1, <1>7 DEF Peeks, Peek
  <1> QED
    BY <1>2, <1>3, <1>4, <1>5, <1>6, <1>7

LEMMA HighlightKept ==
  ASSUME HighlightInv, highlight
  PROVE  HighlightInv'
  <1>1. TextInv
    BY DEF HighlightInv
  <1>2. CASE Peeks /\ mode = "highlight"
    BY <1>1, <1>2, PeekedText, PeekedComments DEF HighlightInv
  <1>3. ASSUME NEW col \in Colours, Prints(col), mode \notin Commenting,
               \/ mode' \notin Commenting /\ col # "COMMENT"
               \/ mode' = "comment" /\ c = "/" /\ col = "COMMENT"
        PROVE  HighlightInv'
    BY <1>1, <1>3, PrintedText, PlainComments DEF HighlightInv
  <1> QED
    BY <1>1, <1>2, <1>3, HighlightSteps

LEMMA TestIsBoolean == ASSUME NEW S, NEW x, NEW b, b = (x \in S) PROVE b \in BOOLEAN
  OBVIOUS

\* The functions that print no comment.
PlainSteps == space \/ punct \/ macro \/ character \/ string \/ header

LEMMA PlainlyPrinted ==
  ASSUME TextInv, PlainSteps
  PROVE  /\ mode \notin Commenting
         /\ \/ Prints(colour) /\ mode' \notin Commenting /\ colour # "COMMENT"
            \/ Peeks
  <1> USE DEF Modes, Commenting
  <1>1. /\ isheader \in BOOLEAN /\ colour \in Colours
        /\ mode \notin Commenting \cup {"word"} => colour # "COMMENT"
        /\ mode \in {"highlight", "space", "done"} => colour = "off"
    BY DEF TextInv, HighlightTypeOK, ColourOff, CommentColour
  <1>2. CASE space
    BY <1>1, <1>2 DEF space, Prints, Peeks, Enter, Peek, Return, Fits, Colours
  <1>3. CASE punct
    BY <1>1, <1>3 DEF punct, Prints, Peeks, Enter, Peek, Return, Fits, Colours
  <1>4. CASE macro
    <2>1. CASE c \in Letters
      <3>1. Echo(colour) /\ UNCHANGED <<mode, colour>>
        BY <1>4, <2>1 DEF macro
      <3> HIDE DEF c
      <3>2. isheader' = (c \in {"include", "inc"})
        BY <1>4, <2>1, Zenon DEF macro
      <3>3. isheader' \in BOOLEAN
        BY ONLY <3>2, TestIsBoolean
      <3> QED
        BY <1>1, <1>4, <3>1, <3>3 DEF macro, Prints, Fits, Colours
    <2>2. CASE c \notin Letters
      BY <1>1, <1>4, <2>2 DEF macro, Peeks, Enter, Peek, Return, Fits, Colours
    <2> QED
      BY <2>1, <2>2
  <1>5. CASE character
    BY <1>1, <1>5 DEF character, quoted, Prints, Enter, Return, Fits, Colours
  <1>6. CASE string
    BY <1>1, <1>6 DEF string, quoted, Prints, Enter, Return, Fits, Colours
  <1>7. CASE header
    BY <1>1, <1>7 DEF header, Prints, Enter, Return, Fits, Colours
  <1> QED
    BY <1>2, <1>3, <1>4, <1>5, <1>6, <1>7 DEF PlainSteps

LEMMA PlainKept ==
  ASSUME HighlightInv, PlainSteps
  PROVE  HighlightInv'
  <1>1. TextInv
    BY DEF HighlightInv
  <1>2. mode \notin Commenting /\ mode # "comment" /\ mode \notin {"block", "star"}
    BY <1>1, PlainlyPrinted DEF Commenting
  <1>3. CASE Peeks
    BY <1>1, <1>2, <1>3, PeekedText, PeekedComments DEF HighlightInv
  <1>4. CASE Prints(colour) /\ mode' \notin Commenting /\ colour # "COMMENT"
    BY <1>1, <1>2, <1>4, PrintedText, PlainComments DEF HighlightInv
  <1> QED
    BY <1>1, <1>3, <1>4, PlainlyPrinted

CommentSteps == comment \/ LineComment \/ BlockComment \/ Star

LEMMA CommentPrinted ==
  ASSUME TextInv, CommentSteps
  PROVE  /\ mode \in Commenting
         /\ \/ /\ Prints("COMMENT")
               /\ mode = "comment" => (c = "*" /\ mode' = "block") \/ c # "*"
               /\ mode \in {"block", "star"} =>
                    \/ mode = "star" /\ c = "/" /\ mode' \notin Commenting
                    \/ mode = "star" /\ c # "/" /\ mode' = "block"
                    \/ mode = "block" /\ mode' = IF c = "*" THEN "star" ELSE "block"
            \/ Peeks /\ mode = "comment" /\ c # "*"
  <1> USE DEF Modes, Commenting
  <1>1. isheader \in BOOLEAN /\ (mode \in Commenting => colour = "COMMENT")
    BY DEF TextInv, CommentColour, HighlightTypeOK
  <1>2. CASE comment
    BY <1>1, <1>2 DEF comment, Prints, Peeks, Enter, Peek, Fits, Colours
  <1>3. CASE LineComment
    BY <1>1, <1>3 DEF LineComment, Prints, Enter, Return, Fits, Colours
  <1>4. CASE BlockComment
    BY <1>1, <1>4 DEF BlockComment, Prints, Enter, Fits, Colours
  <1>5. CASE Star
    BY <1>1, <1>5 DEF Star, Prints, Enter, Return, Fits, Colours
  <1> QED
    BY <1>2, <1>3, <1>4, <1>5 DEF CommentSteps

LEMMA CommentKept ==
  ASSUME HighlightInv, CommentSteps
  PROVE  HighlightInv'
  <1>1. TextInv /\ mode \in Commenting
    BY CommentPrinted DEF HighlightInv
  <1>2. CASE Peeks /\ mode = "comment" /\ c # "*"
    BY <1>1, <1>2, PeekedText, PeekedComments DEF HighlightInv
  <1>3. CASE Prints("COMMENT") /\ ~(Peeks /\ mode = "comment" /\ c # "*")
    <2>1. TextInv'
      BY <1>1, <1>3, PrintedText
    <2>2. CommentsInv'
      BY <1>1, <1>3, CommentPrinted, CommentingComments
    <2> QED
      BY <2>1, <2>2 DEF HighlightInv
  <1> QED
    BY <1>1, <1>2, <1>3, CommentPrinted

LEMMA OthersKept ==
  ASSUME HighlightInv, word \/ close_app(Modes)
  PROVE  HighlightInv'
  <1>1. TextInv
    BY DEF HighlightInv
  <1>2. CASE word
    <2>1. mode = "word" /\ wbuf \in Seq(InWord)
      BY <1>1, <1>2 DEF word, TextInv, HighlightTypeOK
    <2>2. ReadsWord \/ PrintsWord
      BY <1>2, <2>1 DEF word, ReadsWord, PrintsWord, Enter, Return
    <2> QED
      BY <1>1, <2>2, ReadWordText, PrintedWordText, WordComments DEF HighlightInv
  <1>3. CASE close_app(Modes)
    <2>1. Peeks /\ AtEnd /\ mode' = "done"
      BY <1>1, <1>3 DEF close_app, Enter, Peeks, Fits, Colours, Commenting, TextInv,
         HighlightTypeOK
    <2> QED
      BY <1>1, <2>1, PeekedText, PeekedComments DEF HighlightInv
  <1> QED
    BY <1>2, <1>3

LEMMA HighlightInvInit == HighlightInit => HighlightInv
  <1> SUFFICES ASSUME HighlightInit PROVE HighlightInv
    OBVIOUS
  <1>1. text \in Seq(Chars) /\ Len(text) \in Nat
    BY TextsAssumption DEF HighlightInit
  <1>2. /\ text \in Texts /\ read = 0 /\ out = <<>> /\ colour = "off"
        /\ mode = "highlight" /\ isheader = FALSE /\ wbuf = <<>>
    BY DEF HighlightInit
  <1>3. TextInv
    <2>1. /\ Len(out) = 0 /\ Len(wbuf) = 0 /\ DOMAIN out = {} /\ DOMAIN wbuf = {}
          /\ out \in Seq(Coloured) /\ wbuf \in Seq(InWord)
      BY <1>2
    <2>2. HighlightTypeOK
      <3>1. read \in 0..Len(text) /\ colour \in Colours
        BY <1>1, <1>2 DEF Colours
      <3>3. isheader \in BOOLEAN
        BY <1>2, Zenon
      <3>2. mode \in Modes
        BY <1>2 DEF Modes
      <3> QED
        BY <1>2, <2>1, <3>1, <3>2, <3>3 DEF HighlightTypeOK
    <2>3. KeepsText
      BY <1>2, <2>1 DEF KeepsText
    <2> QED
      BY <1>2, <2>1, <2>2, <2>3 DEF TextInv, ColourOff, CommentColour, Commenting
  <1>4. CommentsInv
    BY <1>2 DEF CommentsInv, Opens
  <1> QED
    BY <1>3, <1>4 DEF HighlightInv

LEMMA HighlightInvHolds == HighlightSpec => []HighlightInv
  <1>1. HighlightInv /\ [HighlightNext]_highlightVars => HighlightInv'
    <2> SUFFICES ASSUME HighlightInv, [HighlightNext]_highlightVars PROVE HighlightInv'
      OBVIOUS
    <2>1. CASE UNCHANGED highlightVars
      <3>1. UNCHANGED <<text, read, out, colour, mode, isheader, wbuf>>
        BY <2>1 DEF highlightVars
      <3>2. TextInv'
        BY <3>1 DEF HighlightInv, TextInv, HighlightTypeOK, KeepsText, ColourOff, CommentColour
      <3>3. \A k \in 1..Len(text) : (Opens(k)' <=> Opens(k)) /\ (Fresh(k)' <=> Fresh(k))
                                 /\ (Endless(k)' <=> Endless(k))
        BY <3>1 DEF Opens, Fresh, Endless, Ends, IsComment
      <3>4. \A k \in 1..Len(text) : Within(k)' <=> Within(k)
        BY <3>1 DEF Within, Ends, IsComment
      <3>5. \A k \in 1..Len(text) : Closed(k)' <=> Closed(k)
        BY <3>1 DEF Closed, ClosedAt, Ends, IsComment
      <3>6. CommentsInv'
        <4>1. NoTwoStars' <=> NoTwoStars
          BY <3>1 DEF NoTwoStars
        <4> QED
          BY <3>1, <3>3, <3>4, <3>5, <4>1 DEF HighlightInv, CommentsInv
      <3> QED
        BY <3>2, <3>6 DEF HighlightInv
    <2> QED
      BY <2>1, HighlightKept, PlainKept, CommentKept, OthersKept
      DEF HighlightNext, PlainSteps, CommentSteps
  <1> QED
    BY HighlightInvInit, <1>1, PTL DEF HighlightSpec

\* The highlighter prints the text it reads, leaves no colour on, and ends each comment
\* where it ends, for every text of any length (c.c:67-290).
THEOREM IsHighlighted == HighlightSpec => []Highlighted
  <1>1. ASSUME HighlightInv PROVE CommentsEnd
    <2> SUFFICES ASSUME mode = "done", NoTwoStars,
                        NEW k \in 1..Len(text) - 1, NEW j \in 1..Len(text),
                        out[k] = <<"/", "COMMENT">>, text[k + 1] = "*",
                        k > 1 => out[k - 1][2] # "COMMENT",
                        j \in Ends(k), \A i \in Ends(k) : j <= i
                 PROVE  /\ \A i \in k..j : out[i][2] = "COMMENT"
                        /\ j < Len(text) /\ out[j + 1][2] = "COMMENT" => text[j + 1] = "/"
      BY DEF CommentsEnd, NoTwoStars
    <2>1. Len(text) \in Nat /\ Len(out) = Len(text) /\ DOMAIN out = 1..Len(text)
      BY <1>1, TextFacts DEF HighlightInv, TextInv, KeepsText, HighlightTypeOK
    <2>2. Opens(k)
      BY <2>1 DEF Opens, IsComment
    <2>3. Closed(k)
      BY <1>1, <2>1, <2>2 DEF HighlightInv, CommentsInv, Fresh, Within, Endless
    <2>4. PICK e \in Ends(k) : ClosedAt(k, e)
      BY <2>3 DEF Closed
    <2>5. e = j
      <3>1. e <= j /\ j <= e
        BY <2>4 DEF ClosedAt
      <3>2. e \in Int
        BY <2>1 DEF Ends
      <3> QED
        BY <3>1, <3>2
    <2> QED
      BY <2>1, <2>4, <2>5 DEF ClosedAt, IsComment
  <1>2. HighlightInv => Highlighted
    BY <1>1 DEF HighlightInv, TextInv, Highlighted
  <1> QED
    BY HighlightInvHolds, <1>2, PTL

------------------------------------------------------------------------------
(* The groups.                                                              *)

\* A set that holds 0 and with each number the next holds all of them.
LEMMA Stepwise ==
  ASSUME NEW N \in Nat, NEW S, 0 \in S, \A k \in 1..N : k - 1 \in S => k \in S
  PROVE  \A k \in 0..N : k \in S
  <1> DEFINE T == {k \in 0..N : k \notin S}
  <1> SUFFICES ASSUME T # {} PROVE FALSE
    OBVIOUS
  <1>1. PICK k \in T : \A j \in T : k <= j
    <2>1. T \subseteq Nat
      OBVIOUS
    <2> HIDE DEF T
    <2> QED
      BY <2>1, HasLeast
  <1>2. k \in 1..N /\ k - 1 \in 0..N /\ k - 1 \notin T
    BY <1>1
  <1> QED
    BY <1>1, <1>2

\* What following g from x meets, N times.
Follows(w, S, g, x, N) ==
  w \in [0..N -> S] /\ w[0] = x /\ \A k \in 1..N : w[k] = g[w[k - 1]]

LEMMA CanBeFollowed ==
  ASSUME NEW S, NEW g \in [S -> S], NEW x \in S, NEW N \in Nat
  PROVE  \E w : Follows(w, S, g, x, N)
  <1> DEFINE Followed(m) ==
               \E w \in [0..m -> S] : w[0] = x /\ \A k \in 1..m : w[k] = g[w[k - 1]]
             T == {m \in 0..N : Followed(m)}
  <1>1. 0 \in T
    <2>1. /\ [k \in 0..0 |-> x] \in [0..0 -> S] /\ [k \in 0..0 |-> x][0] = x
          /\ \A k \in 1..0 : [i \in 0..0 |-> x][k] = g[[i \in 0..0 |-> x][k - 1]]
      OBVIOUS
    <2>2. Followed(0)
      BY <2>1
    <2> QED
      BY <2>2
  <1>2. ASSUME NEW m \in 1..N, m - 1 \in T PROVE m \in T
    <2>1. PICK w \in [0..m - 1 -> S] :
            w[0] = x /\ \A k \in 1..m - 1 : w[k] = g[w[k - 1]]
      BY <1>2
    <2> DEFINE v == [k \in 0..m |-> IF k < m THEN w[k] ELSE g[w[m - 1]]]
    <2>2. v \in [0..m -> S] /\ v[0] = x
      BY <2>1
    <2>3. ASSUME NEW k \in 1..m PROVE v[k] = g[v[k - 1]]
      BY <2>1
    <2>4. Followed(m)
      BY <2>2, <2>3
    <2> QED
      BY <2>4
  <1> HIDE DEF T
  <1>3. \A m \in 0..N : m \in T
    BY <1>1, <1>2, Stepwise
  <1>4. N \in T
    BY <1>3
  <1> QED
    BY <1>4 DEF T, Follows

WalkIn(g, z) ==
  LET up[k \in 0..nmembs] == IF k = 0 THEN z ELSE g[up[k - 1]] IN up

LEMMA WalkSteps ==
  ASSUME NEW g \in [Membs -> Membs], NEW z \in Membs
  PROVE  /\ WalkIn(g, z) \in [0..nmembs -> Membs] /\ WalkIn(g, z)[0] = z
         /\ \A k \in 1..nmembs : WalkIn(g, z)[k] = g[WalkIn(g, z)[k - 1]]
  <1>0. nmembs \in Nat
    BY NmembsAssumption
  <1>1. PICK w : Follows(w, Membs, g, z, nmembs)
    BY <1>0, CanBeFollowed
  <1>2. w = [k \in 0..nmembs |-> IF k = 0 THEN z ELSE g[w[k - 1]]]
    BY <1>0, <1>1 DEF Follows
  <1> DEFINE f == WalkIn(g, z)
  <1>3. f = [k \in 0..nmembs |-> IF k = 0 THEN z ELSE g[f[k - 1]]]
    BY <1>2, Zenon DEF WalkIn
  <1>4. \A k \in 0..nmembs : f[k] = IF k = 0 THEN z ELSE g[f[k - 1]]
    <2> HIDE DEF f
    <2> QED
      BY <1>3
  <1> HIDE DEF f
  <1> DEFINE T == {k \in 0..nmembs : f[k] \in Membs}
  <1>5. 0 \in T
    BY <1>0, <1>4
  <1>6. \A k \in 1..nmembs : k - 1 \in T => k \in T
    BY <1>0, <1>4
  <1> HIDE DEF T
  <1>7. \A k \in 0..nmembs : k \in T
    BY <1>0, <1>5, <1>6, Stepwise
  <1>8. DOMAIN f = 0..nmembs /\ f = [k \in DOMAIN f |-> f[k]]
    BY <1>3
  <1>9. f \in [0..nmembs -> Membs]
    BY <1>7, <1>8 DEF T
  <1> QED
    BY <1>0, <1>4, <1>9 DEF f

LEMMA Power2Steps ==
  /\ Power2 \in [0..nmembs -> Nat] /\ Power2[0] = 1
  /\ \A k \in 1..nmembs : Power2[k] = 2 * Power2[k - 1]
  <1>0. nmembs \in Nat
    BY NmembsAssumption
  <1> DEFINE twice == [n \in Nat |-> 2 * n]
  <1>1. PICK w : Follows(w, Nat, twice, 1, nmembs)
    <2>1. twice \in [Nat -> Nat] /\ 1 \in Nat
      OBVIOUS
    <2> HIDE DEF twice
    <2> QED
      BY <1>0, <2>1, CanBeFollowed
  <1>2. w = [k \in 0..nmembs |-> IF k = 0 THEN 1 ELSE 2 * w[k - 1]]
    <2> HIDE DEF twice
    <2>1. ASSUME NEW k \in 1..nmembs PROVE w[k] = 2 * w[k - 1]
      <3>1. w[k] = twice[w[k - 1]] /\ w[k - 1] \in Nat
        BY <1>0, <1>1 DEF Follows
      <3> QED
        BY <3>1 DEF twice
    <2>2. w \in [0..nmembs -> Nat] /\ w[0] = 1
      BY <1>1 DEF Follows
    <2> QED
      BY <1>0, <2>1, <2>2
  <1> DEFINE f == Power2
  <1>3. f = [k \in 0..nmembs |-> IF k = 0 THEN 1 ELSE 2 * f[k - 1]]
    BY <1>2, Zenon DEF Power2
  <1>4. \A k \in 0..nmembs : f[k] = IF k = 0 THEN 1 ELSE 2 * f[k - 1]
    <2> HIDE DEF f
    <2> QED
      BY <1>3
  <1> HIDE DEF f
  <1> DEFINE T == {k \in 0..nmembs : f[k] \in Nat}
  <1>5. 0 \in T
    BY <1>0, <1>4
  <1>6. \A k \in 1..nmembs : k - 1 \in T => k \in T
    BY <1>0, <1>4
  <1> HIDE DEF T
  <1>7. \A k \in 0..nmembs : k \in T
    BY <1>0, <1>5, <1>6, Stepwise
  <1>8. DOMAIN f = 0..nmembs /\ f = [k \in DOMAIN f |-> f[k]]
    BY <1>3
  <1>9. f \in [0..nmembs -> Nat]
    BY <1>7, <1>8 DEF T
  <1> QED
    BY <1>0, <1>4, <1>9 DEF f

LEMMA Power2Grows ==
  /\ \A k \in 0..nmembs : k < Power2[k]
  /\ \A j, k \in 0..nmembs : j <= k => Power2[j] <= Power2[k]
  <1>0. /\ nmembs \in Nat /\ Power2 \in [0..nmembs -> Nat] /\ Power2[0] = 1
        /\ \A k \in 1..nmembs : Power2[k] = 2 * Power2[k - 1]
    BY NmembsAssumption, Power2Steps
  <1> DEFINE S == {k \in 0..nmembs : k < Power2[k]}
  <1>1. \A k \in 0..nmembs : k \in S
    <2>1. 0 \in S
      BY <1>0
    <2>2. ASSUME NEW k \in 1..nmembs, k - 1 \in S PROVE k \in S
      BY <1>0, <2>2
    <2> HIDE DEF S
    <2> QED
      BY <1>0, <2>1, <2>2, Stepwise
  <1>2. ASSUME NEW j \in 0..nmembs PROVE \A k \in 0..nmembs : j <= k => Power2[j] <= Power2[k]
    <2> DEFINE T == {k \in 0..nmembs : j <= k => Power2[j] <= Power2[k]}
    <2>1. 0 \in T
      BY <1>0
    <2>2. ASSUME NEW k \in 1..nmembs, k - 1 \in T PROVE k \in T
      <3>1. Power2[k] = 2 * Power2[k - 1] /\ Power2[k - 1] \in Nat /\ Power2[j] \in Nat
        BY <1>0
      <3>2. j <= k => j <= k - 1 \/ j = k
        BY <1>0
      <3>3. j <= k - 1 => Power2[j] <= Power2[k - 1]
        BY <2>2
      <3>4. Power2[k - 1] <= Power2[k]
        BY <3>1
      <3>5. j <= k => Power2[j] <= Power2[k]
        BY <3>1, <3>2, <3>3, <3>4
      <3> QED
        BY <3>5
    <2> HIDE DEF T
    <2>3. \A k \in 0..nmembs : k \in T
      BY <1>0, <2>1, <2>2, Stepwise
    <2> QED
      BY <2>3 DEF T
  <1> QED
    BY <1>1, <1>2

\* Member z belongs below root r[z], d[z] steps away.
Rooted(g, r, d) ==
  /\ g \in [Membs -> Membs] /\ r \in [Membs -> Membs] /\ d \in [Membs -> 0..nmembs]
  /\ \A z \in Membs : g[r[z]] = r[z]
  /\ \A z \in Membs : g[z] = z => r[z] = z /\ d[z] = 0
  /\ \A z \in Membs : g[z] # z => r[z] = r[g[z]] /\ d[z] = d[g[z]] + 1

\* A walk is at the root after d[z] steps and not before.
LEMMA WalkToRoot ==
  ASSUME NEW g, NEW r, NEW d, Rooted(g, r, d), NEW z \in Membs
  PROVE  /\ WalkIn(g, z)[nmembs] = r[z]
         /\ \A k \in 0..nmembs : WalkIn(g, z)[k] # r[z] => k < d[z]
  <1> USE DEF Rooted
  <1> DEFINE w == WalkIn(g, z)
  <1>1. /\ nmembs \in Nat /\ w \in [0..nmembs -> Membs] /\ w[0] = z
        /\ \A k \in 1..nmembs : w[k] = g[w[k - 1]]
    <2>1. g \in [Membs -> Membs]
      OBVIOUS
    <2> QED
      BY ONLY <2>1, z \in Membs, NmembsAssumption, WalkSteps
  <1> HIDE DEF w
  <1> DEFINE S == {k \in 0..nmembs :
                     r[w[k]] = r[z] /\ d[w[k]] = IF k <= d[z] THEN d[z] - k ELSE 0}
  <1>2. 0 \in S
    BY <1>1
  <1>3. ASSUME NEW k \in 1..nmembs, k - 1 \in S PROVE k \in S
    <2> DEFINE u == w[k - 1]
    <2>1. /\ u \in Membs /\ w[k] = g[u] /\ g[u] \in Membs /\ r[u] = r[z]
          /\ d[u] = IF k - 1 <= d[z] THEN d[z] - (k - 1) ELSE 0
          /\ d[u] \in Nat /\ d[z] \in Nat /\ d[g[u]] \in Nat /\ k \in Nat
      BY <1>1, <1>3
    <2> HIDE DEF u
    <2>2. CASE g[u] = u
      BY <2>1, <2>2
    <2>3. CASE g[u] # u
      <3>1. r[g[u]] = r[z] /\ d[u] = d[g[u]] + 1
        BY <2>1, <2>3
      <3> QED
        BY <2>1, <3>1
    <2> QED
      BY <2>2, <2>3
  <1> HIDE DEF S
  <1>4. \A k \in 0..nmembs : k \in S
    BY <1>1, <1>2, <1>3, Stepwise
  <1>5. ASSUME NEW k \in 0..nmembs, d[z] <= k PROVE w[k] = r[z]
    <2>1. /\ w[k] \in Membs /\ r[w[k]] = r[z]
          /\ d[w[k]] = IF k <= d[z] THEN d[z] - k ELSE 0
      BY <1>1, <1>4 DEF S
    <2>2. d[w[k]] = 0
      BY <1>1, <1>5, <2>1
    <2>3. g[w[k]] = w[k]
      <3>1. g[w[k]] \in Membs /\ d[g[w[k]]] \in Nat
        BY <1>1, <2>1
      <3> QED
        BY <2>1, <2>2, <3>1
    <2> QED
      BY <2>1, <2>3
  <1>6. d[z] \in 0..nmembs
    BY <1>1
  <1> QED
    BY <1>1, <1>5, <1>6 DEF w

\* The groups part the members.
Disjoint(P) ==
  /\ \A a \in P : a # {} /\ a \subseteq Membs
  /\ \A a, b \in P : a \cap b # {} => a = b
  /\ \A z \in Membs : \E a \in P : z \in a
PartOf(P, z) == CHOOSE a \in P : z \in a

LEMMA PartKnown ==
  ASSUME NEW P, Disjoint(P), NEW z \in Membs
  PROVE  /\ PartOf(P, z) \in P /\ z \in PartOf(P, z)
         /\ \A a \in P : z \in a => a = PartOf(P, z)
  <1>1. PartOf(P, z) \in P /\ z \in PartOf(P, z)
    BY DEF Disjoint, PartOf
  <1> QED
    BY <1>1 DEF Disjoint

LEMMA PartFinite ==
  ASSUME NEW P, Disjoint(P), NEW a \in P
  PROVE  /\ IsFiniteSet(a) /\ Cardinality(a) \in Nat
         /\ Cardinality(a) <= nmembs /\ Cardinality(a) > 0
  <1>1. IsFiniteSet(Membs) /\ Cardinality(Membs) = nmembs
    <2>1. /\ IsFiniteSet(0..nmembs - 1)
          /\ Cardinality(0..nmembs - 1) = IF 0 > nmembs - 1 THEN 0 ELSE nmembs - 1 - 0 + 1
      BY NmembsAssumption, FS_Interval
    <2> QED
      BY <2>1, NmembsAssumption DEF Membs
  <1>2. a \in SUBSET Membs /\ a # {}
    BY DEF Disjoint
  <1>3. IsFiniteSet(a) /\ Cardinality(a) <= nmembs
    BY <1>1, <1>2, FS_Subset
  <1>4. Cardinality(a) \in Nat
    BY <1>3, FS_CardinalityType
  <1>5. Cardinality(a) # 0
    BY <1>2, <1>3, FS_EmptySet
  <1> QED
    BY <1>3, <1>4, <1>5

Joined(P, a, b) == (P \ {a, b}) \cup {a \cup b}

\* J is P with its parts a and b made one.
IsJoin(J, P, a, b) ==
  /\ Disjoint(J) /\ IsFiniteSet(J) /\ Cardinality(J) = Cardinality(P) - 1
  /\ Cardinality(a \cup b) = Cardinality(a) + Cardinality(b)
  /\ \A z \in Membs : PartOf(J, z) =
       IF PartOf(P, z) \in {a, b} THEN a \cup b ELSE PartOf(P, z)

LEMMA PartsJoined ==
  ASSUME NEW P, Disjoint(P), IsFiniteSet(P), NEW a \in P, NEW b \in P, a # b
  PROVE  IsJoin(Joined(P, a, b), P, a, b)
  <1> DEFINE J == Joined(P, a, b)
  <1>1. a \cap b = {} /\ a \cup b # {} /\ a \cup b \subseteq Membs
    BY DEF Disjoint
  <1>2. a \cup b \notin P \ {a, b}
    BY <1>1 DEF Disjoint
  <1>3. Disjoint(J)
    <2>1. \A e \in J : e # {} /\ e \subseteq Membs
      BY <1>1 DEF Disjoint, Joined
    <2>2. ASSUME NEW e \in J, NEW f \in J, e \cap f # {} PROVE e = f
      BY <2>2 DEF Disjoint, Joined
    <2>3. ASSUME NEW z \in Membs PROVE \E e \in J : z \in e
      <3>1. PICK e \in P : z \in e
        BY DEF Disjoint
      <3>2. CASE e \in {a, b}
        BY <3>1, <3>2 DEF Joined
      <3>3. CASE e \notin {a, b}
        BY <3>1, <3>3 DEF Joined
      <3> QED
        BY <3>2, <3>3
    <2> QED
      BY <2>1, <2>2, <2>3 DEF Disjoint
  <1>4. IsFiniteSet(J) /\ Cardinality(J) = Cardinality(P) - 1
    <2> DEFINE K == P \ {a}
               L == K \ {b}
    <2>1. IsFiniteSet(K) /\ Cardinality(K) = Cardinality(P) - 1
      BY FS_RemoveElement
    <2>2. b \in K
      OBVIOUS
    <2> HIDE DEF K
    <2>3. IsFiniteSet(L) /\ Cardinality(L) = Cardinality(K) - 1
      BY <2>1, <2>2, FS_RemoveElement
    <2>4. L = P \ {a, b}
      BY DEF K
    <2> HIDE DEF L
    <2>5. a \cup b \notin L
      BY <1>2, <2>4
    <2>6. IsFiniteSet(L \cup {a \cup b}) /\ Cardinality(L \cup {a \cup b}) = Cardinality(L) + 1
      BY <2>3, <2>5, FS_AddElement
    <2>7. Cardinality(P) \in Nat
      BY FS_CardinalityType
    <2>8. J = L \cup {a \cup b}
      BY <2>4 DEF Joined
    <2> QED
      BY <2>1, <2>3, <2>6, <2>7, <2>8
  <1>5. Cardinality(a \cup b) = Cardinality(a) + Cardinality(b)
    <2>1. /\ IsFiniteSet(a) /\ IsFiniteSet(b)
          /\ Cardinality(a) \in Nat /\ Cardinality(b) \in Nat
      BY PartFinite
    <2>2. Cardinality(a \cup b) = Cardinality(a) + Cardinality(b) - Cardinality(a \cap b)
      BY <2>1, FS_Union
    <2>3. Cardinality(a \cap b) = 0
      BY <1>1, FS_EmptySet
    <2> QED
      BY <2>1, <2>2, <2>3
  <1>6. ASSUME NEW z \in Membs
        PROVE  PartOf(J, z) = IF PartOf(P, z) \in {a, b} THEN a \cup b ELSE PartOf(P, z)
    <2> DEFINE e == IF PartOf(P, z) \in {a, b} THEN a \cup b ELSE PartOf(P, z)
    <2>1. PartOf(P, z) \in P /\ z \in PartOf(P, z)
      BY PartKnown
    <2>2. e \in J /\ z \in e
      BY <2>1 DEF Joined
    <2> HIDE DEF J, e
    <2>3. e = PartOf(J, z)
      BY <1>3, <2>2, PartKnown
    <2> QED
      BY <2>3 DEF e
  <1> HIDE DEF J
  <1>7. IsJoin(J, P, a, b)
    BY <1>3, <1>4, <1>5, <1>6 DEF IsJoin
  <1> QED
    BY <1>7 DEF J

\* The trees, their roots and depths, beside the groups: members are below one root
\* exactly if they are in one group, a root knows its size, and depth costs size.
Forest(r, d) ==
  /\ Rooted(grpid, r, d)
  /\ \A z, q \in Membs : r[z] = r[q] <=> PartOf(groups, z) = PartOf(groups, q)
  /\ \A z \in Membs : /\ gsz[r[z]] = Cardinality(PartOf(groups, z))
                      /\ Power2[d[z]] <= Cardinality(PartOf(groups, z))
UFInv ==
  /\ Disjoint(groups) /\ IsFiniteSet(groups) /\ ngrps = Cardinality(groups)
  /\ gsz \in [Membs -> Nat]
  /\ \E r, d : Forest(r, d)

\* The forest when root s is hung below root t.
MovedTo(r, s, t) == [z \in Membs |-> IF r[z] = s THEN t ELSE r[z]]
Deeper(d, r, s) == [z \in Membs |-> IF r[z] = s THEN d[z] + 1 ELSE d[z]]

LEMMA Hung ==
  ASSUME NEW g, NEW r, NEW d, Rooted(g, r, d), NEW s \in Membs, NEW t \in Membs,
         g[s] = s, g[t] = t, s # t,
         \A z \in Membs : r[z] = s => d[z] + 1 <= nmembs
  PROVE  Rooted([g EXCEPT ![s] = t], MovedTo(r, s, t), Deeper(d, r, s))
  <1> USE DEF Rooted
  <1> DEFINE h == [g EXCEPT ![s] = t]
             u == MovedTo(r, s, t)
             e == Deeper(d, r, s)
  <1>1. /\ h \in [Membs -> Membs] /\ h[s] = t /\ \A z \in Membs \ {s} : h[z] = g[z]
    OBVIOUS
  <1>2. /\ u \in [Membs -> Membs]
        /\ \A z \in Membs : u[z] = IF r[z] = s THEN t ELSE r[z]
    BY DEF MovedTo
  <1>3. /\ e \in [Membs -> 0..nmembs]
        /\ \A z \in Membs : e[z] = IF r[z] = s THEN d[z] + 1 ELSE d[z]
    <2>1. ASSUME NEW z \in Membs
          PROVE  (IF r[z] = s THEN d[z] + 1 ELSE d[z]) \in 0..nmembs
      <3>1. d[z] \in 0..nmembs
        OBVIOUS
      <3> QED
        BY <3>1, NmembsAssumption
    <2> QED
      BY <2>1 DEF Deeper
  <1>4. r[s] = s /\ d[s] = 0 /\ r[t] = t /\ d[t] = 0
    OBVIOUS
  <1> HIDE DEF h, u, e
  <1>5. ASSUME NEW z \in Membs PROVE h[u[z]] = u[z]
    <2>1. r[z] \in Membs /\ g[r[z]] = r[z]
      OBVIOUS
    <2> QED
      BY <1>1, <1>2, <2>1
  <1>6. ASSUME NEW z \in Membs, h[z] = z PROVE u[z] = z /\ e[z] = 0
    <2>1. z # s /\ g[z] = z
      BY <1>1, <1>6
    <2>2. r[z] = z /\ d[z] = 0
      BY <2>1
    <2> QED
      BY <1>2, <1>3, <2>1, <2>2
  <1>7. ASSUME NEW z \in Membs, h[z] # z PROVE u[z] = u[h[z]] /\ e[z] = e[h[z]] + 1
    <2>1. CASE z = s
      BY <1>1, <1>2, <1>3, <1>4, <2>1
    <2>2. CASE z # s
      <3>1. h[z] = g[z] /\ g[z] # z /\ g[z] \in Membs
        BY <1>1, <1>7, <2>2
      <3>2. r[z] = r[g[z]] /\ d[z] = d[g[z]] + 1 /\ d[g[z]] \in Nat
        BY <3>1
      <3> QED
        BY <1>2, <1>3, <3>1, <3>2
    <2> QED
      BY <2>1, <2>2
  <1>8. Rooted(h, u, e)
    BY <1>1, <1>2, <1>3, <1>5, <1>6, <1>7
  <1> QED
    BY <1>8 DEF h, u, e

LEMMA HangKeeps ==
  ASSUME UFInv, NEW r, NEW d, Forest(r, d), NEW x \in Membs, NEW y \in Membs, r[x] # r[y],
         gsz[r[x]] <= gsz[r[y]], Hang(r[x], r[y]), ngrps' = ngrps - 1,
         groups' = Joined(groups, PartOf(groups, x), PartOf(groups, y))
  PROVE  UFInv'
  <1> DEFINE s == r[x]
             t == r[y]
             A == PartOf(groups, x)
             B == PartOf(groups, y)
             u == MovedTo(r, s, t)
             e == Deeper(d, r, s)
  <1>1. /\ Disjoint(groups) /\ IsFiniteSet(groups) /\ ngrps = Cardinality(groups)
        /\ gsz \in [Membs -> Nat] /\ nmembs \in Nat
    BY NmembsAssumption DEF UFInv
  <1>2. /\ Rooted(grpid, r, d) /\ r \in [Membs -> Membs] /\ d \in [Membs -> 0..nmembs]
        /\ s \in Membs /\ t \in Membs /\ grpid[s] = s /\ grpid[t] = t /\ s # t
    BY DEF Forest, Rooted
  <1>3. A \in groups /\ B \in groups /\ A # B
    BY <1>1, PartKnown DEF Forest
  <1>4. \A z \in Membs :
          (r[z] = s <=> PartOf(groups, z) = A) /\ (r[z] = t <=> PartOf(groups, z) = B)
    BY DEF Forest
  <1>5. /\ gsz[s] = Cardinality(A) /\ gsz[t] = Cardinality(B)
        /\ Cardinality(A) \in Nat /\ Cardinality(B) \in Nat /\ Cardinality(A) <= Cardinality(B)
        /\ Cardinality(A) <= nmembs
    BY <1>1, <1>3, PartFinite DEF Forest
  <1>6. \A z \in Membs : /\ Power2[d[z]] <= Cardinality(PartOf(groups, z))
                         /\ gsz[r[z]] = Cardinality(PartOf(groups, z))
    BY DEF Forest
  <1>7. /\ grpid' = [grpid EXCEPT ![s] = t]
        /\ gsz' = [gsz EXCEPT ![t] = @ + gsz[s]]
        /\ groups' = Joined(groups, A, B)
    BY DEF Hang
  <1> HIDE DEF s, t, A, B
  <1>8. /\ Disjoint(groups') /\ IsFiniteSet(groups')
        /\ Cardinality(groups') = Cardinality(groups) - 1
        /\ Cardinality(A \cup B) = Cardinality(A) + Cardinality(B)
        /\ \A z \in Membs : PartOf(groups', z) =
             IF PartOf(groups, z) \in {A, B} THEN A \cup B ELSE PartOf(groups, z)
    <2>1. Disjoint(groups) /\ IsFiniteSet(groups) /\ A \in groups /\ B \in groups /\ A # B
      BY <1>1, <1>3
    <2>2. IsJoin(Joined(groups, A, B), groups, A, B)
      BY <2>1, PartsJoined
    <2>3. IsJoin(groups', groups, A, B)
      BY <1>7, <2>2
    <2> QED
      BY <2>3 DEF IsJoin
  <1>9. gsz' \in [Membs -> Nat] /\ gsz'[t] = Cardinality(A \cup B)
        /\ \A z \in Membs \ {t} : gsz'[z] = gsz[z]
    BY <1>1, <1>2, <1>5, <1>7, <1>8
  <1>10. ASSUME NEW z \in Membs, r[z] = s
         PROVE  /\ d[z] + 1 <= nmembs /\ d[z] \in Nat
                /\ Power2[d[z] + 1] <= Cardinality(A \cup B)
    <2>1. d[z] \in 0..nmembs /\ Power2[d[z]] <= Cardinality(A)
      BY <1>2, <1>4, <1>6, <1>10
    <2>2. d[z] < Power2[d[z]] /\ Power2[d[z]] \in Nat
      BY <2>1, Power2Grows, Power2Steps
    <2>3. d[z] + 1 \in 1..nmembs /\ (d[z] + 1) - 1 = d[z]
      BY <1>1, <1>5, <2>1, <2>2
    <2>4. Power2[d[z] + 1] = 2 * Power2[d[z]]
      BY <2>3, Power2Steps
    <2> QED
      BY <1>5, <1>8, <2>1, <2>2, <2>3, <2>4
  <1>11. Rooted(grpid', u, e)
    <2>1. \A z \in Membs : r[z] = s => d[z] + 1 <= nmembs
      BY <1>10
    <2>2. Rooted([grpid EXCEPT ![s] = t], u, e)
      BY <1>2, <2>1, Hung
    <2> HIDE DEF u, e
    <2> QED
      BY <1>7, <2>2
  <1>12. \A z \in Membs : u[z] = IF PartOf(groups, z) \in {A, B} THEN t ELSE r[z]
    BY <1>4 DEF MovedTo
  <1>13. \A z \in Membs : e[z] = IF r[z] = s THEN d[z] + 1 ELSE d[z]
    BY DEF Deeper
  <1> HIDE DEF u, e
  <1>14. ASSUME NEW z \in Membs, NEW q \in Membs
         PROVE  u[z] = u[q] <=> PartOf(groups', z) = PartOf(groups', q)
    <2>1. A \cup B \notin groups \ {A, B}
      BY <1>1, <1>3 DEF Disjoint
    <2>2. /\ PartOf(groups, z) \in groups /\ PartOf(groups, q) \in groups
          /\ r[z] = r[q] <=> PartOf(groups, z) = PartOf(groups, q)
      BY <1>1, PartKnown DEF Forest
    <2> QED
      BY <1>4, <1>8, <1>12, <2>1, <2>2
  <1>15. ASSUME NEW z \in Membs
         PROVE  /\ gsz'[u[z]] = Cardinality(PartOf(groups', z))
                /\ Power2[e[z]] <= Cardinality(PartOf(groups', z))
    <2>1. CASE PartOf(groups, z) \notin {A, B}
      <3>1. r[z] # s /\ r[z] # t /\ r[z] \in Membs
        BY <1>2, <1>4, <2>1
      <3> QED
        BY <1>6, <1>8, <1>9, <1>12, <1>13, <2>1, <3>1
    <2>2. CASE PartOf(groups, z) = A
      <3>1. r[z] = s
        BY <1>4, <2>2
      <3> QED
        BY <1>8, <1>9, <1>10, <1>12, <1>13, <2>2, <3>1
    <2>3. CASE PartOf(groups, z) = B /\ PartOf(groups, z) # A
      <3>1. r[z] = t /\ r[z] # s
        BY <1>4, <2>3
      <3>2. d[z] \in 0..nmembs /\ Power2[d[z]] \in Nat /\ Power2[d[z]] <= Cardinality(B)
        BY <1>2, <1>6, <2>3, Power2Steps
      <3> QED
        <4>1. PartOf(groups', z) = A \cup B /\ u[z] = t /\ e[z] = d[z]
          BY <1>8, <1>12, <1>13, <2>3, <3>1
        <4>2. Power2[d[z]] <= Cardinality(A \cup B)
          BY <1>5, <1>8, <3>2
        <4> QED
          BY <1>9, <4>1, <4>2
    <2> QED
      BY <2>1, <2>2, <2>3
  <1>16. Forest(u, e)'
    BY <1>11, <1>14, <1>15 DEF Forest
  <1> QED
    BY <1>1, <1>8, <1>9, <1>16 DEF UFInv

LEMMA UnionKeeps ==
  ASSUME UFInv, NEW z \in Membs, NEW q \in Membs, UF_union(z, q)
  PROVE  UFInv'
  <1>1. PICK r, d : Forest(r, d)
    BY DEF UFInv
  <1>2. UF_find(z) = r[z] /\ UF_find(q) = r[q]
    BY <1>1, WalkToRoot DEF Forest, UF_find, Walk, WalkIn
  <1>3. /\ r[z] # r[q] /\ ngrps' = ngrps - 1
        /\ IF gsz[r[z]] < gsz[r[q]] THEN Hang(r[z], r[q]) ELSE Hang(r[q], r[z])
        /\ groups' = Joined(groups, PartOf(groups, z), PartOf(groups, q))
    BY <1>2 DEF UF_union, Join, Joined, Group, PartOf
  <1>4. gsz[r[z]] \in Nat /\ gsz[r[q]] \in Nat
    BY <1>1 DEF Forest, Rooted, UFInv
  <1>5. CASE gsz[r[z]] < gsz[r[q]]
    <2>1. gsz[r[z]] <= gsz[r[q]] /\ Hang(r[z], r[q])
      BY <1>3, <1>4, <1>5
    <2> QED
      BY <1>1, <1>3, <2>1, HangKeeps
  <1>6. CASE ~(gsz[r[z]] < gsz[r[q]])
    <2>1. gsz[r[q]] <= gsz[r[z]] /\ Hang(r[q], r[z])
      BY <1>3, <1>4, <1>6
    <2>2. groups' = Joined(groups, PartOf(groups, q), PartOf(groups, z))
      BY <1>3 DEF Joined
    <2> QED
      BY <1>1, <1>3, <2>1, <2>2, HangKeeps
  <1> QED
    BY <1>5, <1>6

LEMMA UFInvInit == UF_init => UFInv
  <1> SUFFICES ASSUME UF_init PROVE UFInv
    OBVIOUS
  <1> DEFINE r == [z \in Membs |-> z]
             d == [z \in Membs |-> 0]
             f == [z \in Membs |-> {z}]
  <1>1. /\ grpid = [z \in Membs |-> z] /\ gsz = [z \in Membs |-> 1] /\ ngrps = nmembs
        /\ groups = {{z} : z \in Membs} /\ nmembs \in Nat
    BY NmembsAssumption DEF UF_init
  <1>2. Disjoint(groups)
    <2>1. \A a \in groups : \E z \in Membs : a = {z}
      BY <1>1
    <2>2. \A z \in Membs : {z} \in groups /\ z \in {z}
      BY <1>1
    <2>3. ASSUME NEW a \in groups, NEW b \in groups, a \cap b # {} PROVE a = b
      <3>1. PICK z \in Membs, q \in Membs : a = {z} /\ b = {q}
        BY <2>1
      <3> QED
        BY <2>3, <3>1
    <2>4. \A a \in groups : a # {} /\ a \subseteq Membs
      BY <2>1
    <2> QED
      BY <2>2, <2>3, <2>4 DEF Disjoint
  <1>3. IsFiniteSet(Membs) /\ Cardinality(Membs) = nmembs
    <2>1. /\ IsFiniteSet(0..nmembs - 1)
          /\ Cardinality(0..nmembs - 1) = IF 0 > nmembs - 1 THEN 0 ELSE nmembs - 1 - 0 + 1
      BY NmembsAssumption, FS_Interval
    <2> QED
      BY <2>1, NmembsAssumption DEF Membs
  <1>4. IsFiniteSet(groups) /\ Cardinality(groups) = nmembs
    <2>1. f \in Bijection(Membs, groups)
      <3>1. f \in [Membs -> groups] /\ \A z \in Membs : f[z] = {z}
        BY <1>1
      <3>2. \A g \in groups : \E z \in Membs : f[z] = g
        BY <1>1, <3>1
      <3> HIDE DEF f
      <3>3. f \in Injection(Membs, groups)
        <4>1. \A z, q \in Membs : f[z] = f[q] => z = q
          BY <3>1
        <4> QED
          BY <3>1, <4>1 DEF Injection, IsInjective
      <3>4. f \in Surjection(Membs, groups)
        BY <3>1, <3>2 DEF Surjection
      <3> QED
        BY <3>3, <3>4 DEF Bijection
    <2>2. ExistsBijection(Membs, groups)
      BY <2>1 DEF ExistsBijection
    <2> QED
      BY <1>3, <2>2, FS_Bijection
  <1>5. Rooted(grpid, r, d)
    BY <1>1 DEF Rooted
  <1>6. ASSUME NEW z \in Membs PROVE PartOf(groups, z) = {z}
    <2>1. {z} \in groups /\ z \in {z}
      BY <1>1
    <2> QED
      BY <1>2, <2>1, PartKnown
  <1>7. Power2[0] = 1 /\ \A z : Cardinality({z}) = 1
    BY Power2Steps, FS_Singleton
  <1>8. Forest(r, d)
    <2>1. \A z, q \in Membs : r[z] = r[q] <=> PartOf(groups, z) = PartOf(groups, q)
      BY <1>6
    <2>2. \A z \in Membs : /\ gsz[r[z]] = Cardinality(PartOf(groups, z))
                           /\ Power2[d[z]] <= Cardinality(PartOf(groups, z))
      <3> TAKE z \in Membs
      <3>1. Cardinality(PartOf(groups, z)) = 1
        BY <1>6, <1>7
      <3>2. gsz[r[z]] = 1 /\ d[z] = 0
        BY <1>1
      <3> QED
        BY <1>7, <3>1, <3>2
    <2> QED
      BY <1>5, <2>1, <2>2 DEF Forest
  <1>9. gsz \in [Membs -> Nat]
    BY <1>1
  <1> QED
    BY <1>1, <1>2, <1>4, <1>8, <1>9 DEF UFInv

\* Whatever unions are made of however many members, two are connected exactly if they
\* are in one group, the groups are counted, a root knows its group's size, and a find
\* takes no more steps than the size can be halved (wquickunion.c:22-37).
THEOREM UnionsAreExact == UFSpec => []UnionsExact
  <1>1. UFInv /\ [UFNext]_ufVars => UFInv'
    <2> SUFFICES ASSUME UFInv, [UFNext]_ufVars PROVE UFInv'
      OBVIOUS
    <2>1. CASE UNCHANGED ufVars
      BY <2>1 DEF ufVars, UFInv, Forest
    <2> QED
      BY <2>1, UnionKeeps DEF UFNext
  <1>2. ASSUME UFInv PROVE UnionsExact
    <2>1. PICK r, d : Forest(r, d)
      BY <1>2 DEF UFInv
    <2>2. ASSUME NEW z \in Membs
          PROVE  UF_find(z) = r[z] /\ \A k \in 0..nmembs : Walk(z)[k] # r[z] => k < d[z]
      BY <2>1, WalkToRoot DEF Forest, UF_find, Walk, WalkIn
    <2>3. \A z \in Membs : Group(z) = PartOf(groups, z)
      BY DEF Group, PartOf
    <2>4. \A z, q \in Membs : UF_connected(z, q) <=> Group(z) = Group(q)
      BY <2>1, <2>2, <2>3 DEF Forest, UF_connected
    <2>5. ASSUME NEW z \in Membs, NEW k \in 0..nmembs - 1, Walk(z)[k] # UF_find(z)
          PROVE  Power2[k + 1] <= Cardinality(Group(z))
      <3>1. d[z] \in 0..nmembs /\ nmembs \in Nat
        BY <2>1, NmembsAssumption DEF Forest, Rooted
      <3>2. k \in 0..nmembs /\ k + 1 \in 0..nmembs /\ k < d[z]
        BY <2>2, <2>5, <3>1
      <3>3. k + 1 <= d[z]
        BY <3>1, <3>2
      <3>4. Power2[k + 1] <= Power2[d[z]] /\ Power2[k + 1] \in Nat /\ Power2[d[z]] \in Nat
        BY <3>1, <3>2, <3>3, Power2Grows, Power2Steps
      <3>5. Power2[d[z]] <= Cardinality(Group(z))
        BY <2>1, <2>3 DEF Forest
      <3>6. Cardinality(Group(z)) \in Nat
        BY <1>2, <2>3, PartKnown, PartFinite DEF UFInv
      <3> QED
        BY <3>4, <3>5, <3>6
    <2>6. \A z \in Membs : gsz[UF_find(z)] = Cardinality(Group(z))
      BY <2>1, <2>2, <2>3 DEF Forest
    <2> QED
      BY <1>2, <2>4, <2>5, <2>6 DEF UFInv, UnionsExact
  <1> QED
    BY UFInvInit, <1>1, <1>2, PTL DEF UFSpec
=============================================================================
