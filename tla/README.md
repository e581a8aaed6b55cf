# Daily-C in TLA+

Daily-C is a collection of small C programs.  A few are real systems with processes,
threads, sockets and a database; others are data structures and algorithms that
promise something to their callers; the rest are filters and one-file demonstrations.
This directory models the first two kinds, checks the models with TLC and proves the
central facts about them with TLAPS.

To run a check: `tlc -config <cfg> <module>`; to check proofs: `tlapm <module>`.

## 1. Inventory

### Tank game server (`src/database/tank-game-model`)

A process per connection (`server.c`) serves requests such as `register`, `summon`
or `get_battle_data`; `parse_server` calls one handler of `sql.c`, which issues a
sequence of MySQL statements and answers.

* State: table `teams` (status, rival, invitation, counters) and table `users`
  (status, role, bullet, place), shared by all processes and by nothing else; the
  position of each process in its handler; the socket.
* Operations: eighteen services and `logout`.
* Interaction: only through the tables.  No statement runs in a transaction and no
  table has a key, so handlers of different connections interleave between any two
  statements, and a statement that fails leaves the first half of its handler.
* Hard: check-then-insert (`add_team`), read-modify-write (`update_times`),
  collect-then-write (`is_all_online`, `pack_users_data`), a protocol over several
  rows (`set_rival`, `set_invitation_status`), missing rows, a lost database
  connection, clients that vanish, messages cut or joined by TCP.
* Correct when: members always have their team; an answer `200` means what it says;
  two teams name each other as rivals; shots are reported once; counters agree.

The listener, `main` of `server.c`, accepts and forks.  Its state is the descriptors and
children of the parent; it closes no accepted descriptor and waits for no child, and
each child inherits copies of all of them, so both run out.

### HTTP server (`src/net/webserv`)

A thread waits in `select` for new connections and for clients that have sent
something; each of the latter gets a thread, which reads, answers and closes.

* State: the descriptor table of the process, the `select` set, the slots `clis` with
  `maxi` and `maxfd`, the threads, each client's connection.
* Interaction: both kinds of thread open and close descriptors of the one table.
* Hard: a descriptor closed by a thread is reused by `accept` while the main thread
  still works with numbers; `accept`, `open` and `pthread_create` fail when their
  resource is used up; clients leave at any point; a receive timeout of 1us.
* Correct when: descriptors belong to one owner; the `select` count is used up
  exactly; nothing is lost but for a stated reason; who sends is answered.

### Port scanner (`src/thread/portscanner`)

`main` cuts the range of ports into segments, starts a thread for each, joins them in
order and prints what they found.

* State: each thread's port and list of results; the one static buffer of
  `getservbyport`; the number of sockets open.
* Hard: the arithmetic of the segments; sockets and threads that cannot be created;
  the shared buffer; the order of the report.
* Correct when: each port is scanned once, and the report is sorted and complete.

### Stack and queue (`src/adt/stack`, `src/algorithm/queue`)

An array stack with an optional validator, which can also be reset in place and have
its pointer moved; and a queue made of two such stacks.

* State: the array, pointer and counter, the validator's memory; the two stacks.
* Hard: pointer and counter are moved apart by four operations; signed against
  unsigned comparison; a validator that remembers the last accepted value and not the
  top; elements moved back and forth with the result of `Stack_push` ignored.
* Correct when: the stack is a bounded stack, the queue a first-in first-out queue.

### Allocator (`src/algorithm/allocator`)

A first-fit allocator over `sbrk`: free blocks form a circular list through their own
headers, in the order of their addresses; a freed block is joined to its neighbours.

* State: the headers' pointers and sizes, `freep` (where the last call ended), the break.
* Interaction: others move the break too, so what `sbrk` gives may not be contiguous.
* Hard: loops over a circular list that start anywhere; joining on both sides; memory
  that is joined to a block the search has already passed; `sbrk` that fails.
* Correct when: every unit of memory is in exactly one block, blocks are large enough,
  the list stays ordered and joined, and the loops end.

### Threads that share memory (`src/thread/mutex`, `src/thread/var`)

Workers that count under a lock of their own making, and threads that count without one.

* State: the lock, the count, each thread's registers.
* Hard: the compare-and-swap is three statements and not atomic, so two workers may be
  inside at once; an increment is a load and a store.
* Correct when: nothing is wrong as long as no two workers have met; the lock is never
  left taken, so that the program ends; of the unlocked increments some survive.

### Page fetchers (`src/net/fetch`, `src/thread/fetchall`)

`parse_url` takes a url apart; `fetchall` starts a thread per url, which looks the host
up, connects, reads the page and ends with a status that `main` reports.

* State: the threads, their sockets, the one static buffer of `gethostbyname`.
* Hard: the shared buffer; threads and sockets that cannot be made; every failure ends
  a thread at another place.
* Correct when: a page is the host's of its url; each thread is reported once; sockets
  are given back; urls are taken apart into the parts they were made of.

### Source highlighter (`src/graphic/highlight`)

`highlight` looks at one character and calls the function of what begins there, which
reads on to its end and may push a character back.

* State: the position in the file, the colour, whether an `include` is being read.
* Hard: functions hand characters to each other by pushing them back, or forget to.
* Correct when: what is printed is the file; no colour is left on; comments end where
  they end; the program ends.

### Data structures and algorithms

Array list (`adt/arraylist`), weighted quick union (`algorithm/unionfind/wquickunion`),
heap sort and tree sort (`algorithm/heapsort`, `algorithm/treesort`), longest repeated
substring (`algorithm/comsubstr`), CRC-8 twice (`checksum/crc`), packets packed by a
format (`net/packet`).  Sequential; hard are indices at either end, ranges that are moved,
ties, and conversions between signed and unsigned widths.

### Everything else

Logging, scripts typed by hand, text filters, graphics, `orion`, bit tricks and the
language snippets are not modelled; section 8 says why.  `PROJECT.json` lists every part.

## 2. Modules

| module | what it is |
|---|---|
| `TankServer` | tables, sessions, every service as the list of its statements |
| `TankMatch` | the same with clients that follow the invitation protocol |
| `TankBattle` | the same with history variables that count shots and reports |
| `Listener` | the listener of the tank server: accept, fork, descriptors, children |
| `WebServ` | the HTTP server |
| `PortScanner` | the port scanner |
| `Fetchall`, `ParseUrl` | the parallel fetcher, and the function that takes urls apart |
| `Mux`, `Counter` | the home-made lock, and the unlocked counter |
| `LIFO`, `FIFO` | the promise of a stack and of a queue |
| `Stack` | the array stack; implements `LIFO` |
| `Queue` | two `LIFO`s; implements `FIFO` |
| `Pool` | the promise of an allocator |
| `Allocator` | the first-fit allocator; implements `Pool` |
| `Highlight` | the source highlighter |
| `ArrayList`, `UnionFind` | two data structures, each beside what its callers think of it |
| `HeapSort`, `TreeSort`, `ComSubstr`, `Crc`, `Packet` | pure functions |
| `PureFunctions` | calls of the functions that keep nothing (those of `ParseUrl`, `ComSubstr`, `Crc`, `Packet`), and what each is for |
| `Algorithms` | the same with the two sorts |
| `TankServerProofs`, `TankBattleProofs`, `TankMatchProofs`, `WebServProofs`, `PortScannerProofs`, `LibraryProofs`, `AllocatorProofs`, `ProgramsProofs` | theorems (section 6); `LibraryProofs` is about `Stack` and `PureFunctions`, `ProgramsProofs` is about `Fetchall`, `Mux`, `Counter`, `Listener`, `ArrayList`, `Queue`, `Highlight` and `UnionFind` |
| `MCPrograms` | the programs that stand alone, composed: one of them runs, the others do not move |
| other `MC...` | values of the constants for TLC |

Definitions called `f_Word` beside a definition `f` are slips: versions of `f` with a
plausible mistake, which show that the properties can fail.

### TankServer

A handler of `sql.c` is a fixed sequence of statements that stops at the first failure
(`QUERY_CHECK`).  `Script(f, nm)` is that sequence for request `f`; `nm` are the members'
names that `retrieve_members_name` has read by then.  A session is a position in a
script, and there is one action per kind of statement, each executed atomically
because MySQL runs a single statement so.

| code | model |
|---|---|
| `accept` and `fork` | `Connect` |
| `recv` and `parse_fields` | `Receive`, `ReceiveGarbled` (wrong field count) |
| a query that fails | `LoseDb`, then `QueryFails`: the handler gives up, earlier writes stay |
| `row[i]` of a missing row | `RowMissing`: the process faults |
| `select` | `NoSuchTeam` ... `PackUserData`; the FIRST row is used, so rows keep their order |
| `insert`, `update` | `InsertTeam` ... `WriteUser`; an update changes every row that matches |
| `team="x"`, `binary name="y"` | `Fold`: the first comparison ignores the case |
| `RESP` | part of the last statement's step, since no shared state is involved |

Abstracted: passwords and titles are one field; levels are constant; positions are
named and not coordinates; buffers are large enough.

### TankMatch and TankBattle

The game's clients are not in the repository.  `TankMatch` states what its captains do
between requests (`MaySend`): answer only an invitation they have read, go on to the
battle once they have accepted (`Settled`: none but `BattleServices` until the match is
over), invite again only after reading `EMPTY`.  Without that discipline any two invitations cross.
`ChallengesApart`, `OneCaptain` and `Unpaired` are statements about its constants, which the
theorems on it suppose (section 6).
`TankBattle` adds two counters per member to `TankServer` and changes nothing else.

### Listener

`main` alternates between `accept` and `fork`; a child holds copies of every descriptor the
parent has, until it ends.  `MaxFds` and `MaxProcs` are the limits of the system; a child
that has ended stays a process because nobody waits for it.  `accept` may fail at any
time, which ends `main`.  What a child does for its
client is `TankServer`'s.

### WebServ

`Select`, `AcceptFails`, `Accept` and `Dispatch` are the steps of `openserver`; the scan
over the slots is one `Dispatch` for each client that is ready.  `Provserv(t)` has one
action for each system call of a serving thread.  A request is two pieces that may
arrive apart, so that the receive timeout can cut it (`Outcomes` gives what parsing makes
of a cut one).  `Write` is `write(2)` to a client that may have closed or reset: a reset, an
error or `SIGPIPE`, which ends the process.

### PortScanner

`Create`, `Join` and `JoinFailed` are `main`; `Socket`, `Connect`, `Lookup`, `Strdup` and `Exit`
are a round of `scan`.  `F_SETFD` with `O_NONBLOCK` sets nothing, so `connect` blocks and the
branch for `EINPROGRESS` (tcp.c:100-128) is never entered.  `servent` is the static buffer
of `getservbyport`; `Copies(i)` are the names that `strdup` may find in it.

### Fetchall and ParseUrl

`CreateFetch`, `JoinFetch` and `JoinNobody` are the two loops of `main`.  `pthread_create`
fails with a positive number and `main` looks for a negative one, so a thread that was not
created goes unnoticed until it is joined.  `Fetch(i)` has one action per system call, with
every way it can fail.  `hostent` is the static buffer; `CopyAddr` may find in it what
another thread's lookup has left or is about to leave, or half of either (`Nowhere`).  A url is a sequence of separators and names.

### Mux and Counter

Every load and store of a shared variable is a step.  `Mux` adds `overlapped`, which
remembers that two workers have been inside at once.  In both programs `pthread_create` may
fail and nobody looks (mux.c:14, var.c:15): the thread is never there, and joining it ends
the process or returns.

### Stack, Queue, Allocator

`Stack` has one action per function of `stack.c`; `data` and `top` are separate variables as
in the structure.  `Queue` uses two instances of `LIFO`; each round of its loops is a step.
In `Allocator` an address counts headers; `next` and `size` are the two fields of the header
at each address, stale ones included.  `Alloc_malloc`, `Advance`, `Take` and `Grow` are the
call, the rounds and the ends of its loop; `Alloc_free`, `Walk` and `Link` those of the other.
`Grow` calls `Sbrk`, which sets up the insertion of the new block as `morecore` does by calling
`Alloc_free`.

### Highlight, ArrayList, UnionFind and the pure functions

`Highlight` reads one character per step; a run of letters is one character, since no
function looks inside it except to compare it with `include` and the keywords.  A colour
belongs to each character printed.  `ArrayList` and `UnionFind` carry a history variable
(`kept`, `groups`) with the list or the partition a caller thinks of; every operation
changes both.  `Memmove` writes where it is told to: an overrun shows as a cell outside
`0..cap-1`.  `PureFunctions` makes one call of one function on one input and compares the
result with its definition: the parts of the url, the value that was packed, the other
implementation of the same checksum, every repeated substring.  `Algorithms` adds the two
sorts (both order; only the tree sort keeps every value); they are recursive operators, which the
prover cannot read, and stand apart for that reason.  The 128 bytes of `word`'s buffer (c.c:235) and
the 1024 of `maxcomsubstr`'s (maxcomsubstr.c:23) are taken to be enough.

## 3. Runs

| run | instance | shows |
|---|---|---|
| `tank_register` | 3 connections, 2 teams to register, one of them twice, empty tables, polls, logins and a recorded battle meanwhile, connection 1 may lose the database | `UsersHaveTeam`, `TeamNamesUnique`, `OkMeansComplete`; `Answered` under fairness |
| `tank_battle` | 3 connections, teams "A" and "a" of two members, connection 1 may lose the database; two scenes: the teams take the field, record and leave, or one client polls while two shoot | `WinsWithinGames`, `ShotsReportedOnce`, `MembersBackBeforeReopened`, `UpdatesStayInTeam` |
| `tank_lost_shot` | a shooter and a poll | the violation of section 7 |
| `tank_match` | a challenger (5 messages), a captain (5) and a soldier (1) | `RivalsMutualAtRest`, `AcceptMeansPaired` |
| `web_exhausted` | 3 clients, 3 descriptors, 2 threads | `NobodyOverlooked`, `ThreadsOwnTheirFd`, `EndsWell` |
| `web_answers` | 2 clients, one of which may leave; descriptors and threads suffice | `Responds` under fairness |
| `stack_calls` | 3 cells, 3 values, every validator | `ContentsValidated`, `Implements` |
| `scan_ports` | 7 ports from 1, 3 threads asked (4 made), 2 sockets, one thread may not start | `VisitedOnce`, `ReportIsComplete`, `Finishes` |
| `scan_shifted` | 4 ports from 3, 2 threads | the violation of section 7 |
| `alloc_blocks` | 9 units, 4 allocations of 1 to 4 headers, `NALLOC` = 3, holes of one unit | `HeapSound`, `GrowsOnlyWhenNeeded`, `Implements`, `CallsReturn` |
| `programs_run` | each stand-alone program in turn (below) | the properties below, and `ProgramsEnd` under fairness |
| `packet_signed` | formats of up to 2 letters over values at the limits of each width | the violation of section 7 |

`programs_run` chooses one program in its initial state.

| program | instance | property |
|---|---|---|
| fetcher | 3 urls, one of which does not resolve, 2 sockets, one thread may not start | `OneHasOwnHost`, `FetchEndsWell` |
| lock | 3 workers | `CountsExactUnlessOverlapped` |
| counter | 3 threads of 2 increments | `TotalAtLeastTwo` |
| highlighter | every text of 3 characters; of 5 quotes, escapes and lines; of 5 around directives; of 7 slashes, stars and letters | `Highlighted` |
| unions | 5 members, any unions | `UnionsExact` |
| array list | 4 cells, 3 elements, any calls with any index | `ArrayHoldsList` |
| listener | 4 clients, 3 descriptors, 2 processes | `ServedWhileOpen`, `ClientsAreServed` |
| queue | stacks of 4, 3 values | `OneSideHoldsAll`, `ImplementsFIFO` |
| functions | every array of up to 4 values of 4 (5 of 3) with each order; urls of every combination of parts; formats of up to 2 letters over values at the limits of each width; all one-byte messages and some longer; strings of up to 6 | `SortsOrder`, `UrlParsed`, `PacketRoundTrip`, `CrcAgreesAndDetects`, `LongestRepeat` |

Deadlock is not checked: every program here may stop (clients send a bounded number of
messages, connections end, the queue's callers may cease).

## 4. Bounds and why they are enough

* `MaxRequests` bounds the messages of a session.  A hazard of `TankServer` needs one
  request of each of two or three sessions in an unlucky order, and the bounds allow one
  or two each; the invitation protocol gets five on each side, for two rounds of refusal and a request after the
  acceptance.
* `NMembers` is 2 for 4 in the code: the first member (captain) and the rest are the only
  distinction.  The theorems hold for any number.
* Teams "A" and "a" differ in case only, which is the interesting case of `Fold`.
* `NFds` = 3 in `web_exhausted`: with the listener there are two for three clients and the
  files, so `accept` and `open` both fail on some path; `MaxThreads` = 2 makes creation fail.
  The theorems hold for any sizes with `NFds` at most `NSlots`, the default limit of the system.
* `Cap` = 4 of the queue allows moves of three elements in both directions; `Cap` = 3 in
  `stack_calls` has a first, a middle and a last cell.
* `alloc_blocks`: nine units are three grants of three, so that blocks are joined below, above,
  on both sides and not at all, and `sbrk` fails; a request of four headers exceeds `NALLOC`.
  `MaxCalls` bounds the allocations; stale headers make longer runs large without new cases.
* `scan_ports`: 7 over 3 leaves a remainder, which gives the extra thread, and fewer sockets
  than threads makes `socket` fail.
* `programs_run`: three threads are what it takes for one to be overtaken by two; two sockets
  for three urls make `socket` fail; the listener meets both limits; `MaxPieces` = 1 tells a
  page from an empty one; texts of seven hold a comment with anything before and after it.
  Five members make a tree of depth two and leave one to join it.  Arrays of
  five are where an element sinks two levels; larger ones meet no new comparison.

## 5. Fairness

* `TankServer`: `WF(Work(s))`.  A process that is not blocked in `recv` is scheduled by the
  kernel, and MySQL answers a query or reports an error.  Nothing is assumed of clients.
* `WebServ`: `WF` of the main thread and of every serving thread, for the same reason.
* the queue, `Allocator`: `WF` of the steps inside a call: a function that is called runs to its end.
* `PortScanner`: `WF` of `main` and of each thread.  A blocking `connect` ends at the latest by
  the kernel's timeout.
* `MCPrograms`: `WF` of `main` and of each thread of the fetcher, the workers and the counters,
  of the highlighter's one thread, and of the listener's `main` as far as it is not waiting for
  somebody to call (`ListenerMain`).  Clients need not call, and children need not end.  A read of the fetcher has a timeout of its own
  (fetchall.c:169-189).  A spinning worker is not assumed ever to find the lock free.

## 6. Proofs

All theorems hold for every value of the constants that satisfies the named `ASSUME`s of
the modules, which state what the code checks of its input, what its tables start with or
that names of different things differ.

`TankServerProofs`
* `TypeCorrect`: `Spec => []TypeOK`.  `TypeOK` is not inductive: an action uses the statement at
  `step[s]` of the script, so the invariant adds `Control` (a serving session has a request
  and stands inside its script).  The lemmas on scripts say that each is not empty and
  consists of well-formed statements; after that there is one lemma per action.
* `MembersHaveTeams`: `Spec => []UsersHaveTeam`.  It rests on one more fact: a session that is about
  to insert a member stands behind `insert_team` in its script, and its team's row is
  therefore there; no statement deletes a row or changes its name.
* `NamesUnique`: `Spec => []TeamNamesUnique`.  Not inductive by itself: between the select and the
  insert nothing in the tables says that the answer still holds.  `NamesInv` adds that a
  handler about to insert a team of its connection alone still finds no such team.
* `OkIsComplete`: `Spec => []OkMeansComplete`.  `CompleteInv` counts: a handler at its statement
  `k` has added the first `k - 3` members of the roster, and an answer `200` comes after the last.
* `WinsBounded`: `Spec => []WinsWithinGames`.  `WinsInv` says what a handler between its four
  statements knows of the first row of its team: the number it read is still there, and after
  the first update there is one battle more than victories.  `OtherCounts` says that no other
  statement touches that row's counters.

`TankBattleProofs`.  These are about rows the handlers select by a name that ignores case and
by members that several connections play, so each theorem names what it supposes of the
clients and of the first rows; `BattleAssumption` in `MCTankBattle` has TLC confirm that its
instance is one of those.
* `StaysInTeam`: `Spec => UpdatesStayInTeam`.  `MembersApart` is how the tables are filled
  (sql/init_table.sql): two teams of one case-insensitive name share no member.  `ListedInv`
  traces every member in a row, a roster or the names a handler has read back to where it
  was first mentioned; then an update that reached the wrong team would need a member of both.
* `ShotsReported`: `BattleSpec => []ShotsReportedOnce`, with one polling connection (`SolePoller`)
  and no shot in the first rows.  The property allows for a poll that has read the bullet at
  some time; `ShotsInv` says more: its very next statement stores `FIRED`, or its database is
  gone (`Reporting`).  It follows that when the one poller reads `LOADED` anew, a load has not
  been shown yet.
* `MembersBack`: `Spec => MembersBackBeforeReopened`, with one captain per team (`SoleCaptain`; sql.h
  marks these calls "captain only"), one registrar, and each first row on the roster of its
  team once (`MembersOnce`).  `BackInv` has three parts: `RosterInv` (each member of a team is on
  its roster), `TwinsInv` (two rows of one member have a role together, since an update
  writes both and a select reads the first) and `CheckInv` (the roster `is_all_online` goes
  through is its team's, and nobody it has passed has a role).  Only `summon` gives a role,
  and the captain's connection is busy with the check.

`TankMatchProofs`.  The pairing of two teams is spread over two rows that two captains write
in separate statements, and nothing in the server keeps a third captain out.  The theorems
therefore suppose how the game is played, in three statements about the clients' lists and
the first rows, which `MatchAssumption` in `MCTankMatch` has TLC confirm of its instance.
`ChallengesApart`: a team challenges or is challenged, and has one opponent, which is there
from the start; no result is recorded while invitations go on (section 7 says what a late
record does).  `OneCaptain`: the calls marked "captain only" (sql.h) for a team come from one
connection.  `Unpaired`: no team starts with a rival or an invitation, `"NULL"` is no team's
name, and no database is lost half way through an answer.  How many teams, connections and
messages there are, and what all others ask meanwhile, is left open.
* `RivalsAgree`: `MatchSpec => []RivalsMutualAtRest`, and `AcceptPairs`: `MatchSpec => []AcceptMeansPaired`,
  from one inductive invariant, `MatchInv`.  It speaks of each team's rival and invitation and of
  the phase of the exchange each captain is in (`PhaseOf`), also between requests: what a client
  has been told is a promise that the rows still have to keep when it sends its next message.
  `RivalsInv`: a team that names its rival without being named back has a captain between
  two statements of `send_invitation` or of a refusal; `EMPTY` in a challenger's row means that
  nobody is about to answer it.  `InvitingInv` and `AnsweringInv`: what the rows say at each phase;
  no two captains face the same challenger.  `AcceptInv`: what an ACCEPT in a row, or in what a
  challenger was told, stands for.
* One lemma for each move (`NamesRival`, `NamesBack`, `Waits`, `AcceptsOwn`, `AcceptsBoth`, `RefusesOwn`,
  `RefusesBoth`, `Releases`, `Leaves`, `IsFree`, `Hears`, `IsNamed`, `BeginsInvite`, `BeginsAnswer`) shows that it
  keeps `MatchInv`, whatever made it.  The second half shows that every step of the server and of its
  clients is one of these moves or touches nothing of them: `Captains` says who may be where,
  `RowsInv` that the entrants' rows stay the first of their names, and `OthersSetNothing` that no
  other service writes a rival or an invitation.

`WebServProofs`
* `NoneOverlooked`: `Spec => []NobodyOverlooked`, and `OneOwner`: `Spec => []ThreadsOwnTheirFd`, from
  one inductive invariant.  `WebInv` says that the connections are told apart (`ConnsOnce`: one
  is in the table once, or once in the backlog, or has not begun), what each thread holds and
  that no two hold the same (`ThreadsHold`), and that what `select` found is a set the round
  still counts (`Round`).  The steps of all serving threads have one shape (`OwnStep`: a
  thread changes its own record, at most one entry of the table, and its own connection), so
  that the invariant is shown for the shape once.  `SelectCounts` shows with a bijection
  between slots and descriptors that `nready` is the number of slots the scan will find.
* `EveryEndIsRight`: `Spec => []EndsWell`.  On top of `WebInv`, `EndInv` says where a connection
  without an owner comes from (`LostInv`) and, for each place a serving thread can be at, what
  its client has been sent so far (`Answering`).  That `accept` always finds a slot is a
  pigeonhole argument over the two tables (`SlotForEveryFd`).

`LibraryProofs`: the stack
* `PointerFollows`: `Spec => []DataFollowsTop`: the pointer and the counter agree whatever is called,
  although `Stack_reset` and the moves change them apart.  With `TypeOK` it is inductive.
* `IsBoundedStack`: `Spec => L!Spec`.  Each function maps to one step of `LIFO` or to a stutter.
* `Validated`: `Spec => []ContentsValidated`.  For the order validators the invariant compares all
  pairs of the contents, and each with the validator's memory.

`LibraryProofs`: the functions.  `PureSpec`, which stands in this module, makes one call; `PureInv`
says that an answered call has the result of its function.  What remains is a lemma about
the function for every input that `AddressesAssumption`, `UlongsAssumption` and `StringsAssumption`
allow (an empty string is left out: `crc8` and `maxcomsubstr` read past it).  Loops of the code are
recursive functions of the model; that they have values and what these are is had from a
least counterexample (`ByStep`, `CanBeTaken`), without the library's induction.
* `UrlIsParsed`: `PureSpec => []UrlParsed`.  The lemmas follow the first separator of each kind through
  the concatenation of the parts (`FirstIs`, `BeginsWith`): where a scheme, a port and a query begin,
  and that nothing earlier is taken for one.
* `PacketsComeBack`: `PureSpec => []PacketRoundTrip`, for every format and all values; of a long with its
  32nd bit set it says only that it uses four bytes and does not disturb the others (section 7).
  One letter is packed and unpacked by arithmetic on bytes (`OnePacked`); `PackRun` counts the bytes behind each
  letter, and `unpack` reads the letter at the very place where `pack` wrote it (`UnpackedSteps`).
* `ChecksumsDetect`: `PureSpec => []CrcAgreesAndDetects`, for messages of any length.  A row of the
  table of `crc8-2.c` is four rounds of the bit loop of `crc8-1.c` (`NibbleIsFourBits`), so the two agree
  (`ChecksumsAgree`).  A round loses nothing: if the states differ or the bits read do, but
  not both, the states afterwards differ (`NextBitTells`), so one wrong bit is never made up for (`OneBitTells`).
* `LongestIsFound`: `PureSpec => []LongestRepeat`, for strings of any length.  `UpToStr` is a total order
  (`UpToTransitive`, `UpToTotal`), each suffix has one place in it (`Placed`), and a string between two
  others begins at least as much like the first as the last does (`Between`): so when two suffixes
  agree a long way, the first of them and its neighbour do.

`PortScannerProofs`
* `SegmentBounds`, `SegmentsApart`, `SegmentsCover`: the arithmetic of the segments.  They lie
  in the range and never overlap, for any range; they cover it when it starts at 1.
* `ScannedOnce`: `Spec => []VisitedOnce`.  The inductive invariant says where each thread's port is
  in relation to its segment (`Place`) and that `visits` counts exactly the ports that
  some thread has passed (`Counted`).
* `ScannedAll`: with `min_port = 1`, `Spec => []AllScanned`; `TypeCorrect` as a by-product.
* `Complete`: `Spec => []ReportIsComplete`.  `ReportInv` says that the list of a thread holds in order
  the ports it has done with that are open, named and got a socket, and that what `main`
  has printed is the lists of the threads it has joined, one behind the other.

`AllocatorProofs`
* `HeapIsSound`: `Spec => []HeapSound`; `GrowsWhenNeeded`: `Spec => GrowsOnlyWhenNeeded`; `IsPool`:
  `Spec => Implements`.  All three rest on `HeapInv`.  `HeapSound` speaks of the units of the heap and
  of the headers reached from `base`, and says nothing between the two halves of an
  insertion; `HeapInv` replaces that by facts a step changes in one place.  `Ring(next, FreeList)`:
  each free header points to the next higher one, the last to `base`.  `Parts(Heads, size, got)`: the
  free blocks, those handed out and the one being inserted tile the memory granted.
  `Joined`: no free block touches the next.  `Searching`: every header behind `freep` and before `p`
  (`LookedAt`) is too small, which is why coming back to `freep` means that none will do.
* That the headers reached from `base` are the ring is `RingIsReached`.  The chain is a recursive
  function, and the library's induction cannot be used, so its values are had from a least
  counterexample (`WalkExists`, `ChainSteps`).  After that each step is one change of the ring and one
  of the parts: `RingInsert`, `RingRemove`, `PartsJoin`, `PartsSplit`, `PartsExtend`.

`ProgramsProofs`: the fetcher
* `LastHasOwnHost`: `FetchSpec => []OneHasOwnHost`.  At any time one of those that have asked is still to
  look up, or is to copy its own name from the buffer, or has copied its own (`OwnSomewhere`,
  a part of `BufferInv`): a lookup that takes this from one thread gives it to its own.  A
  copy may be torn only while another thread is still to look up.
* `EndsWell`: `main` has reported exactly the threads it has passed, each with what it exited
  with (`Reports`); an open socket behind a thread that has ended means that it read nothing.

The lock and the counter
* `ExactUntilOverlapped`: while nobody has overlapped, one worker is inside at most and the count is
  ahead of the numbers printed by the one about to be printed (`CountFollowsShown`).
* `NeverLeftTaken`: the lock is 1 only while a worker is inside, in every interleaving: a worker's
  release may open it too early, and never leaves it shut.
* `LeastTotal`: the last store of the last thread adds to what the thread found after a store of
  its own, so it is two at least.

The listener
* `KeepsServed`: `ListenerSpec => []ServedWhileOpen`.  A fork copies the parent's descriptors, the new
  client's among them, so a child begins with its own; it loses it only by its own end, and
  whoever else holds it is a process that has not ended.

The array list
* `HoldsList`: `ListSpec => []ArrayHoldsList`.  `ListInv` equates cell `i - 1` of the array with element `i`
  of the list a caller thinks of; each range that is moved is one lemma (`Memmoved`) beside
  what the same operation does to the sequence (`Inserted`, `Removed`).

The queue of two stacks
* `OneSide`: `Spec => []OneSideHoldsAll`, with `TypeOK` inductive as it stands.
* `QueueIsFIFO`: `Spec => F!Spec`.  A round of a loop moves the boundary between the stacks and
  leaves `s1 \o Backwards(s2)` alone (lemma `MoveKeepsQueue`): a stutter of the abstract queue.

The source highlighter
* `IsHighlighted`: `HighlightSpec => []Highlighted`, for every set of texts.  A function either prints
  the next character, looks at it and pushes it back, reads it into the word, or prints the
  word (`Prints`, `Peeks`, `ReadsWord`, `PrintsWord`); each step of the program is one of these.
  `TextInv`: what is printed is the text but for the word in `wbuf`, and the comment's colour is on
  in `comment` only.  `CommentsInv` says where each comment that was opened stands: just begun,
  still going on with no end behind it, closed at its first end, or in a text that ends first.

Union find
* `UnionsAreExact`: `UFSpec => []UnionsExact`.  The trees are spoken of through a root and a depth for
  each member (`Forest`), which a union changes in one way only (`HangKeeps`): a depth grows by
  one where the group at least doubles.  `UF_find` is a walk of `nmembs` steps, a recursive
  function; that it ends at the root is had from a least counterexample (`Stepwise`,
  `WalkToRoot`).  `Power2` stands for `2^k`, which the provers do not know.

Left to TLC:
* every liveness property (`Answered`, `Responds`, `CallsReturn`, `Finishes`, `ProgramsEnd`,
  `ClientsAreServed`), since the
  prover does not reason about fairness;
* `SortsOrder`: the two sorts are recursive operators, and the prover loses its arithmetic in every
  module that reaches one.

## 7. Findings

* `tank_lost_shot`.  `pack_users_data` selects the bullet and stores `FIRED` in a second
  statement (sql.c:277-282).  A shot loaded in between is erased and no poll reports it,
  although polling is how clients "dectect the changes" (README:3-4).
* `scan_shifted`.  A segment ends at `(i+1)*port_num_per_seg-1` (tcp.c:205), which does not count
  from `min_port`, while the next begins at `min_port+i*port_num_per_seg-1`.  For `min_port` > 1
  the ports in between get no socket, and the program prints that all of them were scanned
  (tcp.c:229).  `ScannedAll` shows that the range starting at 1 is not affected.
* `packet_signed`.  `*pbuf++<<24` is an `int` and is widened with its sign (packet.c:80): a long
  from 2^31 on, which "l", an unsigned long in four bytes (packet.c:10), has room for, comes
  back with all its upper bits set.  `PacketRoundTrip` is what remains true.

Also met while modelling, without a run of its own.  Where the model has the behaviour, the
property says exactly what remains true.

* Tank server: an answer that arrives before `set_rival` has written `WAIT` is overwritten and the
  challenger polls `WAIT` for ever (sql.c:499); a member may go offline between the reads of
  `is_all_online` and the update that declares his team online (sql.c:446-470); several
  polling clients share one bullet flag; a rival that records late erases an invitation
  received since (sql.c:568).
* Listener: the parent gives nothing back (server.c:449-469): a client never sees the end of its
  connection while the server runs, and after enough clients nobody is served.  No text of
  the repository promises otherwise; `ServedWhileOpen` and `ClientsAreServed` are what holds until
  then.
* HTTP server: a client that closes its end costs a descriptor (webserv.c:327).
* Fetcher: `pthread_create` is tested for a negative result (fetchall.c:26); the buffer of
  `gethostbyname` is shared (fetchall.c:132); a thread that fails before the reply leaves its
  socket open.  `parse_url` takes a `:` in the query for the port's (fetch.c:49).
  Its comment differs from it twice: the host name is "0" for a url without a query
  (fetch.c:29), but "a:8080" leaves "a"; and a url that does not end with "/" gives NULL
  (fetch.c:30, repeated by the message at fetch.c:90), but the code, like the comment's own
  last example (fetch.c:34), gives the query of "a/x".  `UrlParsed` follows the code and the
  example, and makes no claim about the host of a url with a port and no query.
* Lock: two workers may be inside at once (mux.c:23-36).  Here and in the counter a thread that
  could not be created is joined all the same (mux.c:17, var.c:18).
* Heap sort: `siftdown` stores the sinking element in the child it looked at last, which
  overwrites that child if the element beats it (maxheap.c:25-30): elements are lost from
  three values on.
* Highlighter: a byte that is no space, punctuation, letter or digit is pushed back for ever
  (c.c:264-289); the `**/` of a comment can be missed, since the character after a `*` is
  not looked at again.

## 8. Not modelled

* `trace.c` and the `.sql` files of the tank server other than the tables: logging no handler
  reads, and statements typed by hand.
* The read of two messages by one `recv` that happen to have the right number of fields
  together: `ReceiveGarbled` covers the wrong number.
* `orion`: a command line client of external services.
* Text tools (`calendar`, `char_freq`, `dup_line`, `findlinks`, `generator`) and graphics: filters
  whose substance is layout, formatting and floating point.
* Bit tricks: measurements of alternative one-line functions, a printed sieve, and a checksum over
  signed bit fields that its `main` leaves uninitialized, so that its result is the
  compiler's.
* `defer.c` and `lang`, `pointer`: demonstrations of a language feature without state.
