----------------------------- MODULE TankServer -----------------------------
(***************************************************************************)
(* The game server of database/tank-game-model.                            *)
(*                                                                         *)
(* server.c forks one process per connection.  A process reads a request,  *)
(* runs its handler and answers.  A handler of sql.c is a sequence of      *)
(* mysql_query calls that stops at the first one that fails; every query   *)
(* is an autocommitted step on two tables shared by all processes, so the  *)
(* queries of different sessions interleave and nothing undoes the first   *)
(* half of a handler that fails.                                           *)
(*                                                                         *)
(* A handler is therefore the sequence of its statements, Script(f, nm),   *)
(* and a session is a position in one; there is one action per kind of     *)
(* statement.  Rows are kept in insertion order because the code reads     *)
(* the FIRST row a select returns and the tables have no key.              *)
(***************************************************************************)
EXTENDS Integers, Sequences, FiniteSets

CONSTANTS
  Sessions,     \* connections, each served by a forked process
  TeamNames, UserNames,
  Words,        \* roles, answers, outcomes and titles that clients send
  NMembers,     \* MEMBER_NUM_PER_TEAM (4 in the code)
  Fold,         \* the collation: team="x" without `binary' ignores the case
  Teams0,       \* the rows of sql/init_table.sql (none after create_table.sql)
  Users0,
  Requests,     \* Requests[s]: the well-formed requests session s may send
  MaxRequests,  \* bound: messages session s may send
  MayLoseDb     \* sessions whose database connection may fail

Services ==
  {"register", "login", "logout", "check_members_status", "get_team_list",
   "has_battle", "get_rival_name", "has_invitation", "respond_invitation",
   "send_invitation", "listen_invitation", "summon", "update_xy",
   "update_bullet", "get_battle_data", "get_combatants_attr",
   "update_combatants_attr", "record_battle_result"}

Roster == [1..NMembers -> UserNames]

\* The fields of a request by name; a service ignores those it does not have.
Request == [svc : Services, team : TeamNames, who : UserNames,
            rival : TeamNames, word : Words, roster : Roster]
NoRequest == [svc |-> "none"]

Roles == {"GUARDER", "CHALLENGER"}
UserStatus == {"ONLINE", "OFFLINE"} \cup Words
Places == {"origin", "moved", "junk"} \cup Roles

\* passwd and level are left out: no statement updates a team's level, so every
\* team is within 50 levels of every other; a user's passwd and title are
\* only compared together (login) and are the one field title here.
TeamRow == [name : TeamNames, roster : Roster,
            status : {"ONLINE", "OFFLINE", "ONBATTLE"},
            rival : TeamNames \cup {"NULL"},
            invitation : {"EMPTY", "WAIT", "ACCEPT"},
            vs_times : Nat, win_times : Nat]
UserRow == [name : UserNames, team : TeamNames, title : Words,
            status : UserStatus, bullet : {"FIRED", "LOADED"}, place : Places]

ASSUME NMembersAssumption == NMembers \in Nat \ {0}
ASSUME WordsAssumption == {"captain", "soldier"} \subseteq Words
ASSUME FoldAssumption == Fold \in [TeamNames -> TeamNames]
ASSUME RequestsAssumption == Requests \in [Sessions -> SUBSET Request]
ASSUME BoundsAssumption == MaxRequests \in [Sessions -> Nat] /\ MayLoseDb \subseteq Sessions
\* The rows the database starts with: each team once, members of listed teams.
ASSUME TablesAssumption ==
  /\ Teams0 \in Seq(TeamRow) /\ Users0 \in Seq(UserRow)
  /\ \A i \in DOMAIN Users0 : \E j \in DOMAIN Teams0 :
        Teams0[j].name = Users0[i].team
  /\ \A i \in DOMAIN Teams0 : Teams0[i].win_times <= Teams0[i].vs_times
  /\ \A i, j \in DOMAIN Teams0 : Teams0[i].name = Teams0[j].name => i = j

VARIABLES
  teams, users,  \* the two tables
  pc,            \* "listen", "recv", "query" or "exit"
  req,           \* the request the session's process serves or served last
  step,          \* position in its handler's statements
  names,         \* the members retrieve_members_name read (zeroed by alloc_mem)
  times,         \* the counter update_times read
  absent,        \* nmems # 0 in is_all_online
  seen,          \* members reported ONLINE, or with a LOADED bullet
  reply,         \* what the client was last sent
  linked,        \* the process's database connection works
  sent           \* messages the client has sent

tables == <<teams, users>>
locals == <<names, times, absent, seen>>
vars == <<teams, users, pc, req, step, names, times, absent, seen, reply,
          linked, sent>>

NoReply == [code |-> "none", word |-> "", list |-> {}]
NoNames == [i \in 1..NMembers |-> ""]

------------------------------------------------------------------------------
(* The statements, named as the functions of sql.c that issue them.         *)

no_such_team(t) == [op |-> "no_such_team", team |-> t]
insert_team(f) == [op |-> "insert_team", f |-> f]
insert_user(f, i) == [op |-> "insert_user", f |-> f, i |-> i]
user_exists(t, u, title) ==
  [op |-> "user_exists", team |-> t, who |-> u, title |-> title]
retrieve_members_name(t) == [op |-> "retrieve_members_name", team |-> t]
retrieve_status(t, u) == [op |-> "retrieve_status", team |-> t, who |-> u]
retrieve_field(t) == [op |-> "retrieve_field", team |-> t]
retrieve_teams(t) == [op |-> "retrieve_teams", team |-> t]
retrieve_times(t, col) == [op |-> "retrieve_times", team |-> t, col |-> col]
set_times(t, col, more) ==
  [op |-> "set_times", team |-> t, col |-> col, more |-> more]
set_user_status(t, u, v) ==
  [op |-> "set_user_status", team |-> t, who |-> u, val |-> v]
set_position(t, u, p) ==
  [op |-> "set_position", team |-> t, who |-> u, val |-> p]
set_bullet_status(t, u, b) ==
  [op |-> "set_bullet_status", team |-> t, who |-> u, val |-> b]
set_attr(t, u) == [op |-> "set_attr", team |-> t, who |-> u]
pack_user_data(t, u) == [op |-> "pack_user_data", team |-> t, who |-> u]
set_team_status(t, v) == [op |-> "set_team_status", team |-> t, val |-> v]
set_rival_fields(t, r) == [op |-> "set_rival_fields", team |-> t, val |-> r]
set_invitation_fields(t, v) ==
  [op |-> "set_invitation_fields", team |-> t, val |-> v]

(* The handlers of sql.c: the statements each one issues while they succeed. *)

\* Slip: the members come before their team.
add_team_MembersFirst(f) ==
  <<no_such_team(f.team)>> \o [i \in 1..NMembers |-> insert_user(f, i)]
    \o <<insert_team(f)>>
\* Slip: is_exists is not asked.
add_team_Unchecked(f) ==
  <<insert_team(f)>> \o [i \in 1..NMembers |-> insert_user(f, i)]
\* Slip: the loop over the members ends one too early.
add_team_OffByOne(f) ==
  <<no_such_team(f.team), insert_team(f)>>
    \o [i \in 1..NMembers - 1 |-> insert_user(f, i)]
add_team(f) ==
  <<no_such_team(f.team), insert_team(f)>>
    \o [i \in 1..NMembers |-> insert_user(f, i)]

set_user_online(f) ==
  <<user_exists(f.team, f.who, f.word), set_user_status(f.team, f.who, "ONLINE")>>

set_user_offline(f) == <<set_user_status(f.team, f.who, "OFFLINE")>>

\* Slip: the team is set ONLINE before its members are looked at.
is_all_online_TeamFirst(f, nm) ==
  <<retrieve_members_name(f.team), set_team_status(f.team, "ONLINE")>>
    \o [i \in 1..NMembers |-> retrieve_status(f.team, nm[i])]
\* The last statement is issued only when nobody was found absent.
is_all_online(f, nm) ==
  <<retrieve_members_name(f.team)>>
    \o [i \in 1..NMembers |-> retrieve_status(f.team, nm[i])]
    \o <<set_team_status(f.team, "ONLINE")>>

\* query_team_list reads the level of the asking team first.
query_team_list(f) == <<retrieve_field(f.team), retrieve_teams(f.team)>>

set_rival(f) ==
  <<set_rival_fields(f.team, f.rival), set_rival_fields(f.rival, f.team),
    set_invitation_fields(f.team, "WAIT")>>

\* Slip: the challenger can read ACCEPT before it stands in the team's own row.
set_invitation_status_RivalFirst(f) ==
  IF f.word = "ACCEPT"
  THEN <<set_invitation_fields(f.rival, "ACCEPT"),
         set_invitation_fields(f.team, "ACCEPT")>>
  ELSE <<set_rival_fields(f.team, "NULL"), set_rival_fields(f.rival, "NULL"),
         set_invitation_fields(f.rival, "EMPTY")>>
\* Slip: a refusal frees the refusing team only.
set_invitation_status_OneSided(f) ==
  IF f.word = "ACCEPT"
  THEN <<set_invitation_fields(f.team, "ACCEPT"),
         set_invitation_fields(f.rival, "ACCEPT")>>
  ELSE <<set_rival_fields(f.team, "NULL"), set_invitation_fields(f.rival, "EMPTY")>>
set_invitation_status(f) ==
  IF f.word = "ACCEPT"
  THEN <<set_invitation_fields(f.team, "ACCEPT"),
         set_invitation_fields(f.rival, "ACCEPT")>>
  ELSE <<set_rival_fields(f.team, "NULL"), set_rival_fields(f.rival, "NULL"),
         set_invitation_fields(f.rival, "EMPTY")>>

\* An unknown role leaves team_y and direction uninitialized: the place is junk.
set_members_onbattle(f, nm) ==
  <<retrieve_members_name(f.team)>>
    \o [k \in 1..2 * NMembers |->
          LET u == nm[(k + 1) \div 2]
          IN  IF k % 2 = 1
              THEN set_user_status(f.team, u, f.word)
              ELSE set_position(f.team, u, IF f.word \in Roles THEN f.word ELSE "junk")]
    \o <<set_team_status(f.team, "ONBATTLE")>>

\* Slip: the battle won is counted before the battle fought.
update_battle_result_WinFirst(f) ==
  <<retrieve_times(f.team, "win_times"),
    set_times(f.team, "win_times", IF f.word = "winner" THEN 1 ELSE 0),
    retrieve_times(f.team, "vs_times"), set_times(f.team, "vs_times", 1),
    set_team_status(f.team, "ONLINE"),
    set_rival_fields(f.team, "NULL"), set_invitation_fields(f.team, "EMPTY")>>
\* update_times twice, then the team is free again.
update_battle_result(f) ==
  <<retrieve_times(f.team, "vs_times"), set_times(f.team, "vs_times", 1),
    retrieve_times(f.team, "win_times"),
    set_times(f.team, "win_times", IF f.word = "winner" THEN 1 ELSE 0),
    set_team_status(f.team, "ONLINE"),
    set_rival_fields(f.team, "NULL"), set_invitation_fields(f.team, "EMPTY")>>

set_xy(f) == <<set_position(f.team, f.who, "moved")>>

load_bullet(f) == <<set_bullet_status(f.team, f.who, "LOADED")>>

\* Slip: a reported bullet stays LOADED.
pack_team_battle_data_StaysLoaded(t, nm) ==
  <<retrieve_members_name(t)>>
    \o [k \in 1..2 * NMembers |-> pack_user_data(t, nm[(k + 1) \div 2])]
pack_team_battle_data(t, nm) ==
  <<retrieve_members_name(t)>>
    \o [k \in 1..2 * NMembers |->
          LET u == nm[(k + 1) \div 2]
          IN  IF k % 2 = 1 THEN pack_user_data(t, u)
                           ELSE set_bullet_status(t, u, "FIRED")]

pack_team_static_data(t, nm) ==
  <<retrieve_members_name(t)>> \o [i \in 1..NMembers |-> pack_user_data(t, nm[i])]

pack_battle_data(f, nm) ==
  pack_team_battle_data(f.team, nm) \o pack_team_battle_data(f.rival, nm)

pack_combatants_attr(f, nm) ==
  pack_team_static_data(f.team, nm) \o pack_team_static_data(f.rival, nm)

set_combatants_attr(f) ==
  <<set_attr(f.team, f.who), set_user_status(f.team, f.who, "ONLINE")>>

\* parse_server and the logout branch of handle_request.
Script(f, nm) ==
  CASE f.svc = "register" -> add_team(f)
    [] f.svc = "login" -> set_user_online(f)
    [] f.svc = "logout" -> set_user_offline(f)
    [] f.svc = "check_members_status" -> is_all_online(f, nm)
    [] f.svc = "get_team_list" -> query_team_list(f)
    [] f.svc = "has_battle" -> <<retrieve_status(f.team, f.who)>>
    [] f.svc \in {"get_rival_name", "has_invitation", "listen_invitation"} ->
         <<retrieve_field(f.team)>>
    [] f.svc = "send_invitation" -> set_rival(f)
    [] f.svc = "respond_invitation" -> set_invitation_status(f)
    [] f.svc = "summon" -> set_members_onbattle(f, nm)
    [] f.svc = "update_xy" -> set_xy(f)
    [] f.svc = "update_bullet" -> load_bullet(f)
    [] f.svc = "get_battle_data" -> pack_battle_data(f, nm)
    [] f.svc = "get_combatants_attr" -> pack_combatants_attr(f, nm)
    [] f.svc = "update_combatants_attr" -> set_combatants_attr(f)
    [] f.svc = "record_battle_result" -> update_battle_result(f)

Current(s) == Script(req[s], names[s])
Statement(s) == Current(s)[step[s]]

------------------------------------------------------------------------------
(* The tables.                                                              *)

TeamNamed(i, t) == i \in DOMAIN teams /\ teams[i].name = t
\* Slip: the condition on the name is missing.
UserNamed_TeamOnly(i, t, u) == i \in DOMAIN users /\ Fold[users[i].team] = Fold[t]
UserNamed(i, t, u) ==
  /\ i \in DOMAIN users
  /\ Fold[users[i].team] = Fold[t]
  /\ users[i].name = u
SomeTeam(t) == \E i \in DOMAIN teams : TeamNamed(i, t)
SomeUser(t, u) == \E i \in DOMAIN users : UserNamed(i, t, u)
\* retrieve_field and pack_user_data use the first row of the result.
FirstTeam(i, t) == TeamNamed(i, t) /\ \A j \in DOMAIN teams : TeamNamed(j, t) => i <= j
FirstUser(i, t, u) ==
  UserNamed(i, t, u) /\ \A j \in DOMAIN users : UserNamed(j, t, u) => i <= j

\* An update changes every row its condition selects, possibly none.
UpdateTeams(t, New(_)) ==
  teams' = [i \in DOMAIN teams |-> IF TeamNamed(i, t) THEN New(teams[i]) ELSE teams[i]]
UpdateUsers(t, u, New(_)) ==
  users' = [i \in DOMAIN users |-> IF UserNamed(i, t, u) THEN New(users[i]) ELSE users[i]]

NewTeam(f) ==
  [name |-> f.team, roster |-> f.roster, status |-> "OFFLINE", rival |-> "NULL",
   invitation |-> "EMPTY", vs_times |-> 0, win_times |-> 0]
\* The registering captain is online from the start.
NewUser(f, i) ==
  [name |-> f.roster[i], team |-> f.team,
   title |-> IF i = 1 THEN "captain" ELSE "soldier",
   status |-> IF i = 1 THEN "ONLINE" ELSE "OFFLINE",
   bullet |-> "FIRED", place |-> "origin"]

------------------------------------------------------------------------------
(* Answers.  RESP is not a step of its own: it touches no shared state.     *)

\* Handlers that send what they gathered, whatever the result was.
Listing == {"check_members_status", "get_battle_data", "get_combatants_attr"}
Packing == {"get_battle_data", "get_combatants_attr"}

\* A granted logout closes the connection and ends the process.
Answer(s, code, word, list) ==
  /\ reply' = [reply EXCEPT ![s] = [code |-> code, word |-> word, list |-> list]]
  /\ pc' = [pc EXCEPT ![s] =
              IF req[s].svc = "logout" /\ code = "200" THEN "exit" ELSE "recv"]
  /\ UNCHANGED step

Succeed(s) ==
  IF req[s].svc \in Listing THEN Answer(s, "data", "", seen'[s]) ELSE Answer(s, "200", "", {})

\* has_battle and has_invitation send an empty name when their query fails.
Fail(s) ==
  CASE req[s].svc \in Listing -> Answer(s, "data", "", seen[s])
    [] req[s].svc \in {"has_battle", "has_invitation"} -> Answer(s, "data", "", {})
    [] OTHER -> Answer(s, "404", "", {})

Crash(s) == pc' = [pc EXCEPT ![s] = "exit"] /\ UNCHANGED <<reply, step>>

\* After a successful statement: the next one, or the answer.
Advance(s) ==
  IF step[s] < Len(Current(s))
  THEN step' = [step EXCEPT ![s] = @ + 1] /\ UNCHANGED <<pc, reply>>
  ELSE Succeed(s)

Serving(s) == pc[s] = "query"
Issues(s, op) == Serving(s) /\ linked[s] /\ Statement(s).op = op
SameSession == <<req, linked, sent>>

------------------------------------------------------------------------------
(* Connections and messages.                                                *)

\* main accepts and forks; a failed init_sql_handler is only logged.
Connect(s) ==
  /\ pc[s] = "listen"
  /\ pc' = [pc EXCEPT ![s] = "recv"]
  /\ linked' \in {linked, [linked EXCEPT ![s] = s \notin MayLoseDb]}
  /\ UNCHANGED <<tables, locals, req, step, reply, sent>>

Sends(s) ==
  /\ pc[s] = "recv"
  /\ sent[s] < MaxRequests[s]
  /\ sent' = [sent EXCEPT ![s] = @ + 1]

\* A well-formed request arrives whole and alone in one recv.
Receive(s, f) ==
  /\ Sends(s)
  /\ req' = [req EXCEPT ![s] = f]
  /\ pc' = [pc EXCEPT ![s] = "query"]
  /\ step' = [step EXCEPT ![s] = 1]
  /\ names' = [names EXCEPT ![s] = NoNames]
  /\ times' = [times EXCEPT ![s] = 0]
  /\ absent' = [absent EXCEPT ![s] = FALSE]
  /\ seen' = [seen EXCEPT ![s] = {}]
  /\ reply' = [reply EXCEPT ![s] = NoReply]
  /\ UNCHANGED <<tables, linked>>

\* TCP split or joined messages: a known service with a wrong number of fields
\* gets no answer at all, an unknown one gets "404".
ReceiveGarbled(s) ==
  /\ Sends(s)
  /\ reply' \in {[reply EXCEPT ![s] = NoReply],
                 [reply EXCEPT ![s] = [NoReply EXCEPT !.code = "404"]]}
  /\ req' = [req EXCEPT ![s] = NoRequest]
  /\ UNCHANGED <<tables, locals, pc, step, linked>>

\* End of file: recv returns 0, fields[0] is read uninitialized and the process
\* ends by a fault, at the latest by SIGPIPE.  The member is not set OFFLINE.
Disconnect(s) ==
  /\ pc[s] = "recv"
  /\ Crash(s)
  /\ UNCHANGED <<tables, locals, SameSession>>

LoseDb(s) ==
  /\ pc[s] \in {"recv", "query"}
  /\ s \in MayLoseDb /\ linked[s]
  /\ linked' = [linked EXCEPT ![s] = FALSE]
  /\ UNCHANGED <<tables, locals, pc, req, step, reply, sent>>

\* Slip: a failed query is issued again until it succeeds.
QueryFails_Retries(s) == Serving(s) /\ ~linked[s] /\ UNCHANGED vars
\* QUERY_CHECK: the handler gives up, what it has already written stays.  The
\* packing handlers go on to join and free entries they never filled, which
\* either faults or answers.
QueryFails(s) ==
  /\ Serving(s) /\ ~linked[s]
  /\ Fail(s) \/ (req[s].svc \in Packing /\ Crash(s))
  /\ UNCHANGED <<tables, locals, SameSession>>

------------------------------------------------------------------------------
(* Statements that read.                                                    *)

\* mysql_fetch_row returns NULL and row[field_index] faults.
RowMissing(s) ==
  /\ Serving(s) /\ linked[s]
  /\ LET q == Statement(s)
     IN  \/ /\ q.op \in {"retrieve_members_name", "retrieve_field", "retrieve_times"}
            /\ ~SomeTeam(q.team)
         \/ /\ q.op \in {"retrieve_status", "pack_user_data"}
            /\ ~SomeUser(q.team, q.who)
  /\ Crash(s)
  /\ UNCHANGED <<tables, locals, SameSession>>

NoSuchTeam(s) ==
  /\ Issues(s, "no_such_team")
  /\ UNCHANGED <<tables, locals, SameSession>>
  /\ IF SomeTeam(Statement(s).team) THEN Fail(s) ELSE Advance(s)

UserExists(s) ==
  /\ Issues(s, "user_exists")
  /\ UNCHANGED <<tables, locals, SameSession>>
  /\ LET q == Statement(s)
     IN  IF \E i \in DOMAIN users : UserNamed(i, q.team, q.who) /\ users[i].title = q.title
         THEN Advance(s) ELSE Fail(s)

\* Four selects in the code, one per column; no statement changes these columns.
RetrieveMembersName(s) ==
  /\ Issues(s, "retrieve_members_name")
  /\ \E i \in DOMAIN teams :
        /\ FirstTeam(i, Statement(s).team)
        /\ names' = [names EXCEPT ![s] = teams[i].roster]
  /\ UNCHANGED <<tables, times, absent, seen, SameSession>>
  /\ Advance(s)

\* is_all_online ends here when somebody was absent; has_battle answers with the
\* status unless it is ONLINE.
RetrieveStatus(s) ==
  /\ Issues(s, "retrieve_status")
  /\ LET q == Statement(s)
     IN  \E i \in DOMAIN users :
           LET here == users[i].status = "ONLINE"
               last == step[s] + 1 = Len(Current(s))
           IN  /\ FirstUser(i, q.team, q.who)
               /\ absent' = [absent EXCEPT ![s] = @ \/ ~here]
               /\ seen' = IF here THEN [seen EXCEPT ![s] = @ \cup {<<q.team, q.who>>}]
                                  ELSE seen
               /\ CASE req[s].svc = "has_battle" ->
                         IF here THEN Answer(s, "404", "", {})
                                 ELSE Answer(s, "data", users[i].status, {})
                    [] req[s].svc # "has_battle" /\ last /\ absent'[s] -> Succeed(s)
                    [] OTHER -> Advance(s)
  /\ UNCHANGED <<tables, names, times, SameSession>>

\* get_rival_name, has_invitation and listen_invitation answer with the field;
\* get_team_list only needs the row.
RetrieveField(s) ==
  /\ Issues(s, "retrieve_field")
  /\ \E i \in DOMAIN teams :
        /\ FirstTeam(i, Statement(s).team)
        /\ UNCHANGED <<tables, locals, SameSession>>
        /\ CASE req[s].svc = "get_team_list" -> Advance(s)
             [] req[s].svc = "listen_invitation" ->
                  Answer(s, "data", teams[i].invitation, {})
             [] OTHER -> Answer(s, "data", teams[i].rival, {})

\* With no team to list, join ends its empty string one byte before the buffer,
\* which nothing reads.
RetrieveTeams(s) ==
  /\ Issues(s, "retrieve_teams")
  /\ Answer(s, "data", "", {t \in TeamNames :
        \E i \in DOMAIN teams : TeamNamed(i, t) /\ teams[i].status = "ONLINE"})
  /\ UNCHANGED <<tables, locals, SameSession>>

RetrieveTimes(s) ==
  /\ Issues(s, "retrieve_times")
  /\ LET q == Statement(s)
     IN  \E i \in DOMAIN teams :
           /\ FirstTeam(i, q.team)
           /\ times' = [times EXCEPT ![s] =
                IF q.col = "vs_times" THEN teams[i].vs_times ELSE teams[i].win_times]
  /\ UNCHANGED <<tables, names, absent, seen, SameSession>>
  /\ Advance(s)

PackUserData(s) ==
  /\ Issues(s, "pack_user_data")
  /\ LET q == Statement(s)
     IN  \E i \in DOMAIN users :
           /\ FirstUser(i, q.team, q.who)
           /\ seen' = IF users[i].bullet = "LOADED" /\ req[s].svc = "get_battle_data"
                      THEN [seen EXCEPT ![s] = @ \cup {<<q.team, q.who>>}] ELSE seen
  /\ UNCHANGED <<tables, names, times, absent, SameSession>>
  /\ Advance(s)

------------------------------------------------------------------------------
(* Statements that write.                                                   *)

InsertTeam(s) ==
  /\ Issues(s, "insert_team")
  /\ teams' = Append(teams, NewTeam(Statement(s).f))
  /\ UNCHANGED <<users, locals, SameSession>>
  /\ Advance(s)

InsertUser(s) ==
  /\ Issues(s, "insert_user")
  /\ users' = Append(users, NewUser(Statement(s).f, Statement(s).i))
  /\ UNCHANGED <<teams, locals, SameSession>>
  /\ Advance(s)

WriteTeam(s) ==
  /\ Serving(s) /\ linked[s]
  /\ LET q == Statement(s)
     IN  \/ /\ q.op = "set_team_status"
            /\ UpdateTeams(q.team, LAMBDA r : [r EXCEPT !.status = q.val])
         \/ /\ q.op = "set_rival_fields"
            /\ UpdateTeams(q.team, LAMBDA r : [r EXCEPT !.rival = q.val])
         \/ /\ q.op = "set_invitation_fields"
            /\ UpdateTeams(q.team, LAMBDA r : [r EXCEPT !.invitation = q.val])
  /\ UNCHANGED <<users, locals, SameSession>>
  /\ Advance(s)

SetTimes(s) ==
  /\ Issues(s, "set_times")
  /\ LET q == Statement(s)
         n == times[s] + q.more
     IN  IF q.col = "vs_times"
         THEN UpdateTeams(q.team, LAMBDA r : [r EXCEPT !.vs_times = n])
         ELSE UpdateTeams(q.team, LAMBDA r : [r EXCEPT !.win_times = n])
  /\ UNCHANGED <<users, locals, SameSession>>
  /\ Advance(s)

WriteUser(s) ==
  /\ Serving(s) /\ linked[s]
  /\ LET q == Statement(s)
     IN  \/ /\ q.op = "set_user_status"
            /\ UpdateUsers(q.team, q.who, LAMBDA r : [r EXCEPT !.status = q.val])
         \/ /\ q.op = "set_position"
            /\ UpdateUsers(q.team, q.who, LAMBDA r : [r EXCEPT !.place = q.val])
         \/ /\ q.op = "set_bullet_status"
            /\ UpdateUsers(q.team, q.who, LAMBDA r : [r EXCEPT !.bullet = q.val])
         \/ /\ q.op = "set_attr"
            /\ UpdateUsers(q.team, q.who, LAMBDA r : [r EXCEPT !.bullet = "FIRED"])
  /\ UNCHANGED <<teams, locals, SameSession>>
  /\ Advance(s)

------------------------------------------------------------------------------
\* One statement of the handler session s is in.
Work(s) ==
  \/ QueryFails(s) \/ RowMissing(s)
  \/ NoSuchTeam(s) \/ UserExists(s) \/ RetrieveMembersName(s) \/ RetrieveStatus(s)
  \/ RetrieveField(s) \/ RetrieveTeams(s) \/ RetrieveTimes(s) \/ PackUserData(s)
  \/ InsertTeam(s) \/ InsertUser(s) \/ WriteTeam(s) \/ SetTimes(s) \/ WriteUser(s)

\* What clients and the network do to session s.
Environment(s) ==
  \/ Connect(s)
  \/ \E f \in Requests[s] : Receive(s, f)
  \/ ReceiveGarbled(s) \/ Disconnect(s) \/ LoseDb(s)

Init ==
  /\ teams = Teams0 /\ users = Users0
  /\ pc = [s \in Sessions |-> "listen"]
  /\ req = [s \in Sessions |-> NoRequest]
  /\ step = [s \in Sessions |-> 1]
  /\ names = [s \in Sessions |-> NoNames]
  /\ times = [s \in Sessions |-> 0]
  /\ absent = [s \in Sessions |-> FALSE]
  /\ seen = [s \in Sessions |-> {}]
  /\ reply = [s \in Sessions |-> NoReply]
  /\ linked = [s \in Sessions |-> TRUE]
  /\ sent = [s \in Sessions |-> 0]

Next == \E s \in Sessions : Work(s) \/ Environment(s)

Spec == Init /\ [][Next]_vars
\* The kernel runs every process that is not blocked in recv.
FairSpec == Spec /\ \A s \in Sessions : WF_vars(Work(s))

------------------------------------------------------------------------------
(* Properties.                                                              *)

TypeOK ==
  /\ teams \in Seq(TeamRow) /\ users \in Seq(UserRow)
  /\ pc \in [Sessions -> {"listen", "recv", "query", "exit"}]
  /\ req \in [Sessions -> Request \cup {NoRequest}]
  /\ step \in [Sessions -> Nat \ {0}]
  /\ names \in [Sessions -> Roster \cup {NoNames}]
  /\ times \in [Sessions -> Nat]
  /\ absent \in [Sessions -> BOOLEAN]
  /\ seen \in [Sessions -> SUBSET (TeamNames \X (UserNames \cup {""}))]
  /\ DOMAIN reply = Sessions
  /\ linked \in [Sessions -> BOOLEAN]
  /\ sent \in [Sessions -> Nat] /\ \A s \in Sessions : sent[s] <= MaxRequests[s]

\* However registrations, failures of the database and faults interleave, there
\* is never a member of a team that is not in table teams: add_team inserts the
\* team before its members (sql.c:399-411).
UsersHaveTeam ==
  \A i \in DOMAIN users : \E j \in DOMAIN teams : teams[j].name = users[i].team

\* A client that was told "200" for register (server.c:29-30) has a team with
\* every member of its roster, also when the team was raced or half registered
\* before, and also when the database failed in the middle.
OkMeansComplete ==
  \A s \in Sessions :
    (pc[s] = "recv" /\ reply[s].code = "200" /\ req[s].svc = "register") =>
      /\ SomeTeam(req[s].team)
      /\ \A i \in 1..NMembers : \E j \in DOMAIN users :
           /\ users[j].team = req[s].team
           /\ users[j].name = req[s].roster[i]
           /\ users[j].title = IF i = 1 THEN "captain" ELSE "soldier"

\* No team that is registered over one connection only ever gets two rows, so
\* that the first row read is the team's only row.  The select of add_team and
\* its insert are two statements (sql.c:392-401): registrations that come over
\* two connections can both find no such team.
SoleRegistrar(t) ==
  \A s, z \in Sessions : \A f \in Requests[s], g \in Requests[z] :
    (f.svc = "register" /\ g.svc = "register" /\ f.team = t /\ g.team = t) => s = z
TeamNamesUnique ==
  \A i, j \in DOMAIN teams :
    (teams[i].name = teams[j].name /\ SoleRegistrar(teams[i].name)) => i = j

\* The row of a team whose results are recorded over one connection, the captain's
\* (sql.h, "captain only"), never shows more battles won than fought.  update_times
\* reads and writes in two statements, four in all (sql.c:313-327, 562-569), and any
\* other statement, or a lost connection, may come between any two of them.
RecordedOnce ==
  {t \in TeamNames : \A s, z \in Sessions : \A f \in Requests[s], g \in Requests[z] :
     (/\ f.svc = "record_battle_result" /\ f.team = t
      /\ g.svc = "record_battle_result" /\ g.team = t) => s = z}
SoleRecorder(t) == t \in RecordedOnce
WinsWithinGames ==
  \A i \in DOMAIN teams :
    (FirstTeam(i, teams[i].name) /\ SoleRecorder(teams[i].name)) =>
      teams[i].win_times <= teams[i].vs_times

\* The session whose statement this step is.
Acts(s) == Serving(s) /\ (pc'[s] # pc[s] \/ step'[s] # step[s])

\* The members that rows, rosters and requests speak of.  Teams whose names differ in
\* case only share no member's name, as in sql/init_table.sql.
NamingServices ==
  {"login", "logout", "update_xy", "update_bullet", "update_combatants_attr"}
Mentions(t, u) ==
  \/ \E i \in DOMAIN Users0 : Users0[i].team = t /\ Users0[i].name = u
  \/ \E i \in DOMAIN Teams0 :
       Teams0[i].name = t /\ \E k \in 1..NMembers : Teams0[i].roster[k] = u
  \/ \E s \in Sessions : \E f \in Requests[s] :
       /\ f.team = t
       /\ \/ f.svc \in NamingServices /\ f.who = u
          \/ f.svc = "register" /\ \E k \in 1..NMembers : f.roster[k] = u
MembersApart ==
  \A t, v \in TeamNames : \A u \in UserNames :
    (Fold[t] = Fold[v] /\ Mentions(t, u) /\ Mentions(v, u)) => t = v

\* Teams that differ in case only do not touch each other's members: `team="x"'
\* selects both teams, `binary name=' only the right member (sql.c:210, 228,
\* 237, 618), on tables where such teams share no member's name.
UpdatesStayInTeam ==
  [][\A i \in DOMAIN users : users'[i] # users[i] =>
       \E s \in Sessions : Acts(s) /\ users[i].team \in {req[s].team, req[s].rival}]_vars

\* The members the tables start with are on the rosters of their teams, once each.
MembersOnce ==
  \A j \in DOMAIN Users0 :
    /\ \E i \in DOMAIN Teams0 :
         /\ Teams0[i].name = Users0[j].team
         /\ \E k \in 1..NMembers : Teams0[i].roster[k] = Users0[j].name
    /\ \A i \in DOMAIN Users0 :
         (Users0[i].team = Users0[j].team /\ Users0[i].name = Users0[j].name) => i = j

\* One connection summons a team and looks whether its members are back.
SoleCaptain ==
  \A s, z \in Sessions : \A f \in Requests[s], g \in Requests[z] :
    (/\ f.svc \in {"summon", "check_members_status"} /\ f.team = g.team
     /\ g.svc \in {"summon", "check_members_status"}) => s = z

\* A team on the battlefield goes back to the list of teams through
\* record_battle_result, or through check_members_status when no member holds a
\* role any more: with one captain's connection per team no summon can fall
\* between the reads of is_all_online and its update (sql.c:441-470).
MembersBackBeforeReopened ==
  [][\A i \in DOMAIN teams :
       (teams[i].status = "ONBATTLE" /\ teams'[i].status = "ONLINE") =>
         \E s \in Sessions :
           /\ Acts(s)
           /\ \/ req[s].svc = "record_battle_result"
              \/ /\ req[s].svc = "check_members_status"
                 /\ \A j \in DOMAIN users :
                      users[j].team = teams[i].name => users[j].status \notin Roles]_vars

\* A process that has a request answers it or ends: no handler waits for another
\* session, whatever the others do and however often they poll.
Answered ==
  \A s \in Sessions : (pc[s] = "query") ~> (pc[s] \in {"recv", "exit"})

\* Polling detects the changes (README:3-4): a bullet goes from LOADED to FIRED
\* in a poll only when that poll has reported it.
LoadedShotIsSeen ==
  [][\A i \in DOMAIN users :
       (users[i].bullet = "LOADED" /\ users'[i].bullet = "FIRED") =>
         \E s \in Sessions :
           /\ Acts(s)
           /\ \/ req[s].svc # "get_battle_data"
              \/ <<users[i].team, users[i].name>> \in seen[s]]_vars
=============================================================================
