--------------------------- MODULE TankServerProofs --------------------------
(***************************************************************************)
(* Proofs about TankServer, for every number of sessions, every team size, *)
(* every set of requests and every bound.                                  *)
(***************************************************************************)
EXTENDS TankServer, SequenceTheorems, TLAPS

------------------------------------------------------------------------------
(* The statements, by what they may do.                                     *)

Persons == UserNames \cup {""}
Namings == Roster \cup {NoNames}

\* Statements that insert no row and touch no counter of battles.
PlainStatement ==
       [op : {"no_such_team", "retrieve_members_name", "retrieve_field",
              "retrieve_teams"}, team : TeamNames]
  \cup [op : {"user_exists"}, team : TeamNames, who : Persons, title : Words]
  \cup [op : {"retrieve_status", "pack_user_data", "set_attr"},
        team : TeamNames, who : Persons]
  \cup [op : {"set_user_status"}, team : TeamNames, who : Persons, val : UserStatus]
  \cup [op : {"set_position"}, team : TeamNames, who : Persons, val : Places]
  \cup [op : {"set_bullet_status"}, team : TeamNames, who : Persons,
        val : {"FIRED", "LOADED"}]
  \cup [op : {"set_team_status"}, team : TeamNames, val : {"ONLINE", "OFFLINE", "ONBATTLE"}]
  \cup [op : {"set_rival_fields"}, team : TeamNames, val : TeamNames \cup {"NULL"}]
  \cup [op : {"set_invitation_fields"}, team : TeamNames, val : {"EMPTY", "WAIT", "ACCEPT"}]

TimesStatement ==
       [op : {"retrieve_times"}, team : TeamNames, col : {"vs_times", "win_times"}]
  \cup [op : {"set_times"}, team : TeamNames, col : {"vs_times", "win_times"}, more : {0, 1}]

InsertStatement ==
       [op : {"insert_team"}, f : Request]
  \cup [op : {"insert_user"}, f : Request, i : 1..NMembers]

AnyStatement == PlainStatement \cup TimesStatement \cup InsertStatement

\* A list written as a function on 1..n.
LEMMA ListType ==
  ASSUME NEW S, NEW n \in Nat, NEW g \in [1..n -> S]
  PROVE  g \in Seq(S) /\ Len(g) = n
  OBVIOUS

LEMMA ConcatPlain ==
  ASSUME NEW p \in Seq(PlainStatement), NEW q \in Seq(PlainStatement)
  PROVE  p \o q \in Seq(PlainStatement) /\ Len(p \o q) = Len(p) + Len(q)
  BY ConcatProperties

\* A handler that reads the names first and updates the team last.
LEMMA Bracketed ==
  ASSUME NEW p \in Seq(PlainStatement), NEW q \in Seq(PlainStatement),
         NEW r \in Seq(PlainStatement), Len(p) = 1, Len(r) = 1
  PROVE  (p \o q) \o r \in Seq(PlainStatement) /\ Len((p \o q) \o r) = Len(q) + 2
  <1>1. p \o q \in Seq(PlainStatement) /\ Len(p \o q) = Len(p) + Len(q)
    BY ConcatPlain
  <1>2. /\ (p \o q) \o r \in Seq(PlainStatement)
        /\ Len((p \o q) \o r) = Len(p \o q) + Len(r)
    BY <1>1, ConcatPlain
  <1>3. Len(q) \in Nat
    OBVIOUS
  <1> QED
    BY <1>1, <1>2, <1>3

LEMMA PackType ==
  ASSUME NEW t \in TeamNames, NEW nm \in Namings
  PROVE  /\ pack_team_battle_data(t, nm) \in Seq(PlainStatement)
         /\ Len(pack_team_battle_data(t, nm)) = 2 * NMembers + 1
         /\ pack_team_static_data(t, nm) \in Seq(PlainStatement)
         /\ Len(pack_team_static_data(t, nm)) = NMembers + 1
  <1>1. NMembers \in Nat /\ 2 * NMembers \in Nat
    BY NMembersAssumption
  <1>2. \A i \in 1..NMembers : nm[i] \in Persons
    BY DEF Namings, Roster, NoNames, Persons
  <1>3. \A k \in 1..2 * NMembers : (k + 1) \div 2 \in 1..NMembers
    BY <1>1
  <1>4. <<retrieve_members_name(t)>> \in Seq(PlainStatement)
    BY DEF retrieve_members_name, PlainStatement
  <1>5. \A u \in Persons : /\ pack_user_data(t, u) \in PlainStatement
                           /\ set_bullet_status(t, u, "FIRED") \in PlainStatement
    BY DEF pack_user_data, set_bullet_status, PlainStatement
  <1> DEFINE g == [k \in 1..2 * NMembers |->
          LET u == nm[(k + 1) \div 2]
          IN  IF k % 2 = 1 THEN pack_user_data(t, u)
                           ELSE set_bullet_status(t, u, "FIRED")]
             h == [i \in 1..NMembers |-> pack_user_data(t, nm[i])]
  <1>6. g \in [1..2 * NMembers -> PlainStatement] /\ h \in [1..NMembers -> PlainStatement]
    BY <1>2, <1>3, <1>5
  <1>7. g \in Seq(PlainStatement) /\ Len(g) = 2 * NMembers
    BY <1>1, <1>6, ListType
  <1>8. h \in Seq(PlainStatement) /\ Len(h) = NMembers
    BY <1>1, <1>6, ListType
  <1>9. /\ pack_team_battle_data(t, nm) = <<retrieve_members_name(t)>> \o g
        /\ pack_team_static_data(t, nm) = <<retrieve_members_name(t)>> \o h
    BY DEF pack_team_battle_data, pack_team_static_data
  <1>10. Len(<<retrieve_members_name(t)>>) = 1
    OBVIOUS
  <1> HIDE DEF g, h
  <1> QED
    BY <1>1, <1>4, <1>7, <1>8, <1>9, <1>10, ConcatProperties

LEMMA OnlineScript ==
  ASSUME NEW f \in Request, NEW nm \in Namings
  PROVE  /\ is_all_online(f, nm) \in Seq(PlainStatement)
         /\ Len(is_all_online(f, nm)) = NMembers + 2
  <1> DEFINE g == [i \in 1..NMembers |-> retrieve_status(f.team, nm[i])]
             a == <<retrieve_members_name(f.team)>>
             z == <<set_team_status(f.team, "ONLINE")>>
  <1>1. NMembers \in Nat
    BY NMembersAssumption
  <1>2. a \in Seq(PlainStatement) /\ z \in Seq(PlainStatement) /\ Len(a) = 1 /\ Len(z) = 1
    BY DEF Request, retrieve_members_name, set_team_status, PlainStatement
  <1>3. g \in [1..NMembers -> PlainStatement]
    BY DEF Request, Namings, Roster, NoNames, Persons, retrieve_status, PlainStatement
  <1>4. g \in Seq(PlainStatement) /\ Len(g) = NMembers
    BY <1>1, <1>3, ListType
  <1>5. is_all_online(f, nm) = (a \o g) \o z
    BY DEF is_all_online
  <1> HIDE DEF a, g, z
  <1>6. (a \o g) \o z \in Seq(PlainStatement) /\ Len((a \o g) \o z) = Len(g) + 2
    BY <1>2, <1>4, Bracketed
  <1> QED
    BY <1>4, <1>5, <1>6

LEMMA BattleScript ==
  ASSUME NEW f \in Request, NEW nm \in Namings
  PROVE  /\ set_members_onbattle(f, nm) \in Seq(PlainStatement)
         /\ Len(set_members_onbattle(f, nm)) = 2 * NMembers + 2
  <1> DEFINE g == [k \in 1..2 * NMembers |->
          LET u == nm[(k + 1) \div 2]
          IN  IF k % 2 = 1
              THEN set_user_status(f.team, u, f.word)
              ELSE set_position(f.team, u, IF f.word \in Roles THEN f.word ELSE "junk")]
             a == <<retrieve_members_name(f.team)>>
             z == <<set_team_status(f.team, "ONBATTLE")>>
  <1>1. NMembers \in Nat /\ 2 * NMembers \in Nat
    BY NMembersAssumption
  <1>2. a \in Seq(PlainStatement) /\ z \in Seq(PlainStatement) /\ Len(a) = 1 /\ Len(z) = 1
    BY DEF Request, retrieve_members_name, set_team_status, PlainStatement
  <1>3. \A i \in 1..NMembers : nm[i] \in Persons
    BY DEF Namings, Roster, NoNames, Persons
  <1>4. \A k \in 1..2 * NMembers : (k + 1) \div 2 \in 1..NMembers
    BY <1>1
  <1>5. \A u \in Persons :
          /\ set_user_status(f.team, u, f.word) \in PlainStatement
          /\ set_position(f.team, u, IF f.word \in Roles THEN f.word ELSE "junk")
               \in PlainStatement
    BY DEF Request, set_user_status, set_position, PlainStatement, UserStatus, Places, Roles
  <1>6. g \in [1..2 * NMembers -> PlainStatement]
    BY <1>3, <1>4, <1>5
  <1>7. g \in Seq(PlainStatement) /\ Len(g) = 2 * NMembers
    BY <1>1, <1>6, ListType
  <1>8. set_members_onbattle(f, nm) = (a \o g) \o z
    BY DEF set_members_onbattle
  <1> HIDE DEF a, g, z
  <1>9. (a \o g) \o z \in Seq(PlainStatement) /\ Len((a \o g) \o z) = Len(g) + 2
    BY <1>2, <1>7, Bracketed
  <1> QED
    BY <1>7, <1>8, <1>9

\* The registration handler: the check, the team, then its members in order.
LEMMA RegisterScript ==
  ASSUME NEW f \in Request, NEW nm, f.svc = "register"
  PROVE  /\ Script(f, nm) \in Seq(AnyStatement)
         /\ Len(Script(f, nm)) = NMembers + 2
         /\ Script(f, nm)[1] = no_such_team(f.team)
         /\ Script(f, nm)[2] = insert_team(f)
         /\ \A i \in 1..NMembers : Script(f, nm)[i + 2] = insert_user(f, i)
  <1> DEFINE g == [i \in 1..NMembers |-> insert_user(f, i)]
             a == <<no_such_team(f.team), insert_team(f)>>
  <1>1. NMembers \in Nat
    BY NMembersAssumption
  <1>2. no_such_team(f.team) \in AnyStatement /\ insert_team(f) \in AnyStatement
    BY DEF Request, no_such_team, insert_team, AnyStatement, PlainStatement, InsertStatement
  <1>3. /\ a \in Seq(AnyStatement) /\ Len(a) = 2
        /\ a[1] = no_such_team(f.team) /\ a[2] = insert_team(f)
    BY <1>2
  <1>4. g \in [1..NMembers -> AnyStatement]
    BY DEF insert_user, AnyStatement, InsertStatement
  <1>5. g \in Seq(AnyStatement) /\ Len(g) = NMembers
    BY <1>1, <1>4, ListType
  <1>6. Script(f, nm) = a \o g
    BY DEF Script, add_team
  <1>7. \A i \in 1..NMembers : g[i] = insert_user(f, i)
    OBVIOUS
  <1> HIDE DEF a, g
  <1>8. /\ a \o g \in Seq(AnyStatement) /\ Len(a \o g) = Len(a) + Len(g)
        /\ \A k \in 1..(Len(a) + Len(g)) :
             (a \o g)[k] = IF k <= Len(a) THEN a[k] ELSE g[k - Len(a)]
    BY <1>3, <1>5, ConcatProperties
  <1>9. (a \o g)[1] = a[1] /\ (a \o g)[2] = a[2]
    BY <1>1, <1>3, <1>5, <1>8
  <1>10. ASSUME NEW i \in 1..NMembers
         PROVE  (a \o g)[i + 2] = insert_user(f, i)
    <2>1. i + 2 \in 1..(Len(a) + Len(g)) /\ ~(i + 2 <= Len(a)) /\ i + 2 - Len(a) = i
      BY <1>1, <1>3, <1>5
    <2> QED
      BY <1>7, <1>8, <2>1
  <1> QED
    BY <1>1, <1>3, <1>5, <1>6, <1>8, <1>9, <1>10

\* The handler that records a result.
LEMMA RecordScript ==
  ASSUME NEW f \in Request, NEW nm, f.svc = "record_battle_result"
  PROVE  /\ Script(f, nm) \in Seq(PlainStatement \cup TimesStatement)
         /\ Len(Script(f, nm)) = 7
         /\ Script(f, nm)[1] = retrieve_times(f.team, "vs_times")
         /\ Script(f, nm)[2] = set_times(f.team, "vs_times", 1)
         /\ Script(f, nm)[3] = retrieve_times(f.team, "win_times")
         /\ Script(f, nm)[4] =
              set_times(f.team, "win_times", IF f.word = "winner" THEN 1 ELSE 0)
         /\ \A k \in 5..7 : Script(f, nm)[k] \in PlainStatement
  <1> DEFINE W == IF f.word = "winner" THEN 1 ELSE 0
  <1>1. Script(f, nm) = update_battle_result(f)
    BY DEF Script
  <1>2. /\ retrieve_times(f.team, "vs_times") \in TimesStatement
        /\ set_times(f.team, "vs_times", 1) \in TimesStatement
        /\ retrieve_times(f.team, "win_times") \in TimesStatement
        /\ set_times(f.team, "win_times", W) \in TimesStatement
    BY DEF Request, retrieve_times, set_times, TimesStatement
  <1>3. /\ set_team_status(f.team, "ONLINE") \in PlainStatement
        /\ set_rival_fields(f.team, "NULL") \in PlainStatement
        /\ set_invitation_fields(f.team, "EMPTY") \in PlainStatement
    BY DEF Request, set_team_status, set_rival_fields, set_invitation_fields, PlainStatement
  <1> QED
    BY <1>1, <1>2, <1>3 DEF update_battle_result

\* Every other handler inserts nothing and counts nothing.
LEMMA OtherScripts ==
  ASSUME NEW f \in Request, NEW nm \in Namings,
         f.svc \notin {"register", "record_battle_result"}
  PROVE  Script(f, nm) \in Seq(PlainStatement)
  <1>1. f.svc \in Services /\ f.team \in TeamNames /\ f.who \in Persons
          /\ f.rival \in TeamNames /\ f.word \in Words
    BY DEF Request, Persons
  <1>2. CASE f.svc \in {"login", "logout", "get_team_list", "has_battle",
                        "get_rival_name", "has_invitation", "listen_invitation"}
    <2>1. /\ user_exists(f.team, f.who, f.word) \in PlainStatement
          /\ set_user_status(f.team, f.who, "ONLINE") \in PlainStatement
          /\ set_user_status(f.team, f.who, "OFFLINE") \in PlainStatement
          /\ retrieve_field(f.team) \in PlainStatement
          /\ retrieve_teams(f.team) \in PlainStatement
          /\ retrieve_status(f.team, f.who) \in PlainStatement
      BY <1>1 DEF user_exists, set_user_status, retrieve_field, retrieve_teams,
         retrieve_status, PlainStatement, UserStatus
    <2> QED
      BY <1>2, <2>1 DEF Script, set_user_online, set_user_offline, query_team_list
  <1>3. CASE f.svc \in {"send_invitation", "respond_invitation"}
    <2>1. \A t \in TeamNames : \A r \in TeamNames \cup {"NULL"} :
            set_rival_fields(t, r) \in PlainStatement
      BY DEF set_rival_fields, PlainStatement
    <2>2. \A t \in TeamNames : \A v \in {"EMPTY", "WAIT", "ACCEPT"} :
            set_invitation_fields(t, v) \in PlainStatement
      BY DEF set_invitation_fields, PlainStatement
    <2>3. set_rival(f) \in Seq(PlainStatement) /\ set_invitation_status(f) \in Seq(PlainStatement)
      BY <1>1, <2>1, <2>2 DEF set_rival, set_invitation_status
    <2> QED
      BY <1>3, <2>3 DEF Script
  <1>4. CASE f.svc \in {"update_xy", "update_bullet", "update_combatants_attr"}
    <2>1. /\ set_position(f.team, f.who, "moved") \in PlainStatement
          /\ set_bullet_status(f.team, f.who, "LOADED") \in PlainStatement
          /\ set_attr(f.team, f.who) \in PlainStatement
          /\ set_user_status(f.team, f.who, "ONLINE") \in PlainStatement
      BY <1>1 DEF set_position, set_bullet_status, set_attr, set_user_status,
         PlainStatement, Places, UserStatus
    <2> QED
      BY <1>4, <2>1 DEF Script, set_xy, load_bullet, set_combatants_attr
  <1>5. CASE f.svc = "check_members_status"
    BY <1>5, OnlineScript DEF Script
  <1>6. CASE f.svc = "summon"
    BY <1>6, BattleScript DEF Script
  <1>7. CASE f.svc \in {"get_battle_data", "get_combatants_attr"}
    BY <1>1, <1>7, PackType, ConcatPlain DEF Script, pack_battle_data, pack_combatants_attr
  <1> QED
    BY <1>1, <1>2, <1>3, <1>4, <1>5, <1>6, <1>7 DEF Services

LEMMA PackedLengths ==
  ASSUME NEW f \in Request, NEW nm \in Namings
  PROVE  /\ Len(pack_battle_data(f, nm)) = 4 * NMembers + 2
         /\ Len(pack_combatants_attr(f, nm)) = 2 * NMembers + 2
  <1> DEFINE b1 == pack_team_battle_data(f.team, nm)
             b2 == pack_team_battle_data(f.rival, nm)
             c1 == pack_team_static_data(f.team, nm)
             c2 == pack_team_static_data(f.rival, nm)
  <1>1. f.team \in TeamNames /\ f.rival \in TeamNames
    BY DEF Request
  <1>2. /\ b1 \in Seq(PlainStatement) /\ Len(b1) = 2 * NMembers + 1
        /\ b2 \in Seq(PlainStatement) /\ Len(b2) = 2 * NMembers + 1
        /\ c1 \in Seq(PlainStatement) /\ Len(c1) = NMembers + 1
        /\ c2 \in Seq(PlainStatement) /\ Len(c2) = NMembers + 1
    BY <1>1, PackType
  <1>3. pack_battle_data(f, nm) = b1 \o b2 /\ pack_combatants_attr(f, nm) = c1 \o c2
    BY DEF pack_battle_data, pack_combatants_attr
  <1> HIDE DEF b1, b2, c1, c2
  <1>4. Len(b1 \o b2) = Len(b1) + Len(b2) /\ Len(c1 \o c2) = Len(c1) + Len(c2)
    BY <1>2, ConcatPlain
  <1> QED
    BY <1>2, <1>3, <1>4, NMembersAssumption

\* The length of a handler does not depend on the names it reads.
LEMMA ScriptLength ==
  ASSUME NEW f \in Request, NEW nm \in Namings, NEW mn \in Namings
  PROVE  Len(Script(f, nm)) = Len(Script(f, mn)) /\ Len(Script(f, nm)) \in Nat
  <1>1. f.svc \in Services /\ f.team \in TeamNames /\ f.rival \in TeamNames
    BY DEF Request
  <1>2. CASE f.svc \notin {"register", "record_battle_result", "check_members_status", "summon",
                           "get_battle_data", "get_combatants_attr"}
    <2>1. Script(f, nm) = Script(f, mn)
      BY <1>1, <1>2 DEF Script, Services
    <2> QED
      BY <1>2, <2>1, OtherScripts
  <1>3. CASE f.svc \in {"register", "record_battle_result"}
    BY <1>3, RegisterScript, RecordScript, NMembersAssumption
  <1>4. CASE f.svc = "check_members_status"
    BY <1>4, OnlineScript, NMembersAssumption DEF Script
  <1>5. CASE f.svc = "summon"
    BY <1>5, BattleScript, NMembersAssumption DEF Script
  <1>6. CASE f.svc \in {"get_battle_data", "get_combatants_attr"}
    BY <1>6, PackedLengths, NMembersAssumption DEF Script
  <1> QED
    BY <1>1, <1>2, <1>3, <1>4, <1>5, <1>6 DEF Services

LEMMA ScriptNotEmpty ==
  ASSUME NEW f \in Request, NEW nm \in Namings
  PROVE  Len(Script(f, nm)) \in Nat /\ Len(Script(f, nm)) >= 1
  <1> DEFINE short == {set_user_online(f), set_user_offline(f), query_team_list(f),
            set_rival(f), set_invitation_status(f), set_xy(f), load_bullet(f),
            set_combatants_attr(f), <<retrieve_status(f.team, f.who)>>,
            <<retrieve_field(f.team)>>}
  <1>1. f.svc \in Services /\ f.team \in TeamNames /\ f.rival \in TeamNames
    BY DEF Request
  <1>2. CASE f.svc \notin {"register", "record_battle_result", "check_members_status", "summon",
                           "get_battle_data", "get_combatants_attr"}
    <2>1. /\ Len(set_user_online(f)) \in 1..3 /\ Len(set_user_offline(f)) \in 1..3
          /\ Len(query_team_list(f)) \in 1..3 /\ Len(set_rival(f)) \in 1..3
          /\ Len(set_invitation_status(f)) \in 1..3
          /\ Len(set_xy(f)) \in 1..3 /\ Len(load_bullet(f)) \in 1..3
          /\ Len(set_combatants_attr(f)) \in 1..3
          /\ Len(<<retrieve_status(f.team, f.who)>>) \in 1..3
          /\ Len(<<retrieve_field(f.team)>>) \in 1..3
      BY DEF set_user_online, set_user_offline, query_team_list, set_rival,
         set_invitation_status, set_xy, load_bullet, set_combatants_attr
    <2>2. Script(f, nm) \in short
      BY <1>1, <1>2 DEF Script, Services
    <2>3. \A q \in short : Len(q) \in 1..3
      BY <2>1, Zenon
    <2> HIDE DEF short
    <2>4. Len(Script(f, nm)) \in 1..3
      BY <2>2, <2>3, Zenon
    <2> QED
      BY <2>4
  <1>3. CASE f.svc \in {"register", "record_battle_result"}
    <2>1. Len(Script(f, nm)) \in {7, NMembers + 2}
      BY <1>3, RegisterScript, RecordScript, SMTT(30)
    <2> QED
      BY <2>1, NMembersAssumption
  <1>4. CASE f.svc = "check_members_status"
    BY <1>4, OnlineScript, NMembersAssumption DEF Script
  <1>5. CASE f.svc = "summon"
    BY <1>5, BattleScript, NMembersAssumption DEF Script
  <1>6. CASE f.svc \in {"get_battle_data", "get_combatants_attr"}
    <2>1. Script(f, nm) \in {pack_battle_data(f, nm), pack_combatants_attr(f, nm)}
      BY <1>6 DEF Script
    <2>2. Len(Script(f, nm)) \in {4 * NMembers + 2, 2 * NMembers + 2}
      BY <2>1, PackedLengths
    <2> QED
      BY <2>2, NMembersAssumption
  <1> QED
    BY <1>1, <1>2, <1>3, <1>4, <1>5, <1>6

\* Every statement of every handler is well formed; only register inserts, and
\* only record_battle_result counts.
LEMMA ScriptStatements ==
  ASSUME NEW f \in Request, NEW nm \in Namings, NEW k \in 1..Len(Script(f, nm))
  PROVE  /\ Script(f, nm)[k] \in AnyStatement
         /\ Script(f, nm)[k] \in InsertStatement => f.svc = "register" /\ k >= 2
         /\ Script(f, nm)[k] \in TimesStatement => f.svc = "record_battle_result" /\ k \in 1..4
         /\ f.svc = "register" => k \in 1..NMembers + 2
         /\ f.svc = "record_battle_result" => k \in 1..7
  <1>1. /\ PlainStatement \cap InsertStatement = {} /\ PlainStatement \cap TimesStatement = {}
        /\ TimesStatement \cap InsertStatement = {}
    BY DEF PlainStatement, InsertStatement, TimesStatement
  <1>2. CASE f.svc = "register"
    <2>1. k \in 1..NMembers + 2 /\ Script(f, nm)[k] \in AnyStatement
      BY <1>2, RegisterScript
    <2>2. k = 1 => Script(f, nm)[k] \in PlainStatement
      <3>1. no_such_team(f.team) \in PlainStatement
        BY DEF no_such_team, PlainStatement, Request
      <3> QED
        BY <1>2, <3>1, RegisterScript
    <2>3. k = 2 => Script(f, nm)[k] \in InsertStatement
      <3>1. insert_team(f) \in InsertStatement
        BY DEF insert_team, InsertStatement
      <3> QED
        BY <1>2, <3>1, RegisterScript
    <2>4. ASSUME k > 2 PROVE Script(f, nm)[k] \in InsertStatement
      <3>1. k - 2 \in 1..NMembers /\ (k - 2) + 2 = k
        BY <2>1, <2>4, NMembersAssumption
      <3>2. Script(f, nm)[k] = insert_user(f, k - 2)
        BY <1>2, <3>1, RegisterScript
      <3> QED
        BY <3>1, <3>2 DEF insert_user, InsertStatement
    <2> QED
      BY <1>1, <1>2, <2>1, <2>2, <2>3, <2>4, NMembersAssumption
  <1>3. CASE f.svc = "record_battle_result"
    <2>1. k \in 1..7 /\ Script(f, nm)[k] \in PlainStatement \cup TimesStatement
      BY <1>3, RecordScript, SMTT(30)
    <2>2. k \in 5..7 => Script(f, nm)[k] \in PlainStatement
      BY <1>3, RecordScript
    <2> QED
      BY <1>1, <1>3, <2>1, <2>2 DEF AnyStatement
  <1>4. CASE f.svc \notin {"register", "record_battle_result"}
    BY <1>1, <1>4, OtherScripts DEF AnyStatement
  <1> QED
    BY <1>2, <1>3, <1>4

------------------------------------------------------------------------------
(* Type correctness.  A serving session is at a statement of its handler.   *)

Control ==
  \A s \in Sessions :
    Serving(s) => req[s] \in Request /\ step[s] \in 1..Len(Current(s))

TypeInv == TypeOK /\ Control

\* A statement either moves its session on by one or ends the handler.
Steps(s) ==
  /\ step[s] < Len(Current(s))
  /\ step' = [step EXCEPT ![s] = @ + 1]
  /\ pc' = pc
Halts(s) ==
  /\ step' = step
  /\ \E p \in {"recv", "exit"} : pc' = [pc EXCEPT ![s] = p]
Moves(s) ==
  /\ Steps(s) \/ Halts(s)
  /\ DOMAIN reply' = DOMAIN reply
  /\ \A z \in Sessions : z # s => reply'[z] = reply[z]
  /\ UNCHANGED SameSession

LEMMA AnswerHalts ==
  ASSUME NEW s \in Sessions, NEW code, NEW word, NEW list, Answer(s, code, word, list)
  PROVE  /\ Halts(s) /\ DOMAIN reply' = DOMAIN reply
         /\ \A z \in Sessions : z # s => reply'[z] = reply[z]
  <1>1. \E p \in {"recv", "exit"} : pc' = [pc EXCEPT ![s] = p]
    BY DEF Answer
  <1>2. \E r : reply' = [reply EXCEPT ![s] = r]
    BY DEF Answer
  <1>3. DOMAIN reply' = DOMAIN reply /\ \A z \in Sessions : z # s => reply'[z] = reply[z]
    <2>1. PICK r : reply' = [reply EXCEPT ![s] = r]
      BY <1>2
    <2>2. \A z \in Sessions : z # s => reply'[z] = reply[z]
      BY <2>1
    <2> QED
      BY <2>1, <2>2
  <1> QED
    BY <1>1, <1>3 DEF Answer, Halts

LEMMA AdvanceMoves ==
  ASSUME NEW s \in Sessions, Advance(s)
  PROVE  /\ (Steps(s) \/ Halts(s)) /\ DOMAIN reply' = DOMAIN reply
         /\ \A z \in Sessions : z # s => reply'[z] = reply[z]
  <1>1. CASE step[s] < Len(Current(s))
    BY <1>1 DEF Advance, Steps
  <1>2. CASE ~(step[s] < Len(Current(s)))
    BY <1>2, AnswerHalts DEF Advance, Succeed
  <1> QED
    BY <1>1, <1>2

LEMMA FailHalts ==
  ASSUME NEW s \in Sessions, Fail(s)
  PROVE  /\ Halts(s) /\ DOMAIN reply' = DOMAIN reply
         /\ \A z \in Sessions : z # s => reply'[z] = reply[z]
  <1>1. \E code, word, list : Answer(s, code, word, list)
    BY DEF Fail
  <1> QED
    BY <1>1, AnswerHalts

LEMMA CrashHalts ==
  ASSUME NEW s \in Sessions, Crash(s)
  PROVE  /\ Halts(s) /\ DOMAIN reply' = DOMAIN reply
         /\ \A z \in Sessions : z # s => reply'[z] = reply[z]
  BY DEF Crash, Halts

LEMMA WorkMoves ==
  ASSUME NEW s \in Sessions, Work(s)
  PROVE  Moves(s) /\ Serving(s)
  <1>1. CASE QueryFails(s)
    BY <1>1, FailHalts, CrashHalts DEF QueryFails, Moves
  <1>2. CASE RowMissing(s)
    BY <1>2, CrashHalts DEF RowMissing, Moves
  <1>3. CASE NoSuchTeam(s)
    BY <1>3, FailHalts, AdvanceMoves DEF NoSuchTeam, Moves, Issues
  <1>4. CASE UserExists(s)
    BY <1>4, FailHalts, AdvanceMoves DEF UserExists, Moves, Issues
  <1>5. CASE RetrieveMembersName(s)
    BY <1>5, AdvanceMoves DEF RetrieveMembersName, Moves, Issues
  <1>6. CASE RetrieveStatus(s)
    <2>1. CASE req[s].svc = "has_battle"
      BY <1>6, <2>1, AnswerHalts DEF RetrieveStatus, Moves, Issues
    <2>2. CASE req[s].svc # "has_battle"
      BY <1>6, <2>2, AnswerHalts, AdvanceMoves DEF RetrieveStatus, Moves, Issues, Succeed
    <2> QED
      BY <2>1, <2>2
  <1>7. CASE RetrieveField(s)
    BY <1>7, AnswerHalts, AdvanceMoves DEF RetrieveField, Moves, Issues
  <1>8. CASE RetrieveTeams(s)
    BY <1>8, AnswerHalts DEF RetrieveTeams, Moves, Issues
  <1>9. CASE RetrieveTimes(s)
    BY <1>9, AdvanceMoves DEF RetrieveTimes, Moves, Issues
  <1>10. CASE PackUserData(s)
    BY <1>10, AdvanceMoves DEF PackUserData, Moves, Issues
  <1>11. CASE InsertTeam(s)
    BY <1>11, AdvanceMoves DEF InsertTeam, Moves, Issues
  <1>12. CASE InsertUser(s)
    BY <1>12, AdvanceMoves DEF InsertUser, Moves, Issues
  <1>13. CASE WriteTeam(s)
    BY <1>13, AdvanceMoves DEF WriteTeam, Moves
  <1>14. CASE SetTimes(s)
    BY <1>14, AdvanceMoves DEF SetTimes, Moves, Issues
  <1>15. CASE WriteUser(s)
    BY <1>15, AdvanceMoves DEF WriteUser, Moves
  <1> QED
    BY <1>1, <1>2, <1>3, <1>4, <1>5, <1>6, <1>7, <1>8, <1>9, <1>10, <1>11, <1>12,
       <1>13, <1>14, <1>15 DEF Work

\* The statement a serving session is at.
LEMMA StatementType ==
  ASSUME TypeInv, NEW s \in Sessions, Serving(s)
  PROVE  /\ req[s] \in Request /\ names[s] \in Namings /\ step[s] \in Nat
         /\ Statement(s) \in AnyStatement
         /\ Statement(s) \in InsertStatement => req[s].svc = "register" /\ step[s] >= 2
         /\ Statement(s) \in TimesStatement =>
              req[s].svc = "record_battle_result" /\ step[s] \in 1..4
  <1>1. req[s] \in Request /\ names[s] \in Namings /\ step[s] \in 1..Len(Current(s))
    BY DEF TypeInv, TypeOK, Control, Namings
  <1> QED
    BY <1>1, ScriptStatements DEF Statement, Current, TypeInv, TypeOK

LEMMA StatementFields ==
  ASSUME NEW q \in AnyStatement
  PROVE  /\ q.op = "insert_team" => q \in InsertStatement /\ q.f \in Request
         /\ q.op = "insert_user" => q \in InsertStatement /\ q.f \in Request
                                      /\ q.i \in 1..NMembers
         /\ q.op \in {"retrieve_times", "set_times"} => q \in TimesStatement
         /\ q.op = "set_times" => q.more \in {0, 1}
         /\ q.op \in {"retrieve_status", "pack_user_data"} =>
              q.team \in TeamNames /\ q.who \in Persons
         /\ q.op = "set_team_status" => q.val \in {"ONLINE", "OFFLINE", "ONBATTLE"}
         /\ q.op = "set_rival_fields" => q.val \in TeamNames \cup {"NULL"}
         /\ q.op = "set_invitation_fields" => q.val \in {"EMPTY", "WAIT", "ACCEPT"}
         /\ q.op = "set_user_status" => q.val \in UserStatus
         /\ q.op = "set_position" => q.val \in Places
         /\ q.op = "set_bullet_status" => q.val \in {"FIRED", "LOADED"}
  BY DEF AnyStatement, PlainStatement, TimesStatement, InsertStatement

\* The update of some rows of a table leaves a table of as many rows.
LEMMA UpdatedTable ==
  ASSUME NEW Row, NEW t \in Seq(Row), NEW g \in [DOMAIN t -> Row]
  PROVE  g \in Seq(Row) /\ Len(g) = Len(t)
  <1>1. DOMAIN t = 1..Len(t) /\ Len(t) \in Nat
    OBVIOUS
  <1> QED
    BY <1>1, ListType

\* What a statement does to the tables.
KeepsTeams ==
  /\ teams' \in Seq(TeamRow) /\ Len(teams') = Len(teams)
  /\ \A i \in DOMAIN teams : teams'[i].name = teams[i].name
KeepsUsers ==
  /\ users' \in Seq(UserRow) /\ Len(users') = Len(users)
  /\ \A i \in DOMAIN users : /\ users'[i].name = users[i].name
                             /\ users'[i].team = users[i].team
                             /\ users'[i].title = users[i].title
KeepsTimes ==
  \A i \in DOMAIN teams : /\ teams'[i].vs_times = teams[i].vs_times
                          /\ teams'[i].win_times = teams[i].win_times

LEMMA TableTypes ==
  ASSUME TypeInv
  PROVE  /\ teams \in Seq(TeamRow) /\ \A i \in DOMAIN teams : teams[i] \in TeamRow
         /\ users \in Seq(UserRow) /\ \A i \in DOMAIN users : users[i] \in UserRow
  <1>1. teams \in Seq(TeamRow) /\ users \in Seq(UserRow)
    BY DEF TypeInv, TypeOK
  <1>2. \A S : \A t \in Seq(S) : \A i \in DOMAIN t : t[i] \in S
    OBVIOUS
  <1> QED
    BY <1>1, <1>2

\* An update of the teams that changes no name.
LEMMA TeamsKept ==
  ASSUME TypeInv, teams' \in [DOMAIN teams -> TeamRow],
         \A i \in DOMAIN teams : teams'[i].name = teams[i].name
  PROVE  KeepsTeams
  <1>1. teams' \in Seq(TeamRow) /\ Len(teams') = Len(teams)
    BY TableTypes, UpdatedTable
  <1> QED
    BY <1>1 DEF KeepsTeams

LEMMA UsersKept ==
  ASSUME TypeInv, users' \in [DOMAIN users -> UserRow],
         \A i \in DOMAIN users : /\ users'[i].name = users[i].name
                                 /\ users'[i].team = users[i].team
                                 /\ users'[i].title = users[i].title
  PROVE  KeepsUsers
  <1>1. users' \in Seq(UserRow) /\ Len(users') = Len(users)
    BY TableTypes, UpdatedTable
  <1> QED
    BY <1>1 DEF KeepsUsers

LEMMA SameTeams ==
  ASSUME TypeInv, teams' = teams
  PROVE  KeepsTeams /\ KeepsTimes
  BY DEF TypeInv, TypeOK, KeepsTeams, KeepsTimes

LEMMA SameUsers ==
  ASSUME TypeInv, users' = users
  PROVE  KeepsUsers
  BY DEF TypeInv, TypeOK, KeepsUsers

LEMMA WriteTeamKeeps ==
  ASSUME TypeInv, NEW s \in Sessions, WriteTeam(s)
  PROVE  KeepsTeams /\ KeepsTimes
  <1> DEFINE q == Statement(s)
  <1>1. q \in AnyStatement
    BY StatementType DEF WriteTeam
  <1>2. \A i \in DOMAIN teams : teams[i] \in TeamRow
    BY TableTypes
  <1>3. CASE q.op = "set_team_status" /\ UpdateTeams(q.team, LAMBDA r : [r EXCEPT !.status = q.val])
    <2>1. q.val \in {"ONLINE", "OFFLINE", "ONBATTLE"}
      BY <1>1, <1>3, StatementFields
    <2>2. teams' = [i \in DOMAIN teams |->
            IF TeamNamed(i, q.team) THEN [teams[i] EXCEPT !.status = q.val] ELSE teams[i]]
      BY <1>3 DEF UpdateTeams
    <2>3. teams' \in [DOMAIN teams -> TeamRow]
      BY <1>2, <2>1, <2>2 DEF TeamRow
    <2>4. \A i \in DOMAIN teams : /\ teams'[i].name = teams[i].name
                                  /\ teams'[i].vs_times = teams[i].vs_times
                                  /\ teams'[i].win_times = teams[i].win_times
      BY <1>2, <2>2 DEF TeamRow
    <2> QED
      BY <2>3, <2>4, TeamsKept DEF KeepsTimes
  <1>4. CASE q.op = "set_rival_fields" /\ UpdateTeams(q.team, LAMBDA r : [r EXCEPT !.rival = q.val])
    <2>1. q.val \in TeamNames \cup {"NULL"}
      BY <1>1, <1>4, StatementFields
    <2>2. teams' = [i \in DOMAIN teams |->
            IF TeamNamed(i, q.team) THEN [teams[i] EXCEPT !.rival = q.val] ELSE teams[i]]
      BY <1>4 DEF UpdateTeams
    <2>3. teams' \in [DOMAIN teams -> TeamRow]
      BY <1>2, <2>1, <2>2 DEF TeamRow
    <2>4. \A i \in DOMAIN teams : /\ teams'[i].name = teams[i].name
                                  /\ teams'[i].vs_times = teams[i].vs_times
                                  /\ teams'[i].win_times = teams[i].win_times
      BY <1>2, <2>2 DEF TeamRow
    <2> QED
      BY <2>3, <2>4, TeamsKept DEF KeepsTimes
  <1>5. CASE /\ q.op = "set_invitation_fields"
             /\ UpdateTeams(q.team, LAMBDA r : [r EXCEPT !.invitation = q.val])
    <2>1. q.val \in {"EMPTY", "WAIT", "ACCEPT"}
      BY <1>1, <1>5, StatementFields
    <2>2. teams' = [i \in DOMAIN teams |->
            IF TeamNamed(i, q.team) THEN [teams[i] EXCEPT !.invitation = q.val] ELSE teams[i]]
      BY <1>5 DEF UpdateTeams
    <2>3. teams' \in [DOMAIN teams -> TeamRow]
      BY <1>2, <2>1, <2>2 DEF TeamRow
    <2>4. \A i \in DOMAIN teams : /\ teams'[i].name = teams[i].name
                                  /\ teams'[i].vs_times = teams[i].vs_times
                                  /\ teams'[i].win_times = teams[i].win_times
      BY <1>2, <2>2 DEF TeamRow
    <2> QED
      BY <2>3, <2>4, TeamsKept DEF KeepsTimes
  <1> QED
    BY <1>3, <1>4, <1>5 DEF WriteTeam

LEMMA SetTimesKeeps ==
  ASSUME TypeInv, NEW s \in Sessions, SetTimes(s)
  PROVE  KeepsTeams
  <1> DEFINE q == Statement(s)
             n == times[s] + q.more
  <1>1. n \in Nat
    <2>1. q.more \in {0, 1}
      BY StatementType, StatementFields DEF SetTimes, Issues
    <2>2. times[s] \in Nat
      BY DEF TypeInv, TypeOK
    <2> QED
      BY <2>1, <2>2
  <1>2. \A i \in DOMAIN teams : teams[i] \in TeamRow
    BY TableTypes
  <1>3. \/ teams' = [i \in DOMAIN teams |->
              IF TeamNamed(i, q.team) THEN [teams[i] EXCEPT !.vs_times = n] ELSE teams[i]]
        \/ teams' = [i \in DOMAIN teams |->
              IF TeamNamed(i, q.team) THEN [teams[i] EXCEPT !.win_times = n] ELSE teams[i]]
    BY DEF SetTimes, UpdateTeams
  <1>4. teams' \in [DOMAIN teams -> TeamRow]
    BY <1>1, <1>2, <1>3 DEF TeamRow
  <1>5. \A i \in DOMAIN teams : teams'[i].name = teams[i].name
    BY <1>2, <1>3 DEF TeamRow
  <1> QED
    BY <1>4, <1>5, TeamsKept

LEMMA WriteUserKeeps ==
  ASSUME TypeInv, NEW s \in Sessions, WriteUser(s)
  PROVE  KeepsUsers
  <1> DEFINE q == Statement(s)
  <1>1. q \in AnyStatement
    BY StatementType DEF WriteUser
  <1>2. \A i \in DOMAIN users : users[i] \in UserRow
    BY TableTypes
  <1>3. \E st \in UserStatus, pl \in Places, bu \in {"FIRED", "LOADED"} :
          \/ users' = [i \in DOMAIN users |-> IF UserNamed(i, q.team, q.who)
                         THEN [users[i] EXCEPT !.status = st] ELSE users[i]]
          \/ users' = [i \in DOMAIN users |-> IF UserNamed(i, q.team, q.who)
                         THEN [users[i] EXCEPT !.place = pl] ELSE users[i]]
          \/ users' = [i \in DOMAIN users |-> IF UserNamed(i, q.team, q.who)
                         THEN [users[i] EXCEPT !.bullet = bu] ELSE users[i]]
    <2>1. "ONLINE" \in UserStatus /\ "origin" \in Places /\ "FIRED" \in {"FIRED", "LOADED"}
      BY DEF UserStatus, Places
    <2>2. CASE q.op = "set_user_status" /\ UpdateUsers(q.team, q.who, LAMBDA r : [r EXCEPT !.status = q.val])
      BY <1>1, <2>1, <2>2, StatementFields DEF UpdateUsers
    <2>3. CASE q.op = "set_position" /\ UpdateUsers(q.team, q.who, LAMBDA r : [r EXCEPT !.place = q.val])
      BY <1>1, <2>1, <2>3, StatementFields DEF UpdateUsers
    <2>4. CASE q.op = "set_bullet_status" /\ UpdateUsers(q.team, q.who, LAMBDA r : [r EXCEPT !.bullet = q.val])
      BY <1>1, <2>1, <2>4, StatementFields DEF UpdateUsers
    <2>5. CASE q.op = "set_attr" /\ UpdateUsers(q.team, q.who, LAMBDA r : [r EXCEPT !.bullet = "FIRED"])
      BY <2>1, <2>5 DEF UpdateUsers
    <2> QED
      BY <2>2, <2>3, <2>4, <2>5 DEF WriteUser
  <1>4. users' \in [DOMAIN users -> UserRow]
    BY <1>2, <1>3 DEF UserRow
  <1>5. \A i \in DOMAIN users : /\ users'[i].name = users[i].name
                                /\ users'[i].team = users[i].team
                                /\ users'[i].title = users[i].title
    BY <1>2, <1>3 DEF UserRow
  <1> QED
    BY <1>4, <1>5, UsersKept

\* Where add_team stands at each of its statements.
LEMMA Registering ==
  ASSUME TypeInv, NEW s \in Sessions, Serving(s), req[s].svc = "register"
  PROVE  /\ step[s] \in 1..NMembers + 2 /\ Len(Current(s)) = NMembers + 2
         /\ step[s] = 1 => Statement(s) = no_such_team(req[s].team)
         /\ step[s] = 2 => Statement(s) = insert_team(req[s])
         /\ step[s] > 2 => Statement(s) = insert_user(req[s], step[s] - 2)
                             /\ step[s] - 2 \in 1..NMembers
  <1>1. req[s] \in Request /\ step[s] \in 1..Len(Current(s))
    BY DEF TypeInv, Control
  <1>2. /\ Len(Current(s)) = NMembers + 2
        /\ Current(s)[1] = no_such_team(req[s].team)
        /\ Current(s)[2] = insert_team(req[s])
        /\ \A i \in 1..NMembers : Current(s)[i + 2] = insert_user(req[s], i)
    BY <1>1, RegisterScript DEF Current
  <1>3. ASSUME step[s] > 2
        PROVE  step[s] - 2 \in 1..NMembers /\ (step[s] - 2) + 2 = step[s]
    BY <1>1, <1>2, <1>3, NMembersAssumption
  <1> QED
    BY <1>1, <1>2, <1>3 DEF Statement

\* The one statement that adds a team, and the ones that add its members.
Founds(s) ==
  /\ req[s].svc = "register" /\ step[s] = 2
  /\ teams' = Append(teams, NewTeam(req[s])) /\ users' = users
Enrols(s) ==
  /\ req[s].svc = "register" /\ step[s] \in 3..NMembers + 2
  /\ users' = Append(users, NewUser(req[s], step[s] - 2)) /\ teams' = teams

LEMMA InsertTeamFounds ==
  ASSUME TypeInv, NEW s \in Sessions, InsertTeam(s)
  PROVE  Founds(s) /\ teams' \in Seq(TeamRow)
  <1>1. Serving(s) /\ Statement(s).op = "insert_team"
    BY DEF InsertTeam, Issues
  <1>2. req[s].svc = "register" /\ step[s] >= 2 /\ req[s] \in Request
    BY <1>1, StatementType, StatementFields
  <1>3. step[s] = 2
    BY <1>1, <1>2, Registering, NMembersAssumption DEF insert_user
  <1>4. Statement(s).f = req[s]
    BY <1>1, <1>2, <1>3, Registering DEF insert_team
  <1>5. NewTeam(req[s]) \in TeamRow
    BY <1>2 DEF Request, NewTeam, TeamRow
  <1>6. teams' = Append(teams, NewTeam(req[s])) /\ users' = users
    BY <1>4 DEF InsertTeam
  <1>7. teams \in Seq(TeamRow)
    BY TableTypes
  <1>8. teams' \in Seq(TeamRow)
    BY <1>5, <1>6, <1>7
  <1> QED
    BY <1>2, <1>3, <1>6, <1>8 DEF Founds

LEMMA InsertUserEnrols ==
  ASSUME TypeInv, NEW s \in Sessions, InsertUser(s)
  PROVE  Enrols(s) /\ users' \in Seq(UserRow)
  <1>1. Serving(s) /\ Statement(s).op = "insert_user"
    BY DEF InsertUser, Issues
  <1>2. req[s].svc = "register" /\ step[s] >= 2 /\ req[s] \in Request
    BY <1>1, StatementType, StatementFields
  <1>3. step[s] > 2 /\ step[s] \in 3..NMembers + 2 /\ step[s] - 2 \in 1..NMembers
    BY <1>1, <1>2, Registering, NMembersAssumption DEF insert_team
  <1>4. Statement(s).f = req[s] /\ Statement(s).i = step[s] - 2
    BY <1>1, <1>2, <1>3, Registering DEF insert_user
  <1>5. NewUser(req[s], step[s] - 2) \in UserRow
    BY <1>2, <1>3, WordsAssumption DEF Request, Roster, NewUser, UserRow, UserStatus, Places
  <1>6. users' = Append(users, NewUser(req[s], step[s] - 2)) /\ teams' = teams
    BY <1>4 DEF InsertUser
  <1>7. users \in Seq(UserRow)
    BY TableTypes
  <1>8. users' \in Seq(UserRow)
    BY <1>5, <1>6, <1>7
  <1> QED
    BY <1>2, <1>3, <1>6, <1>8 DEF Enrols

\* Every statement adds a team, adds a member, or keeps all rows.
LEMMA WorkTables ==
  ASSUME TypeInv, NEW s \in Sessions, Work(s)
  PROVE  /\ Founds(s) \/ Enrols(s) \/ (KeepsTeams /\ KeepsUsers)
         /\ teams' \in Seq(TeamRow) /\ users' \in Seq(UserRow)
  <1>0. teams \in Seq(TeamRow) /\ users \in Seq(UserRow)
    BY TableTypes
  <1>1. CASE InsertTeam(s)
    BY <1>0, <1>1, InsertTeamFounds DEF Founds
  <1>2. CASE InsertUser(s)
    BY <1>0, <1>2, InsertUserEnrols DEF Enrols
  <1>3. CASE WriteTeam(s)
    <2>1. users' = users
      BY <1>3 DEF WriteTeam
    <2> QED
      BY <1>3, <2>1, WriteTeamKeeps, SameUsers DEF KeepsTeams, KeepsUsers
  <1>4. CASE SetTimes(s)
    <2>1. users' = users
      BY <1>4 DEF SetTimes
    <2> QED
      BY <1>4, <2>1, SetTimesKeeps, SameUsers DEF KeepsTeams, KeepsUsers
  <1>5. CASE WriteUser(s)
    <2>1. teams' = teams
      BY <1>5 DEF WriteUser
    <2> QED
      BY <1>5, <2>1, WriteUserKeeps, SameTeams DEF KeepsTeams, KeepsUsers
  <1>6. CASE \/ QueryFails(s) \/ RowMissing(s) \/ NoSuchTeam(s) \/ UserExists(s)
             \/ RetrieveMembersName(s) \/ RetrieveStatus(s) \/ RetrieveField(s)
             \/ RetrieveTeams(s) \/ RetrieveTimes(s) \/ PackUserData(s)
    <2>1. teams' = teams /\ users' = users
      BY <1>6 DEF QueryFails, RowMissing, NoSuchTeam, UserExists, RetrieveMembersName,
         RetrieveStatus, RetrieveField, RetrieveTeams, RetrieveTimes, PackUserData, tables
    <2> QED
      BY <1>0, <2>1, SameTeams, SameUsers
  <1> QED
    BY <1>1, <1>2, <1>3, <1>4, <1>5, <1>6 DEF Work

\* The members a reply may name.
Marks == TeamNames \X Persons

LEMMA SeenGrows ==
  ASSUME NEW D, NEW M, NEW g \in [D -> SUBSET M], NEW d \in D, NEW x \in M
  PROVE  [g EXCEPT ![d] = @ \cup {x}] \in [D -> SUBSET M]
  OBVIOUS

\* What a session keeps to itself stays of its type.
LEMMA WorkLocals ==
  ASSUME TypeInv, NEW s \in Sessions, Work(s)
  PROVE  /\ names' \in [Sessions -> Roster \cup {NoNames}]
         /\ times' \in [Sessions -> Nat]
         /\ absent' \in [Sessions -> BOOLEAN]
         /\ seen' \in [Sessions -> SUBSET Marks]
  <1>0. /\ names \in [Sessions -> Roster \cup {NoNames}]
        /\ times \in [Sessions -> Nat]
        /\ absent \in [Sessions -> BOOLEAN]
        /\ seen \in [Sessions -> SUBSET Marks]
    BY DEF TypeInv, TypeOK, Marks, Persons
  <1>1. CASE RetrieveMembersName(s)
    <2>1. PICK i \in DOMAIN teams : names' = [names EXCEPT ![s] = teams[i].roster]
      BY <1>1 DEF RetrieveMembersName
    <2>2. teams[i].roster \in Roster
      BY TableTypes DEF TeamRow
    <2>3. times' = times /\ absent' = absent /\ seen' = seen
      BY <1>1 DEF RetrieveMembersName
    <2> QED
      BY <1>0, <2>1, <2>2, <2>3
  <1>2. CASE RetrieveStatus(s)
    <2> DEFINE m == <<Statement(s).team, Statement(s).who>>
    <2>1. m \in Marks
      BY <1>2, StatementType, StatementFields DEF RetrieveStatus, Issues, Marks
    <2>2. \E here \in BOOLEAN :
            /\ absent' = [absent EXCEPT ![s] = @ \/ ~here]
            /\ seen' = IF here THEN [seen EXCEPT ![s] = @ \cup {m}] ELSE seen
      BY <1>2 DEF RetrieveStatus
    <2>3. names' = names /\ times' = times
      BY <1>2 DEF RetrieveStatus
    <2> HIDE DEF m
    <2>4. absent' \in [Sessions -> BOOLEAN]
      BY <1>0, <2>2
    <2>5. seen' \in [Sessions -> SUBSET Marks]
      BY <1>0, <2>1, <2>2, SeenGrows
    <2> QED
      BY <1>0, <2>3, <2>4, <2>5
  <1>3. CASE RetrieveTimes(s)
    <2>1. PICK i \in DOMAIN teams : times' = [times EXCEPT ![s] =
            IF Statement(s).col = "vs_times" THEN teams[i].vs_times ELSE teams[i].win_times]
      BY <1>3 DEF RetrieveTimes
    <2>2. teams[i].vs_times \in Nat /\ teams[i].win_times \in Nat
      BY TableTypes DEF TeamRow
    <2>3. names' = names /\ absent' = absent /\ seen' = seen
      BY <1>3 DEF RetrieveTimes
    <2> QED
      BY <1>0, <2>1, <2>2, <2>3
  <1>4. CASE PackUserData(s)
    <2> DEFINE m == <<Statement(s).team, Statement(s).who>>
    <2>1. m \in Marks
      BY <1>4, StatementType, StatementFields DEF PackUserData, Issues, Marks
    <2>2. seen' = [seen EXCEPT ![s] = @ \cup {m}] \/ seen' = seen
      BY <1>4 DEF PackUserData
    <2>3. names' = names /\ times' = times /\ absent' = absent
      BY <1>4 DEF PackUserData
    <2> HIDE DEF m
    <2>4. seen' \in [Sessions -> SUBSET Marks]
      BY <1>0, <2>1, <2>2, SeenGrows
    <2> QED
      BY <1>0, <2>3, <2>4
  <1>5. CASE \/ QueryFails(s) \/ RowMissing(s) \/ NoSuchTeam(s) \/ UserExists(s)
             \/ RetrieveField(s) \/ RetrieveTeams(s) \/ InsertTeam(s) \/ InsertUser(s)
             \/ WriteTeam(s) \/ SetTimes(s) \/ WriteUser(s)
    <2>1. names' = names /\ times' = times /\ absent' = absent /\ seen' = seen
      BY <1>5 DEF QueryFails, RowMissing, NoSuchTeam, UserExists, RetrieveField,
         RetrieveTeams, InsertTeam, InsertUser, WriteTeam, SetTimes, WriteUser, locals
    <2> QED
      BY <1>0, <2>1
  <1> QED
    BY <1>1, <1>2, <1>3, <1>4, <1>5 DEF Work

LEMMA TypeInit == Init => TypeInv
  <1> SUFFICES ASSUME Init PROVE TypeInv
    OBVIOUS
  <1>1. teams \in Seq(TeamRow) /\ users \in Seq(UserRow)
    BY TablesAssumption DEF Init
  <1>2. /\ seen \in [Sessions -> SUBSET Marks]
        /\ sent \in [Sessions -> Nat] /\ \A s \in Sessions : sent[s] <= MaxRequests[s]
    BY BoundsAssumption DEF Init
  <1>3. TypeOK
    BY <1>1, <1>2 DEF Init, TypeOK, Marks, Persons
  <1>4. Control
    BY DEF Init, Control, Serving
  <1> QED
    BY <1>3, <1>4 DEF TypeInv

LEMMA WorkType ==
  ASSUME TypeInv, NEW s \in Sessions, Work(s)
  PROVE  TypeInv'
  <1>1. Moves(s) /\ Serving(s)
    BY WorkMoves
  <1>2. /\ pc \in [Sessions -> {"listen", "recv", "query", "exit"}]
        /\ step \in [Sessions -> Nat \ {0}]
    BY DEF TypeInv, TypeOK
  <1>3. /\ pc' \in [Sessions -> {"listen", "recv", "query", "exit"}]
        /\ step' \in [Sessions -> Nat \ {0}]
    BY <1>1, <1>2 DEF Moves, Steps, Halts
  <1>4. /\ req' \in [Sessions -> Request \cup {NoRequest}]
        /\ DOMAIN reply' = Sessions /\ linked' \in [Sessions -> BOOLEAN]
    BY <1>1 DEF Moves, SameSession, TypeInv, TypeOK
  <1>5. sent' \in [Sessions -> Nat] /\ \A z \in Sessions : sent'[z] <= MaxRequests[z]
    BY <1>1 DEF Moves, SameSession, TypeInv, TypeOK
  <1>6. TypeOK'
    BY <1>3, <1>4, <1>5, WorkTables, WorkLocals DEF TypeOK, Marks, Persons
  <1>7. ASSUME NEW z \in Sessions, Serving(z)'
        PROVE  req'[z] \in Request /\ step'[z] \in 1..Len(Current(z)')
    <2>1. req' = req
      BY <1>1 DEF Moves, SameSession
    <2>2. Serving(z)
      BY <1>1, <1>2, <1>7 DEF Moves, Steps, Halts, Serving
    <2>3. req[z] \in Request /\ step[z] \in 1..Len(Current(z))
      BY <2>2 DEF TypeInv, Control
    <2>4. names[z] \in Namings /\ names'[z] \in Namings
      BY WorkLocals DEF TypeInv, TypeOK, Namings
    <2>5. Len(Current(z)') = Len(Current(z)) /\ Len(Current(z)) \in Nat
      BY <2>1, <2>3, <2>4, ScriptLength DEF Current
    <2>6. step'[z] \in 1..Len(Current(z))
      <3>1. CASE Steps(s)
        BY <1>2, <2>3, <2>5, <3>1 DEF Steps
      <3>2. CASE Halts(s)
        BY <2>3, <3>2 DEF Halts
      <3> QED
        BY <1>1, <3>1, <3>2 DEF Moves
    <2> QED
      BY <2>1, <2>3, <2>5, <2>6
  <1> QED
    BY <1>6, <1>7 DEF TypeInv, Control

LEMMA SendsBound ==
  ASSUME TypeOK, NEW s \in Sessions, Sends(s)
  PROVE  sent' \in [Sessions -> Nat] /\ \A z \in Sessions : sent'[z] <= MaxRequests[z]
  <1>1. sent \in [Sessions -> Nat] /\ \A z \in Sessions : sent[z] <= MaxRequests[z]
    BY DEF TypeOK
  <1>2. sent[s] < MaxRequests[s] /\ sent' = [sent EXCEPT ![s] = @ + 1]
    BY DEF Sends
  <1>3. \A z \in Sessions : sent[z] \in Nat /\ MaxRequests[z] \in Nat
    BY <1>1, BoundsAssumption
  <1> QED
    BY <1>1, <1>2, <1>3

LEMMA EnvironmentType ==
  ASSUME TypeInv, NEW s \in Sessions, Environment(s)
  PROVE  TypeInv'
  <1>0. TypeOK /\ Control
    BY DEF TypeInv
  <1>1. CASE Connect(s)
    <2>1. TypeOK'
      BY <1>0, <1>1 DEF Connect, TypeOK, tables, locals
    <2>2. Control'
      BY <1>0, <1>1 DEF Connect, TypeOK, Control, Serving, Current, locals
    <2> QED
      BY <2>1, <2>2 DEF TypeInv
  <1>2. ASSUME NEW f \in Requests[s], Receive(s, f)
        PROVE  TypeInv'
    <2>1. f \in Request
      BY RequestsAssumption
    <2>2. sent' \in [Sessions -> Nat] /\ \A z \in Sessions : sent'[z] <= MaxRequests[z]
      BY <1>0, <1>2, SendsBound DEF Receive
    <2>3. TypeOK'
      <3>1. /\ names' \in [Sessions -> Roster \cup {NoNames}]
            /\ times' \in [Sessions -> Nat] /\ absent' \in [Sessions -> BOOLEAN]
            /\ seen' \in [Sessions -> SUBSET (TeamNames \X (UserNames \cup {""}))]
        BY <1>0, <1>2 DEF Receive, TypeOK
      <3>2. /\ pc' \in [Sessions -> {"listen", "recv", "query", "exit"}]
            /\ req' \in [Sessions -> Request \cup {NoRequest}]
            /\ step' \in [Sessions -> Nat \ {0}]
            /\ DOMAIN reply' = Sessions
        <4>1. pc' = [pc EXCEPT ![s] = "query"] /\ step' = [step EXCEPT ![s] = 1]
          BY <1>2 DEF Receive
        <4>2. req' = [req EXCEPT ![s] = f] /\ DOMAIN reply' = DOMAIN reply
          BY <1>2 DEF Receive
        <4>3. /\ pc \in [Sessions -> {"listen", "recv", "query", "exit"}]
              /\ req \in [Sessions -> Request \cup {NoRequest}]
              /\ step \in [Sessions -> Nat \ {0}] /\ DOMAIN reply = Sessions
          BY <1>0 DEF TypeOK
        <4> QED
          BY <2>1, <4>1, <4>2, <4>3
      <3>3. teams' = teams /\ users' = users /\ linked' = linked
        BY <1>2 DEF Receive, tables
      <3> QED
        BY <1>0, <2>2, <3>1, <3>2, <3>3 DEF TypeOK
    <2>4. Len(Script(f, NoNames)) \in Nat /\ Len(Script(f, NoNames)) >= 1
      BY <2>1, ScriptNotEmpty DEF Namings
    <2>5. ASSUME NEW z \in Sessions, Serving(z)'
          PROVE  req'[z] \in Request /\ step'[z] \in 1..Len(Current(z)')
      <3>1. CASE z = s
        <4>1. req'[z] = f /\ names'[z] = NoNames /\ step'[z] = 1
          BY <1>0, <1>2, <3>1 DEF Receive, TypeOK
        <4>2. Current(z)' = Script(f, NoNames)
          BY <4>1 DEF Current
        <4> QED
          BY <2>1, <2>4, <4>1, <4>2
      <3>2. CASE z # s
        BY <1>0, <1>2, <2>5, <3>2 DEF Receive, Current, TypeOK, Control, Serving
      <3> QED
        BY <3>1, <3>2
    <2> QED
      BY <2>3, <2>5 DEF TypeInv, Control
  <1>3. CASE ReceiveGarbled(s)
    <2>1. sent' \in [Sessions -> Nat] /\ \A z \in Sessions : sent'[z] <= MaxRequests[z]
      BY <1>0, <1>3, SendsBound DEF ReceiveGarbled
    <2>2. TypeOK'
      BY <1>0, <1>3, <2>1 DEF ReceiveGarbled, Sends, TypeOK, tables, locals
    <2>3. Control'
      BY <1>0, <1>3 DEF ReceiveGarbled, Sends, TypeOK, Control, Serving, Current, locals
    <2> QED
      BY <2>2, <2>3 DEF TypeInv
  <1>4. CASE Disconnect(s)
    <2>1. TypeOK'
      BY <1>0, <1>4 DEF Disconnect, Crash, TypeOK, tables, locals, SameSession
    <2>2. Control'
      BY <1>0, <1>4 DEF Disconnect, Crash, TypeOK, Control, Serving, Current, locals, SameSession
    <2> QED
      BY <2>1, <2>2 DEF TypeInv
  <1>5. CASE LoseDb(s)
    <2>1. TypeOK'
      BY <1>0, <1>5 DEF LoseDb, TypeOK, tables, locals
    <2>2. Control'
      BY <1>0, <1>5 DEF LoseDb, Control, Serving, Current, locals
    <2> QED
      BY <2>1, <2>2 DEF TypeInv
  <1> QED
    BY <1>1, <1>2, <1>3, <1>4, <1>5 DEF Environment

LEMMA TypeStep == TypeInv /\ [Next]_vars => TypeInv'
  <1> SUFFICES ASSUME TypeInv, [Next]_vars PROVE TypeInv'
    OBVIOUS
  <1>1. CASE Next
    BY <1>1, WorkType, EnvironmentType DEF Next
  <1>2. CASE UNCHANGED vars
    BY <1>2 DEF vars, TypeInv, TypeOK, Control, Serving, Current
  <1> QED
    BY <1>1, <1>2

\* Type correctness of the server: the tables keep well-formed rows, whatever the
\* sessions ask and whenever they fail, and a session that serves a request is
\* at a statement of its handler.
THEOREM TypeCorrect == Spec => [](TypeOK /\ Control)
  <1>1. Init => TypeInv
    BY TypeInit
  <1>2. TypeInv /\ [Next]_vars => TypeInv'
    BY TypeStep
  <1>3. TypeInv => TypeOK /\ Control
    BY DEF TypeInv
  <1> QED
    BY <1>1, <1>2, <1>3, PTL DEF Spec

------------------------------------------------------------------------------
(* Registration.                                                            *)

\* What one statement of add_team can do.
LEMMA RegisterWork ==
  ASSUME TypeInv, NEW s \in Sessions, Work(s), req[s].svc = "register"
  PROVE  \/ step[s] = 1 /\ Steps(s) /\ ~SomeTeam(req[s].team)
              /\ teams' = teams /\ users' = users
         \/ step[s] = 2 /\ Steps(s) /\ Founds(s)
         \/ step[s] \in 3..NMembers + 2 /\ Enrols(s)
              /\ (Steps(s) \/ (step[s] = NMembers + 2 /\ Halts(s)))
         \/ /\ Halts(s) /\ teams' = teams /\ users' = users
            /\ pc'[s] = "exit" \/ reply'[s].code = "404"
  <1>1. Serving(s)
    BY WorkMoves
  <1>2. /\ step[s] \in 1..NMembers + 2 /\ Len(Current(s)) = NMembers + 2
        /\ step[s] = 1 => Statement(s) = no_such_team(req[s].team)
        /\ step[s] = 2 => Statement(s) = insert_team(req[s])
        /\ step[s] > 2 => Statement(s) = insert_user(req[s], step[s] - 2)
    BY <1>1, Registering
  <1>3. Statement(s).op \in {"no_such_team", "insert_team", "insert_user"}
    BY <1>2 DEF no_such_team, insert_team, insert_user
  <1>4. pc[s] = "query" /\ s \in DOMAIN pc /\ s \in DOMAIN reply
    BY <1>1 DEF Serving, TypeInv, TypeOK
  <1>5. CASE QueryFails(s)
    <2>1. teams' = teams /\ users' = users /\ Fail(s)
      BY <1>5 DEF QueryFails, tables, Packing
    <2>2. Answer(s, "404", "", {})
      BY <2>1 DEF Fail, Listing
    <2> QED
      BY <1>4, <2>1, <2>2, FailHalts DEF Answer
  <1>6. CASE NoSuchTeam(s)
    <2>1. teams' = teams /\ users' = users
      BY <1>6 DEF NoSuchTeam, tables
    <2>2. step[s] = 1 /\ Statement(s).team = req[s].team
      BY <1>2, <1>6 DEF NoSuchTeam, Issues, no_such_team, insert_team, insert_user
    <2>3. CASE SomeTeam(req[s].team)
      <3>1. Fail(s)
        BY <1>6, <2>2, <2>3 DEF NoSuchTeam
      <3>2. Answer(s, "404", "", {})
        BY <3>1 DEF Fail, Listing
      <3> QED
        BY <1>4, <2>1, <3>1, <3>2, FailHalts DEF Answer
    <2>4. CASE ~SomeTeam(req[s].team)
      <3>1. Advance(s)
        BY <1>6, <2>2, <2>4 DEF NoSuchTeam
      <3>2. Steps(s)
        BY <1>2, <2>2, <3>1, NMembersAssumption DEF Advance, Steps
      <3> QED
        BY <2>1, <2>2, <2>4, <3>2
    <2> QED
      BY <2>3, <2>4
  <1>7. CASE InsertTeam(s)
    <2>1. Founds(s) /\ step[s] = 2
      BY <1>7, InsertTeamFounds DEF Founds
    <2>2. Advance(s)
      BY <1>7 DEF InsertTeam
    <2>3. Steps(s)
      BY <1>2, <2>1, <2>2, NMembersAssumption DEF Advance, Steps
    <2> QED
      BY <2>1, <2>3
  <1>8. CASE InsertUser(s)
    <2>1. Enrols(s) /\ step[s] \in 3..NMembers + 2
      BY <1>8, InsertUserEnrols DEF Enrols
    <2>2. Advance(s)
      BY <1>8 DEF InsertUser
    <2>3. step[s] < NMembers + 2 => Steps(s)
      BY <1>2, <2>2 DEF Advance, Steps
    <2>4. step[s] = NMembers + 2 => Halts(s)
      <3>1. ASSUME step[s] = NMembers + 2 PROVE ~(step[s] < Len(Current(s)))
        BY <1>2, <3>1, NMembersAssumption
      <3> QED
        BY <2>2, <3>1, AnswerHalts DEF Advance, Succeed
    <2> QED
      BY <2>1, <2>3, <2>4, NMembersAssumption
  <1>9. ~RowMissing(s)
    BY <1>3 DEF RowMissing
  <1>10. ~(\/ UserExists(s) \/ RetrieveMembersName(s) \/ RetrieveStatus(s)
           \/ RetrieveField(s) \/ RetrieveTeams(s) \/ RetrieveTimes(s)
           \/ PackUserData(s) \/ WriteTeam(s) \/ SetTimes(s) \/ WriteUser(s))
    BY <1>3 DEF UserExists, RetrieveMembersName, RetrieveStatus, RetrieveField,
       RetrieveTeams, RetrieveTimes, PackUserData, WriteTeam, SetTimes, WriteUser, Issues
  <1> QED
    BY <1>5, <1>6, <1>7, <1>8, <1>9, <1>10 DEF Work

\* Teams are never removed and never renamed.
LEMMA TeamsRemain ==
  ASSUME TypeInv, NEW s \in Sessions, Work(s)
  PROVE  \A i \in DOMAIN teams : i \in DOMAIN teams' /\ teams'[i].name = teams[i].name
  <1>1. teams \in Seq(TeamRow)
    BY TableTypes
  <1>2. CASE Founds(s)
    BY <1>1, <1>2 DEF Founds
  <1>3. CASE Enrols(s)
    BY <1>3 DEF Enrols
  <1>4. CASE KeepsTeams
    BY <1>1, <1>4 DEF KeepsTeams
  <1> QED
    BY <1>2, <1>3, <1>4, WorkTables

\* Every user row of the next state is an old one or the one just inserted.
LEMMA UsersRemain ==
  ASSUME TypeInv, NEW s \in Sessions, Work(s)
  PROVE  /\ \A i \in DOMAIN users :
              /\ i \in DOMAIN users' /\ users'[i].team = users[i].team
              /\ users'[i].name = users[i].name /\ users'[i].title = users[i].title
         /\ \A i \in DOMAIN users' : i \notin DOMAIN users =>
              Enrols(s) /\ users'[i].team = req[s].team
  <1>1. users \in Seq(UserRow)
    BY TableTypes
  <1>2. CASE Founds(s)
    BY <1>2 DEF Founds
  <1>3. CASE Enrols(s)
    <2>1. users' = Append(users, NewUser(req[s], step[s] - 2))
      BY <1>3 DEF Enrols
    <2>2. NewUser(req[s], step[s] - 2).team = req[s].team
      BY DEF NewUser
    <2> QED
      BY <1>1, <1>3, <2>1, <2>2
  <1>4. CASE KeepsUsers
    BY <1>1, <1>4 DEF KeepsUsers
  <1> QED
    BY <1>2, <1>3, <1>4, WorkTables

\* What clients and the network do leaves the tables alone, and a session that
\* serves a request afterwards did so before, with the same request, or has just
\* received it.
LEMMA EnvironmentFrame ==
  ASSUME TypeInv, NEW s \in Sessions, Environment(s)
  PROVE  /\ teams' = teams /\ users' = users
         /\ \A z \in Sessions : Serving(z)' =>
              \/ Serving(z) /\ req'[z] = req[z] /\ step'[z] = step[z] /\ times'[z] = times[z]
              \/ step'[z] = 1 /\ req'[z] \in Requests[z]
         /\ \A z \in Sessions : (pc'[z] = "recv" /\ reply'[z].code = "200") =>
              \/ pc[z] = "recv" /\ req'[z] = req[z] /\ reply'[z] = reply[z]
              \/ pc[z] = "listen" /\ req'[z] = req[z] /\ reply'[z] = reply[z]
              \/ req'[z] = NoRequest
  <1>0. /\ pc \in [Sessions -> {"listen", "recv", "query", "exit"}]
        /\ DOMAIN req = Sessions /\ DOMAIN step = Sessions /\ DOMAIN reply = Sessions
        /\ DOMAIN times = Sessions
    BY DEF TypeInv, TypeOK
  <1>1. CASE Connect(s)
    BY <1>0, <1>1 DEF Connect, Serving, tables, locals
  <1>2. ASSUME NEW f \in Requests[s], Receive(s, f)
        PROVE  /\ teams' = teams /\ users' = users
               /\ \A z \in Sessions : Serving(z)' =>
                    \/ Serving(z) /\ req'[z] = req[z] /\ step'[z] = step[z] /\ times'[z] = times[z]
                    \/ step'[z] = 1 /\ req'[z] \in Requests[z]
               /\ \A z \in Sessions : (pc'[z] = "recv" /\ reply'[z].code = "200") =>
                    pc[z] = "recv" /\ req'[z] = req[z] /\ reply'[z] = reply[z]
    BY <1>0, <1>2 DEF Receive, Serving, tables
  <1>3. CASE ReceiveGarbled(s)
    BY <1>0, <1>3 DEF ReceiveGarbled, Serving, tables, locals, Sends
  <1>4. CASE Disconnect(s)
    BY <1>0, <1>4 DEF Disconnect, Crash, Serving, tables, locals, SameSession
  <1>5. CASE LoseDb(s)
    BY <1>0, <1>5 DEF LoseDb, Serving, tables, locals
  <1> QED
    BY <1>1, <1>2, <1>3, <1>4, <1>5 DEF Environment

\* UsersHaveTeam is inductive once it says that a handler inserting members has
\* its team in the table.
EnrolInv ==
  /\ UsersHaveTeam
  /\ \A s \in Sessions :
       (Serving(s) /\ req[s].svc = "register" /\ step[s] > 2) => SomeTeam(req[s].team)

LEMMA SomeTeamRemains ==
  ASSUME TypeInv, NEW s \in Sessions, Work(s), NEW t, SomeTeam(t)
  PROVE  SomeTeam(t)'
  BY TeamsRemain DEF SomeTeam, TeamNamed

LEMMA EnrolWork ==
  ASSUME TypeInv, EnrolInv, NEW s \in Sessions, Work(s)
  PROVE  EnrolInv'
  <1>1. Moves(s) /\ Serving(s)
    BY WorkMoves
  <1>2. DOMAIN pc = Sessions /\ step \in [Sessions -> Nat \ {0}] /\ teams \in Seq(TeamRow)
    BY TableTypes DEF TypeInv, TypeOK
  <1>3. ASSUME NEW i \in DOMAIN users'
        PROVE  \E j \in DOMAIN teams' : teams'[j].name = users'[i].team
    <2>1. CASE i \in DOMAIN users
      <3>1. PICK j \in DOMAIN teams : teams[j].name = users[i].team
        BY <2>1 DEF EnrolInv, UsersHaveTeam
      <3> QED
        BY <2>1, <3>1, TeamsRemain, UsersRemain
    <2>2. CASE i \notin DOMAIN users
      <3>1. Enrols(s) /\ users'[i].team = req[s].team
        BY <2>2, UsersRemain
      <3>2. SomeTeam(req[s].team)
        BY <1>1, <3>1, NMembersAssumption DEF EnrolInv, Enrols
      <3> QED
        BY <3>1, <3>2, TeamsRemain DEF SomeTeam, TeamNamed
    <2> QED
      BY <2>1, <2>2
  <1>4. ASSUME NEW z \in Sessions, Serving(z)', req'[z].svc = "register", step'[z] > 2
        PROVE  SomeTeam(req[z].team)'
    <2>1. req' = req
      BY <1>1 DEF Moves, SameSession
    <2>2. CASE step[z] > 2
      <3>1. Serving(z)
        BY <1>1, <1>2, <1>4 DEF Moves, Steps, Halts, Serving
      <3>2. SomeTeam(req[z].team)
        BY <1>4, <2>1, <2>2, <3>1 DEF EnrolInv
      <3> QED
        BY <2>1, <3>2, SomeTeamRemains
    <2>3. CASE ~(step[z] > 2)
      <3>1. z = s /\ step'[z] = step[z] + 1 /\ Steps(s)
        BY <1>1, <1>2, <1>4, <2>3 DEF Moves, Steps, Halts
      <3>2. step[s] = 2
        BY <1>2, <1>4, <2>3, <3>1
      <3>3. ~Halts(s)
        BY <1>1, <1>2, <3>1 DEF Steps, Halts, Serving
      <3>4. Founds(s)
        BY <1>4, <2>1, <3>1, <3>2, <3>3, RegisterWork
      <3>5. teams' = Append(teams, NewTeam(req[s])) /\ NewTeam(req[s]).name = req[s].team
        BY <3>4 DEF Founds, NewTeam
      <3>6. /\ Len(teams) + 1 \in DOMAIN teams'
            /\ teams'[Len(teams) + 1].name = req[s].team
        BY <1>2, <3>5
      <3> QED
        BY <2>1, <3>1, <3>6 DEF SomeTeam, TeamNamed
    <2> QED
      BY <2>2, <2>3
  <1> QED
    BY <1>3, <1>4 DEF EnrolInv, UsersHaveTeam

LEMMA EnrolStep == TypeInv /\ EnrolInv /\ [Next]_vars => EnrolInv'
  <1> SUFFICES ASSUME TypeInv, EnrolInv, [Next]_vars PROVE EnrolInv'
    OBVIOUS
  <1>1. ASSUME NEW s \in Sessions, Environment(s) PROVE EnrolInv'
    BY <1>1, EnvironmentFrame DEF EnrolInv, UsersHaveTeam, SomeTeam, TeamNamed
  <1>2. CASE Next
    BY <1>1, <1>2, EnrolWork DEF Next
  <1>3. CASE UNCHANGED vars
    BY <1>3 DEF vars, EnrolInv, UsersHaveTeam, SomeTeam, TeamNamed, Serving
  <1> QED
    BY <1>2, <1>3

\* No member without a team: in every interleaving of any number of sessions,
\* with any failures, the table of users refers to teams that are in the table
\* of teams.
THEOREM MembersHaveTeams == Spec => []UsersHaveTeam
  <1>1. Init => TypeInv
    BY TypeInit
  <1>2. Init => EnrolInv
    BY TablesAssumption DEF Init, EnrolInv, UsersHaveTeam, Serving
  <1>3. TypeInv /\ [Next]_vars => TypeInv'
    BY TypeStep
  <1>4. TypeInv /\ EnrolInv /\ [Next]_vars => EnrolInv'
    BY EnrolStep
  <1>5. EnrolInv => UsersHaveTeam
    BY DEF EnrolInv
  <1> QED
    BY <1>1, <1>2, <1>3, <1>4, <1>5, PTL DEF Spec
------------------------------------------------------------------------------
(* Team names.                                                              *)

\* A session that serves a request after a statement served it before, and only
\* the session whose statement it was has moved.
LEMMA ServingRemains ==
  ASSUME TypeInv, NEW s \in Sessions, Work(s), NEW z \in Sessions, Serving(z)'
  PROVE  /\ Serving(z) /\ req'[z] = req[z]
         /\ z # s => step'[z] = step[z]
         /\ z = s => Steps(s) /\ step'[s] = step[s] + 1 /\ ~Halts(s)
  <1>1. Moves(s) /\ Serving(s)
    BY WorkMoves
  <1>2. DOMAIN pc = Sessions /\ step \in [Sessions -> Nat \ {0}]
    BY DEF TypeInv, TypeOK
  <1>3. CASE Steps(s)
    <2>1. ~Halts(s)
      BY <1>2, <1>3 DEF Steps, Halts
    <2> QED
      BY <1>1, <1>2, <1>3, <2>1 DEF Moves, Steps, Serving, SameSession
  <1>4. CASE Halts(s)
    <2>1. z # s
      BY <1>2, <1>4 DEF Halts, Serving
    <2> QED
      BY <1>1, <1>2, <1>4, <2>1 DEF Moves, Halts, Serving, SameSession
  <1> QED
    BY <1>1, <1>3, <1>4 DEF Moves

\* A session serves what its client may ask.
Asked == \A s \in Sessions : Serving(s) => req[s] \in Requests[s]

LEMMA AskedWork ==
  ASSUME TypeInv, Asked, NEW s \in Sessions, Work(s)
  PROVE  Asked'
  BY ServingRemains DEF Asked

\* TeamNamesUnique is inductive once it says that a handler about to insert the
\* team of its connection still finds no such team.
NamesInv ==
  /\ Asked /\ TeamNamesUnique
  /\ \A s \in Sessions :
       (Serving(s) /\ req[s].svc = "register" /\ step[s] = 2
          /\ SoleRegistrar(req[s].team)) => ~SomeTeam(req[s].team)

LEMMA SoleSession ==
  ASSUME Asked, NEW s \in Sessions, NEW z \in Sessions, Serving(s), Serving(z),
         req[s].svc = "register", req[z].svc = "register",
         req[s].team = req[z].team, SoleRegistrar(req[s].team)
  PROVE  s = z
  BY DEF Asked, SoleRegistrar

LEMMA NamesWork ==
  ASSUME TypeInv, NamesInv, NEW s \in Sessions, Work(s)
  PROVE  NamesInv'
  <1>0. Asked /\ Asked'
    BY AskedWork DEF NamesInv
  <1>1. Serving(s) /\ teams \in Seq(TeamRow)
    BY WorkMoves, TableTypes
  <1>2. \/ Founds(s)
        \/ DOMAIN teams' = DOMAIN teams /\ \A i \in DOMAIN teams : teams'[i].name = teams[i].name
    <2>1. CASE KeepsTeams
      BY <1>1, <2>1 DEF KeepsTeams
    <2> QED
      BY <2>1, WorkTables DEF Enrols
  <1>3. TeamNamesUnique'
    <2>1. CASE Founds(s)
      <3>1. /\ DOMAIN teams' = 1..Len(teams) + 1 /\ DOMAIN teams = 1..Len(teams) /\ Len(teams) \in Nat
            /\ \A i \in DOMAIN teams : teams'[i] = teams[i]
            /\ teams'[Len(teams) + 1].name = req[s].team
        BY <1>1, <2>1 DEF Founds, NewTeam
      <3>2. SoleRegistrar(req[s].team) => \A i \in DOMAIN teams : teams[i].name # req[s].team
        BY <1>1, <2>1 DEF NamesInv, Founds, SomeTeam, TeamNamed
      <3>3. ASSUME NEW i \in DOMAIN teams', NEW j \in DOMAIN teams',
                   teams'[i].name = teams'[j].name, SoleRegistrar(teams'[i].name)
            PROVE  i = j
        <4>1. CASE i \in DOMAIN teams /\ j \in DOMAIN teams
          BY <3>1, <3>3, <4>1 DEF NamesInv, TeamNamesUnique
        <4>2. CASE i = Len(teams) + 1 /\ j \in DOMAIN teams
          BY <3>1, <3>2, <3>3, <4>2
        <4>3. CASE j = Len(teams) + 1 /\ i \in DOMAIN teams
          BY <3>1, <3>2, <3>3, <4>3
        <4> QED
          BY <3>1, <4>1, <4>2, <4>3
      <3> QED
        BY <3>3 DEF TeamNamesUnique, SoleRegistrar
    <2>2. CASE DOMAIN teams' = DOMAIN teams /\ \A i \in DOMAIN teams : teams'[i].name = teams[i].name
      BY <2>2 DEF NamesInv, TeamNamesUnique, SoleRegistrar
    <2> QED
      BY <1>2, <2>1, <2>2
  <1>4. ASSUME NEW z \in Sessions, Serving(z)', req'[z].svc = "register", step'[z] = 2,
               SoleRegistrar(req'[z].team)
        PROVE  ~SomeTeam(req[z].team)'
    <2>1. Serving(z) /\ req'[z] = req[z]
      BY <1>4, ServingRemains
    <2>2. CASE z = s
      <3>1. step[s] = 1 /\ ~Halts(s)
        <4>1. step'[s] = step[s] + 1 /\ step[s] \in Nat /\ ~Halts(s)
          BY <1>4, <2>2, ServingRemains DEF TypeInv, TypeOK
        <4> QED
          BY <1>4, <2>2, <4>1
      <3>2. ~SomeTeam(req[s].team) /\ teams' = teams
        BY <1>4, <2>1, <2>2, <3>1, RegisterWork DEF Founds
      <3> QED
        BY <2>1, <2>2, <3>2 DEF SomeTeam, TeamNamed
    <2>3. CASE z # s
      <3>1. ~SomeTeam(req[z].team)
        BY <1>4, <2>1, <2>3, ServingRemains DEF NamesInv
      <3>2. CASE Founds(s)
        <4>1. req[s].team # req[z].team
          BY <1>0, <1>1, <1>4, <2>1, <2>3, <3>2, SoleSession DEF Founds
        <4>2. /\ DOMAIN teams' = 1..Len(teams) + 1 /\ DOMAIN teams = 1..Len(teams) /\ Len(teams) \in Nat
              /\ \A i \in DOMAIN teams : teams'[i] = teams[i]
              /\ teams'[Len(teams) + 1].name = req[s].team
          BY <1>1, <3>2 DEF Founds, NewTeam
        <4> QED
          BY <2>1, <3>1, <4>1, <4>2 DEF SomeTeam, TeamNamed
      <3>3. CASE ~Founds(s)
        BY <1>2, <2>1, <3>1, <3>3 DEF SomeTeam, TeamNamed
      <3> QED
        BY <3>2, <3>3
    <2> QED
      BY <2>2, <2>3
  <1> QED
    BY <1>0, <1>3, <1>4 DEF NamesInv, SoleRegistrar

LEMMA NamesStep == TypeInv /\ NamesInv /\ [Next]_vars => NamesInv'
  <1> SUFFICES ASSUME TypeInv, NamesInv, [Next]_vars PROVE NamesInv'
    OBVIOUS
  <1>1. ASSUME NEW s \in Sessions, Environment(s) PROVE NamesInv'
    <2>1. Asked'
      BY <1>1, EnvironmentFrame DEF NamesInv, Asked
    <2>2. TeamNamesUnique'
      BY <1>1, EnvironmentFrame DEF NamesInv, TeamNamesUnique, SoleRegistrar
    <2>3. ASSUME NEW z \in Sessions, Serving(z)', req'[z].svc = "register", step'[z] = 2,
                 SoleRegistrar(req'[z].team)
          PROVE  ~SomeTeam(req[z].team)'
      BY <1>1, <2>3, EnvironmentFrame DEF NamesInv, SomeTeam, TeamNamed
    <2> QED
      BY <2>1, <2>2, <2>3 DEF NamesInv, SoleRegistrar
  <1>2. CASE Next
    BY <1>1, <1>2, NamesWork DEF Next
  <1>3. CASE UNCHANGED vars
    BY <1>3 DEF vars, NamesInv, Asked, TeamNamesUnique, SoleRegistrar, SomeTeam, TeamNamed, Serving
  <1> QED
    BY <1>2, <1>3

\* However many sessions register teams, a team that only one connection registers
\* never gets a second row: the check of add_team still holds at its insert.
THEOREM NamesUnique == Spec => []TeamNamesUnique
  <1>1. Init => TypeInv
    BY TypeInit
  <1>2. Init => NamesInv
    BY TablesAssumption DEF Init, NamesInv, Asked, TeamNamesUnique, Serving
  <1>3. TypeInv /\ [Next]_vars => TypeInv'
    BY TypeStep
  <1>4. TypeInv /\ NamesInv /\ [Next]_vars => NamesInv'
    BY NamesStep
  <1>5. NamesInv => TeamNamesUnique
    BY DEF NamesInv
  <1> QED
    BY <1>1, <1>2, <1>3, <1>4, <1>5, PTL DEF Spec

------------------------------------------------------------------------------
(* What the answer to a registration means.                                 *)

\* The member that the i-th insertion of a registration adds.
Enrolled(f, i) ==
  \E j \in DOMAIN users :
    /\ users[j].team = f.team /\ users[j].name = f.roster[i]
    /\ users[j].title = IF i = 1 THEN "captain" ELSE "soldier"

\* OkMeansComplete is inductive once it counts the members a handler has added, and
\* knows that nobody was answered before its first request.
CompleteInv ==
  /\ OkMeansComplete
  /\ \A s \in Sessions : pc[s] = "listen" => reply[s].code # "200"
  /\ \A s \in Sessions :
       (Serving(s) /\ req[s].svc = "register") =>
         \A i \in 1..NMembers : i + 2 < step[s] => Enrolled(req[s], i)

LEMMA EnrolledRemains ==
  ASSUME TypeInv, NEW s \in Sessions, Work(s), NEW f, NEW i, Enrolled(f, i)
  PROVE  Enrolled(f, i)'
  <1>1. PICK j \in DOMAIN users :
          /\ users[j].team = f.team /\ users[j].name = f.roster[i]
          /\ users[j].title = IF i = 1 THEN "captain" ELSE "soldier"
    BY DEF Enrolled
  <1>2. /\ j \in DOMAIN users' /\ users'[j].team = users[j].team
        /\ users'[j].name = users[j].name /\ users'[j].title = users[j].title
    BY <1>1, UsersRemain
  <1> QED
    BY <1>1, <1>2 DEF Enrolled

\* An insertion enrols its member.
LEMMA EnrolsOne ==
  ASSUME TypeInv, NEW s \in Sessions, Enrols(s), NEW f, f = req[s], NEW i, i = step[s] - 2
  PROVE  i \in 1..NMembers /\ Enrolled(f, i)'
  <1>1. users \in Seq(UserRow) /\ step[s] \in Nat
    BY TableTypes DEF TypeInv, TypeOK
  <1>2. i \in 1..NMembers
    BY <1>1, NMembersAssumption DEF Enrols
  <1> DEFINE u == NewUser(f, i)
  <1>3. users' = Append(users, u)
    BY DEF Enrols
  <1>4. /\ u.team = f.team /\ u.name = f.roster[i]
        /\ u.title = IF i = 1 THEN "captain" ELSE "soldier"
    BY DEF NewUser
  <1> HIDE DEF u
  <1>5. Len(users) + 1 \in DOMAIN users' /\ users'[Len(users) + 1] = u
    BY <1>1, <1>3
  <1> QED
    BY <1>2, <1>4, <1>5 DEF Enrolled

LEMMA CompleteWork ==
  ASSUME TypeInv, EnrolInv, EnrolInv', CompleteInv, NEW s \in Sessions, Work(s)
  PROVE  CompleteInv'
  <1>1. Moves(s) /\ Serving(s) /\ req' = req
    BY WorkMoves DEF Moves, SameSession
  <1>2. /\ pc \in [Sessions -> {"listen", "recv", "query", "exit"}]
        /\ step \in [Sessions -> Nat \ {0}]
    BY DEF TypeInv, TypeOK
  <1>3. ASSUME NEW z \in Sessions, pc'[z] = "listen"
        PROVE  reply'[z].code # "200"
    <2>1. z # s /\ pc[z] = "listen"
      BY <1>1, <1>2, <1>3 DEF Moves, Steps, Halts, Serving
    <2> QED
      BY <1>1, <2>1 DEF Moves, CompleteInv
  <1>4. ASSUME NEW z \in Sessions, Serving(z)', req'[z].svc = "register",
               NEW i \in 1..NMembers, i + 2 < step'[z], NEW f, f = req[z]
        PROVE  Enrolled(f, i)'
    <2>1. Serving(z) /\ req[z].svc = "register"
      BY <1>1, <1>4, ServingRemains
    <2>2. CASE i + 2 < step[z]
      <3>1. Enrolled(f, i)
        BY <1>4, <2>1, <2>2 DEF CompleteInv
      <3> QED
        BY <3>1, EnrolledRemains
    <2>3. CASE ~(i + 2 < step[z])
      <3>1. z = s /\ i = step[s] - 2 /\ ~Halts(s)
        <4>1. z = s /\ step'[s] = step[s] + 1 /\ ~Halts(s)
          BY <1>4, <2>3, ServingRemains
        <4>2. step[s] \in Nat
          BY <1>2
        <4> QED
          BY <1>4, <2>3, <4>1, <4>2
      <3>2. Enrols(s)
        BY <1>4, <2>1, <3>1, RegisterWork
      <3> QED
        BY <1>4, <3>1, <3>2, EnrolsOne
    <2> QED
      BY <2>2, <2>3
  <1>5. ASSUME NEW z \in Sessions, pc'[z] = "recv", reply'[z].code = "200",
               req'[z].svc = "register", NEW f, f = req[z]
        PROVE  SomeTeam(f.team)' /\ \A i \in 1..NMembers : Enrolled(f, i)'
    <2>1. CASE z # s
      <3>1. pc[z] = "recv" /\ reply[z].code = "200" /\ req[z].svc = "register"
        BY <1>1, <1>2, <1>5, <2>1 DEF Moves, Steps, Halts
      <3>2. SomeTeam(f.team) /\ \A i \in 1..NMembers : Enrolled(f, i)
        BY <1>5, <3>1 DEF CompleteInv, OkMeansComplete, Enrolled
      <3> QED
        BY <3>2, SomeTeamRemains, EnrolledRemains
    <2>2. CASE z = s
      <3>1. req[s].svc = "register" /\ ~Steps(s)
        BY <1>1, <1>5, <2>2 DEF Steps, Serving
      <3>2. step[s] = NMembers + 2 /\ Enrols(s)
        BY <1>2, <1>5, <2>2, <3>1, RegisterWork
      <3>3. SomeTeam(f.team)
        BY <1>1, <1>5, <2>2, <3>1, <3>2, NMembersAssumption DEF EnrolInv
      <3>4. ASSUME NEW i \in 1..NMembers
            PROVE  Enrolled(f, i)'
        <4>1. CASE i + 2 < step[s]
          <5>1. Enrolled(f, i)
            BY <1>1, <1>5, <2>2, <3>1, <4>1 DEF CompleteInv
          <5> QED
            BY <5>1, EnrolledRemains
        <4>2. CASE ~(i + 2 < step[s])
          <5>1. i = step[s] - 2
            BY <3>2, <4>2, NMembersAssumption
          <5> QED
            BY <1>5, <2>2, <3>2, <5>1, EnrolsOne
        <4> QED
          BY <4>1, <4>2
      <3> QED
        BY <3>3, <3>4, SomeTeamRemains
    <2> QED
      BY <2>1, <2>2
  <1>6. OkMeansComplete'
    BY <1>1, <1>5 DEF OkMeansComplete, Enrolled
  <1> QED
    BY <1>1, <1>3, <1>4, <1>6 DEF CompleteInv

\* Nobody comes back to wait for its connection, or is answered while it does.
LEMMA EnvironmentListens ==
  ASSUME TypeInv, NEW s \in Sessions, Environment(s), NEW z \in Sessions, pc'[z] = "listen"
  PROVE  pc[z] = "listen" /\ reply'[z] = reply[z]
  <1>0. /\ pc \in [Sessions -> {"listen", "recv", "query", "exit"}]
        /\ DOMAIN reply = Sessions
    BY DEF TypeInv, TypeOK
  <1>1. CASE Connect(s)
    BY <1>0, <1>1 DEF Connect
  <1>2. CASE \E f \in Requests[s] : Receive(s, f)
    BY <1>0, <1>2 DEF Receive
  <1>3. CASE ReceiveGarbled(s)
    BY <1>0, <1>3 DEF ReceiveGarbled, Sends
  <1>4. CASE Disconnect(s)
    BY <1>0, <1>4 DEF Disconnect, Crash
  <1>5. CASE LoseDb(s)
    BY <1>0, <1>5 DEF LoseDb
  <1> QED
    BY <1>1, <1>2, <1>3, <1>4, <1>5 DEF Environment

LEMMA CompleteStep == TypeInv /\ EnrolInv /\ EnrolInv' /\ CompleteInv /\ [Next]_vars => CompleteInv'
  <1> SUFFICES ASSUME TypeInv, EnrolInv, EnrolInv', CompleteInv, [Next]_vars
               PROVE  CompleteInv'
    OBVIOUS
  <1>1. ASSUME NEW s \in Sessions, Environment(s) PROVE CompleteInv'
    <2>1. teams' = teams /\ users' = users
      BY <1>1, EnvironmentFrame
    <2>2. ASSUME NEW z \in Sessions, pc'[z] = "listen"
          PROVE  reply'[z].code # "200"
      <3>1. pc[z] = "listen" /\ reply'[z] = reply[z]
        BY <1>1, <2>2, EnvironmentListens
      <3> QED
        BY <3>1 DEF CompleteInv
    <2>3. ASSUME NEW z \in Sessions, Serving(z)', req'[z].svc = "register",
                 NEW i \in 1..NMembers, i + 2 < step'[z]
          PROVE  Enrolled(req[z], i)'
      <3>1. step'[z] # 1
        BY <2>3
      <3>2. Serving(z) /\ req'[z] = req[z] /\ step'[z] = step[z]
        BY <1>1, <2>3, <3>1, EnvironmentFrame
      <3> QED
        BY <2>1, <2>3, <3>2 DEF CompleteInv, Enrolled
    <2>4. ASSUME NEW z \in Sessions, pc'[z] = "recv", reply'[z].code = "200",
                 req'[z].svc = "register"
          PROVE  SomeTeam(req[z].team)' /\ \A i \in 1..NMembers : Enrolled(req[z], i)'
      <3>1. req'[z] # NoRequest
        BY <2>4 DEF NoRequest
      <3>2. pc[z] = "recv" /\ req'[z] = req[z] /\ reply'[z] = reply[z]
        BY <1>1, <2>4, <3>1, EnvironmentFrame DEF CompleteInv
      <3> QED
        BY <2>1, <2>4, <3>2 DEF CompleteInv, OkMeansComplete, Enrolled, SomeTeam, TeamNamed
    <2>5. OkMeansComplete'
      BY <2>4 DEF OkMeansComplete, Enrolled
    <2> QED
      BY <2>2, <2>3, <2>5 DEF CompleteInv
  <1>2. CASE Next
    BY <1>1, <1>2, CompleteWork DEF Next
  <1>3. CASE UNCHANGED vars
    BY <1>3 DEF vars, CompleteInv, OkMeansComplete, Enrolled, SomeTeam, TeamNamed, Serving
  <1> QED
    BY <1>2, <1>3

\* A client told "200" for register has a complete team, for every team size and
\* however many sessions register, lose the database or leave in between.
THEOREM OkIsComplete == Spec => []OkMeansComplete
  <1>1. Init => TypeInv
    BY TypeInit
  <1>2. Init => EnrolInv
    BY TablesAssumption DEF Init, EnrolInv, UsersHaveTeam, Serving
  <1>3. Init => CompleteInv
    <2> SUFFICES ASSUME Init PROVE CompleteInv
      OBVIOUS
    <2>1. \A s \in Sessions : pc[s] = "listen" /\ reply[s] = NoReply
      BY DEF Init
    <2>2. NoReply.code # "200"
      BY DEF NoReply
    <2> QED
      BY <2>1, <2>2 DEF CompleteInv, OkMeansComplete, Serving
  <1>4. TypeInv /\ [Next]_vars => TypeInv'
    BY TypeStep
  <1>5. TypeInv /\ EnrolInv /\ [Next]_vars => EnrolInv'
    BY EnrolStep
  <1>6. TypeInv /\ EnrolInv /\ EnrolInv' /\ CompleteInv /\ [Next]_vars => CompleteInv'
    BY CompleteStep
  <1>7. CompleteInv => OkMeansComplete
    BY DEF CompleteInv
  <1> QED
    BY <1>1, <1>2, <1>3, <1>4, <1>5, <1>6, <1>7, PTL DEF Spec

------------------------------------------------------------------------------
(* Battles won and fought.                                                  *)

\* Where update_battle_result stands at each of its statements.
LEMMA Recording ==
  ASSUME TypeInv, NEW s \in Sessions, Serving(s), req[s].svc = "record_battle_result"
  PROVE  /\ step[s] \in 1..7 /\ Len(Current(s)) = 7
         /\ step[s] = 1 => Statement(s) = retrieve_times(req[s].team, "vs_times")
         /\ step[s] = 2 => Statement(s) = set_times(req[s].team, "vs_times", 1)
         /\ step[s] = 3 => Statement(s) = retrieve_times(req[s].team, "win_times")
         /\ step[s] = 4 => Statement(s) = set_times(req[s].team, "win_times",
                                             IF req[s].word = "winner" THEN 1 ELSE 0)
         /\ step[s] \in 5..7 => Statement(s) \in PlainStatement
  <1>1. req[s] \in Request /\ step[s] \in 1..Len(Current(s))
    BY DEF TypeInv, Control
  <1>2. /\ Len(Current(s)) = 7
        /\ Current(s)[1] = retrieve_times(req[s].team, "vs_times")
        /\ Current(s)[2] = set_times(req[s].team, "vs_times", 1)
        /\ Current(s)[3] = retrieve_times(req[s].team, "win_times")
        /\ Current(s)[4] = set_times(req[s].team, "win_times",
                                     IF req[s].word = "winner" THEN 1 ELSE 0)
        /\ \A k \in 5..7 : Current(s)[k] \in PlainStatement
    BY <1>1, RecordScript DEF Current
  <1>3. step[s] \in 1..7
    BY <1>1, <1>2
  <1> QED
    BY <1>2, <1>3, Zenon DEF Statement

\* The counters change in set_times only.
LEMMA CountsKept ==
  ASSUME TypeInv, NEW s \in Sessions, Work(s), ~SetTimes(s)
  PROVE  \A i \in DOMAIN teams : /\ teams'[i].vs_times = teams[i].vs_times
                                 /\ teams'[i].win_times = teams[i].win_times
  <1>1. teams \in Seq(TeamRow)
    BY TableTypes
  <1>2. CASE InsertTeam(s)
    BY <1>1, <1>2, InsertTeamFounds DEF Founds
  <1>3. CASE WriteTeam(s)
    BY <1>3, WriteTeamKeeps DEF KeepsTimes
  <1>4. CASE \/ QueryFails(s) \/ RowMissing(s) \/ NoSuchTeam(s) \/ UserExists(s)
             \/ RetrieveMembersName(s) \/ RetrieveStatus(s) \/ RetrieveField(s)
             \/ RetrieveTeams(s) \/ RetrieveTimes(s) \/ PackUserData(s)
             \/ InsertUser(s) \/ WriteUser(s)
    <2>1. teams' = teams
      BY <1>4 DEF QueryFails, RowMissing, NoSuchTeam, UserExists, RetrieveMembersName,
         RetrieveStatus, RetrieveField, RetrieveTeams, RetrieveTimes, PackUserData,
         InsertUser, WriteUser, tables
    <2> QED
      BY <2>1
  <1> QED
    BY <1>2, <1>3, <1>4 DEF Work

LEMMA OthersTimes ==
  ASSUME TypeInv, NEW s \in Sessions, Work(s), NEW z \in Sessions, z # s
  PROVE  times'[z] = times[z]
  <1>1. DOMAIN times = Sessions
    BY DEF TypeInv, TypeOK
  <1>2. CASE RetrieveTimes(s)
    BY <1>1, <1>2 DEF RetrieveTimes
  <1>3. CASE ~RetrieveTimes(s)
    BY <1>3 DEF Work, QueryFails, RowMissing, NoSuchTeam, UserExists, RetrieveMembersName,
       RetrieveStatus, RetrieveField, RetrieveTeams, PackUserData, InsertTeam, InsertUser,
       WriteTeam, SetTimes, WriteUser, locals
  <1> QED
    BY <1>2, <1>3

\* The first row of a team stays the first; a new first row is a new team.
LEMMA FirstRemains ==
  ASSUME TypeInv, NEW s \in Sessions, Work(s), NEW i, NEW t
  PROVE  /\ FirstTeam(i, t) => FirstTeam(i, t)'
         /\ FirstTeam(i, t)' =>
              FirstTeam(i, t) \/ (Founds(s) /\ teams'[i] = NewTeam(req[s]))
  <1>1. teams \in Seq(TeamRow) /\ teams' \in Seq(TeamRow)
    BY TableTypes, WorkTables
  <1>2. CASE Founds(s)
    <2>1. /\ DOMAIN teams' = 1..Len(teams) + 1 /\ DOMAIN teams = 1..Len(teams) /\ Len(teams) \in Nat
          /\ \A j \in DOMAIN teams : teams'[j] = teams[j]
          /\ teams'[Len(teams) + 1] = NewTeam(req[s])
      BY <1>1, <1>2 DEF Founds
    <2> QED
      BY <1>2, <2>1 DEF FirstTeam, TeamNamed
  <1>3. CASE DOMAIN teams' = DOMAIN teams /\ \A j \in DOMAIN teams : teams'[j].name = teams[j].name
    BY <1>3 DEF FirstTeam, TeamNamed
  <1>4. CASE KeepsTeams
    <2>1. DOMAIN teams' = DOMAIN teams
      BY <1>1, <1>4 DEF KeepsTeams
    <2> QED
      BY <1>3, <1>4, <2>1 DEF KeepsTeams
  <1> QED
    BY <1>2, <1>3, <1>4, WorkTables DEF Enrols

LEMMA FirstUnique ==
  ASSUME TypeInv, NEW i, NEW j, NEW t, FirstTeam(i, t), FirstTeam(j, t)
  PROVE  i = j
  <1>1. teams \in Seq(TeamRow)
    BY TableTypes
  <1>2. i \in DOMAIN teams /\ j \in DOMAIN teams /\ i <= j /\ j <= i
    BY DEF FirstTeam, TeamNamed
  <1> QED
    BY <1>1, <1>2

\* What one statement of update_battle_result can do to the counters.
LEMMA RecordWork ==
  ASSUME TypeInv, NEW s \in Sessions, Work(s), req[s].svc = "record_battle_result",
         NEW t, t = req[s].team
  PROVE  \/ /\ step[s] = 1 /\ teams' = teams
            /\ \E i \in DOMAIN teams : FirstTeam(i, t) /\ times'[s] = teams[i].vs_times
         \/ /\ step[s] = 2 /\ times'[s] = times[s]
            /\ teams' = [i \in DOMAIN teams |->
                 IF TeamNamed(i, t) THEN [teams[i] EXCEPT !.vs_times = times[s] + 1] ELSE teams[i]]
         \/ /\ step[s] = 3 /\ teams' = teams
            /\ \E i \in DOMAIN teams : FirstTeam(i, t) /\ times'[s] = teams[i].win_times
         \/ /\ step[s] = 4
            /\ \E w \in {0, 1} :
                 teams' = [i \in DOMAIN teams |->
                   IF TeamNamed(i, t) THEN [teams[i] EXCEPT !.win_times = times[s] + w] ELSE teams[i]]
         \/ step[s] \in 5..7 /\ ~SetTimes(s)
         \/ Halts(s) /\ teams' = teams
  <1>1. Serving(s)
    BY WorkMoves
  <1> DEFINE q == Statement(s)
  <1>2. /\ step[s] \in 1..7
        /\ step[s] = 1 => q = retrieve_times(t, "vs_times")
        /\ step[s] = 2 => q = set_times(t, "vs_times", 1)
        /\ step[s] = 3 => q = retrieve_times(t, "win_times")
        /\ step[s] = 4 => q = set_times(t, "win_times", IF req[s].word = "winner" THEN 1 ELSE 0)
        /\ step[s] \in 5..7 => q \in PlainStatement
    BY <1>1, Recording
  <1>3. DOMAIN times = Sessions
    BY DEF TypeInv, TypeOK
  <1>4. CASE step[s] \in 5..7
    <2>1. q.op # "set_times"
      BY <1>2, <1>4 DEF PlainStatement
    <2> QED
      BY <1>4, <2>1 DEF SetTimes, Issues
  <1>5. CASE QueryFails(s) \/ RowMissing(s)
    BY <1>5, FailHalts, CrashHalts DEF QueryFails, RowMissing, tables
  <1>6. CASE step[s] \in 1..4 /\ RetrieveTimes(s)
    <2>1. q.op = "retrieve_times" /\ teams' = teams
      BY <1>6 DEF RetrieveTimes, Issues, tables
    <2>2. step[s] \in {1, 3} /\ q.team = t /\ q.col = (IF step[s] = 1 THEN "vs_times" ELSE "win_times")
      BY <1>2, <1>6, <2>1 DEF retrieve_times, set_times
    <2>3. PICK i \in DOMAIN teams :
            /\ FirstTeam(i, q.team)
            /\ times' = [times EXCEPT ![s] =
                 IF q.col = "vs_times" THEN teams[i].vs_times ELSE teams[i].win_times]
      BY <1>6 DEF RetrieveTimes
    <2> QED
      BY <1>3, <2>1, <2>2, <2>3
  <1>7. CASE step[s] \in 1..4 /\ SetTimes(s)
    <2>1. q.op = "set_times" /\ times' = times
      BY <1>7 DEF SetTimes, Issues, locals
    <2>2. step[s] \in {2, 4}
      BY <1>2, <1>7, <2>1 DEF retrieve_times
    <2>3. CASE step[s] = 2
      <3>1. q.team = t /\ q.col = "vs_times" /\ q.more = 1
        BY <1>2, <2>3 DEF set_times
      <3> QED
        BY <1>7, <2>1, <2>3, <3>1 DEF SetTimes, UpdateTeams
    <2>4. CASE step[s] = 4
      <3>1. q.team = t /\ q.col = "win_times" /\ q.more \in {0, 1}
        BY <1>2, <2>4 DEF set_times
      <3> QED
        BY <1>7, <2>4, <3>1 DEF SetTimes, UpdateTeams
    <2> QED
      BY <2>2, <2>3, <2>4
  <1>8. CASE step[s] \in 1..4
    <2>1. q.op \in {"retrieve_times", "set_times"}
      BY <1>2, <1>8 DEF retrieve_times, set_times
    <2>2. ~(\/ NoSuchTeam(s) \/ UserExists(s) \/ RetrieveMembersName(s) \/ RetrieveStatus(s)
            \/ RetrieveField(s) \/ RetrieveTeams(s) \/ PackUserData(s)
            \/ InsertTeam(s) \/ InsertUser(s) \/ WriteTeam(s) \/ WriteUser(s))
      BY <2>1 DEF NoSuchTeam, UserExists, RetrieveMembersName, RetrieveStatus, RetrieveField,
         RetrieveTeams, PackUserData, InsertTeam, InsertUser, WriteTeam, WriteUser, Issues
    <2> HIDE DEF q
    <2> QED
      BY <1>5, <1>6, <1>7, <1>8, <2>2, Zenon DEF Work
  <1> QED
    BY <1>2, <1>4, <1>8

\* WinsWithinGames is inductive once it says what a handler that has read or
\* written one of the counters knows of the first row of its team.
Recorded(s, t) ==
  \E i \in DOMAIN teams :
    /\ FirstTeam(i, t)
    /\ step[s] = 2 => times[s] = teams[i].vs_times
    /\ step[s] \in 3..4 => teams[i].win_times < teams[i].vs_times
    /\ step[s] = 4 => times[s] = teams[i].win_times
Counting(s) ==
  Serving(s) /\ req[s].svc = "record_battle_result" /\ SoleRecorder(req[s].team)
WinsInv ==
  /\ Asked /\ WinsWithinGames
  /\ \A s \in Sessions : Counting(s) /\ step[s] \in 2..4 => Recorded(s, req[s].team)

\* A statement leaves the counters of every team but the one it records alone.
LEMMA OtherCounts ==
  ASSUME TypeInv, NEW s \in Sessions, Work(s), NEW i \in DOMAIN teams,
         req[s].svc = "record_battle_result" => teams[i].name # req[s].team
  PROVE  teams'[i].vs_times = teams[i].vs_times /\ teams'[i].win_times = teams[i].win_times
  <1>1. CASE SetTimes(s)
    <2>1. Serving(s) /\ Statement(s).op = "set_times"
      BY <1>1 DEF SetTimes, Issues
    <2>2. req[s].svc = "record_battle_result"
      BY <2>1, StatementType, StatementFields
    <2>3. ~TeamNamed(i, req[s].team)
      BY <2>2 DEF TeamNamed
    <2>4. step[s] \notin 5..7 \/ ~SetTimes(s)
      <3>1. ASSUME step[s] \in 5..7 PROVE FALSE
        <4>1. Statement(s) \in PlainStatement
          BY <2>1, <2>2, <3>1, Recording
        <4> QED
          BY <2>1, <4>1 DEF PlainStatement
      <3> QED
        BY <3>1
    <2> QED
      BY <1>1, <2>2, <2>3, <2>4, RecordWork
  <1>2. CASE ~SetTimes(s)
    BY <1>2, CountsKept
  <1> QED
    BY <1>1, <1>2

LEMMA SoleCounter ==
  ASSUME Asked, NEW s \in Sessions, NEW z \in Sessions, Serving(s), Serving(z),
         req[s].svc = "record_battle_result", req[z].svc = "record_battle_result",
         req[s].team = req[z].team, SoleRecorder(req[s].team)
  PROVE  s = z
  BY DEF Asked, SoleRecorder, RecordedOnce

\* The recording session's own step.
LEMMA RecordStep ==
  ASSUME TypeInv, WinsInv, NEW s \in Sessions, Work(s),
         Counting(s), NEW t, t = req[s].team
  PROVE  /\ \A i \in DOMAIN teams' :
              FirstTeam(i, t)' => teams'[i].win_times <= teams'[i].vs_times
         /\ Serving(s)' /\ step'[s] \in 2..4 => Recorded(s, t)'
  <1>0. Serving(s) /\ req[s].svc = "record_battle_result" /\ SoleRecorder(t)
    BY DEF Counting
  <1>1. teams \in Seq(TeamRow) /\ \A i \in DOMAIN teams : teams[i] \in TeamRow
    BY TableTypes
  <1>2. DOMAIN times = Sessions /\ step[s] \in Nat
    BY DEF TypeInv, TypeOK
  <1>3. \A i : FirstTeam(i, t)' => i \in DOMAIN teams /\ FirstTeam(i, t) /\ TeamNamed(i, t)
    BY <1>0, FirstRemains DEF Founds, FirstTeam, TeamNamed
  <1>4. \A i \in DOMAIN teams : FirstTeam(i, t) => teams[i].win_times <= teams[i].vs_times
    BY <1>0 DEF WinsInv, WinsWithinGames, FirstTeam, TeamNamed
  <1>5. Serving(s)' => step'[s] = step[s] + 1 /\ ~Halts(s)
    BY ServingRemains
  <1>6. step[s] \in 2..4 => Recorded(s, t)
    BY DEF WinsInv
  <1>7. CASE step[s] = 1 /\ teams' = teams
            /\ \E i \in DOMAIN teams : FirstTeam(i, t) /\ times'[s] = teams[i].vs_times
    <2>1. PICK i \in DOMAIN teams : FirstTeam(i, t) /\ times'[s] = teams[i].vs_times
      BY <1>7
    <2>2. i \in DOMAIN teams' /\ FirstTeam(i, t)' /\ times'[s] = teams'[i].vs_times
      BY <1>7, <2>1, FirstRemains
    <2>3. Serving(s)' => step'[s] = 2
      BY <1>5, <1>7
    <2> QED
      BY <1>3, <1>4, <1>7, <2>2, <2>3 DEF Recorded
  <1>8. CASE step[s] = 2 /\ times'[s] = times[s]
            /\ teams' = [i \in DOMAIN teams |->
                 IF TeamNamed(i, t) THEN [teams[i] EXCEPT !.vs_times = times[s] + 1] ELSE teams[i]]
    <2>1. PICK i \in DOMAIN teams : FirstTeam(i, t) /\ times[s] = teams[i].vs_times
      BY <1>6, <1>8 DEF Recorded
    <2>2. i \in DOMAIN teams' /\ FirstTeam(i, t)' /\ TeamNamed(i, t)
      BY <1>8, <2>1, FirstRemains DEF FirstTeam
    <2>3. teams'[i] = [teams[i] EXCEPT !.vs_times = times[s] + 1]
      BY <1>8, <2>2
    <2>4. teams'[i].win_times = teams[i].win_times /\ teams'[i].vs_times = teams[i].vs_times + 1
      BY <1>1, <2>1, <2>3 DEF TeamRow
    <2>5. teams[i].win_times \in Nat /\ teams[i].vs_times \in Nat
      BY <1>1, <2>1 DEF TeamRow
    <2>6. teams'[i].win_times < teams'[i].vs_times
      BY <1>4, <2>1, <2>4, <2>5
    <2>7. Serving(s)' => step'[s] = 3
      BY <1>5, <1>8
    <2>8. \A j : FirstTeam(j, t)' => j = i
      BY <1>3, <2>1, FirstUnique
    <2> QED
      BY <2>2, <2>4, <2>5, <2>6, <2>7, <2>8 DEF Recorded
  <1>9. CASE step[s] = 3 /\ teams' = teams
            /\ \E i \in DOMAIN teams : FirstTeam(i, t) /\ times'[s] = teams[i].win_times
    <2>1. PICK i \in DOMAIN teams : FirstTeam(i, t) /\ times'[s] = teams[i].win_times
      BY <1>9
    <2>2. i \in DOMAIN teams' /\ FirstTeam(i, t)' /\ times'[s] = teams'[i].win_times
      BY <1>9, <2>1, FirstRemains
    <2>3. teams[i].win_times < teams[i].vs_times
      BY <1>6, <1>9, <2>1, FirstUnique DEF Recorded
    <2>4. Serving(s)' => step'[s] = 4
      BY <1>5, <1>9
    <2> QED
      BY <1>3, <1>4, <1>9, <2>2, <2>3, <2>4 DEF Recorded
  <1>10. CASE step[s] = 4
            /\ \E w \in {0, 1} :
                 teams' = [i \in DOMAIN teams |->
                   IF TeamNamed(i, t) THEN [teams[i] EXCEPT !.win_times = times[s] + w] ELSE teams[i]]
    <2>1. PICK i \in DOMAIN teams :
            /\ FirstTeam(i, t) /\ times[s] = teams[i].win_times
            /\ teams[i].win_times < teams[i].vs_times
      BY <1>6, <1>10 DEF Recorded
    <2>2. PICK w \in {0, 1} :
            teams' = [j \in DOMAIN teams |->
              IF TeamNamed(j, t) THEN [teams[j] EXCEPT !.win_times = times[s] + w] ELSE teams[j]]
      BY <1>10
    <2>3. teams'[i] = [teams[i] EXCEPT !.win_times = times[s] + w]
      BY <2>1, <2>2 DEF FirstTeam
    <2>4. teams'[i].win_times = teams[i].win_times + w /\ teams'[i].vs_times = teams[i].vs_times
      BY <1>1, <2>1, <2>3 DEF TeamRow
    <2>5. teams[i].win_times \in Nat /\ teams[i].vs_times \in Nat
      BY <1>1, <2>1 DEF TeamRow
    <2>6. teams'[i].win_times <= teams'[i].vs_times
      BY <2>1, <2>4, <2>5
    <2>7. Serving(s)' => step'[s] = 5
      BY <1>5, <1>10
    <2>8. \A j : FirstTeam(j, t)' => j = i
      BY <1>3, <2>1, FirstUnique
    <2> QED
      BY <2>6, <2>7, <2>8
  <1>11. CASE step[s] \in 5..7 /\ ~SetTimes(s)
    <2>1. Serving(s)' => step'[s] \notin 2..4
      BY <1>5, <1>11
    <2> QED
      BY <1>3, <1>4, <1>11, <2>1, CountsKept
  <1>12. CASE Halts(s) /\ teams' = teams
    BY <1>3, <1>4, <1>5, <1>12
  <1> QED
    BY <1>0, <1>7, <1>8, <1>9, <1>10, <1>11, <1>12, RecordWork

LEMMA WinsWork ==
  ASSUME TypeInv, WinsInv, NEW s \in Sessions, Work(s)
  PROVE  WinsInv'
  <1>0. Asked /\ Asked' /\ Serving(s)
    BY AskedWork, WorkMoves DEF WinsInv
  <1>1. teams \in Seq(TeamRow) /\ \A i \in DOMAIN teams : i \in DOMAIN teams'
    BY TableTypes, TeamsRemain
  <1>2. ASSUME NEW i \in DOMAIN teams', NEW t, FirstTeam(i, t)', SoleRecorder(t)
        PROVE  teams'[i].win_times <= teams'[i].vs_times
    <2>1. CASE Founds(s) /\ teams'[i] = NewTeam(req[s])
      BY <2>1 DEF NewTeam
    <2>2. CASE FirstTeam(i, t)
      <3>1. i \in DOMAIN teams /\ teams[i].name = t
        BY <2>2 DEF FirstTeam, TeamNamed
      <3>2. CASE req[s].svc = "record_battle_result" /\ req[s].team = t
        BY <1>0, <1>2, <3>2, RecordStep DEF Counting
      <3>3. CASE ~(req[s].svc = "record_battle_result" /\ req[s].team = t)
        <4>1. teams[i].win_times <= teams[i].vs_times
          BY <1>2, <2>2, <3>1 DEF WinsInv, WinsWithinGames
        <4>2. teams'[i].vs_times = teams[i].vs_times /\ teams'[i].win_times = teams[i].win_times
          BY <3>1, <3>3, OtherCounts
        <4> QED
          BY <4>1, <4>2
      <3> QED
        BY <3>2, <3>3
    <2> QED
      BY <1>2, <2>1, <2>2, FirstRemains
  <1>3. ASSUME NEW z \in Sessions, Serving(z)', req[z].svc = "record_battle_result",
               SoleRecorder(req[z].team), step'[z] \in 2..4, NEW t, t = req[z].team
        PROVE  Recorded(z, t)'
    <2>1. Serving(z)
      BY <1>3, ServingRemains
    <2>2. CASE z = s
      BY <1>3, <2>1, <2>2, RecordStep DEF Counting
    <2>3. CASE z # s
      <3>1. step'[z] = step[z] /\ times'[z] = times[z]
        BY <1>3, <2>3, ServingRemains, OthersTimes
      <3>2. PICK i \in DOMAIN teams :
              /\ FirstTeam(i, t)
              /\ step[z] = 2 => times[z] = teams[i].vs_times
              /\ step[z] \in 3..4 => teams[i].win_times < teams[i].vs_times
              /\ step[z] = 4 => times[z] = teams[i].win_times
        BY <1>3, <2>1, <3>1 DEF WinsInv, Counting, Recorded
      <3>3. teams[i].name = t
        BY <3>2 DEF FirstTeam, TeamNamed
      <3>4. ~(req[s].svc = "record_battle_result" /\ req[s].team = t)
        BY <1>0, <1>3, <2>1, <2>3, SoleCounter
      <3>5. teams'[i].vs_times = teams[i].vs_times /\ teams'[i].win_times = teams[i].win_times
        BY <3>3, <3>4, OtherCounts
      <3>6. i \in DOMAIN teams' /\ FirstTeam(i, t)'
        BY <1>1, <3>2, FirstRemains
      <3> QED
        BY <3>1, <3>2, <3>5, <3>6 DEF Recorded
    <2> QED
      BY <2>2, <2>3
  <1>4. WinsWithinGames'
    BY <1>2 DEF WinsWithinGames, SoleRecorder
  <1>5. req' = req
    BY WorkMoves DEF Moves, SameSession
  <1>6. \A z \in Sessions : (Counting(z) /\ step[z] \in 2..4)' => Recorded(z, req[z].team)'
    BY <1>3, <1>5 DEF Counting, SoleRecorder, Recorded
  <1> QED
    BY <1>0, <1>4, <1>6 DEF WinsInv

LEMMA WinsStep == TypeInv /\ WinsInv /\ [Next]_vars => WinsInv'
  <1> SUFFICES ASSUME TypeInv, WinsInv, [Next]_vars PROVE WinsInv'
    OBVIOUS
  <1>1. ASSUME NEW s \in Sessions, Environment(s) PROVE WinsInv'
    <2>1. Asked'
      BY <1>1, EnvironmentFrame DEF WinsInv, Asked
    <2>2. teams' = teams
      BY <1>1, EnvironmentFrame
    <2>3. ASSUME NEW z \in Sessions, Counting(z)', step'[z] \in 2..4
          PROVE  Recorded(z, req[z].team)'
      <3>1. Serving(z)' /\ step'[z] # 1
        BY <2>3 DEF Counting
      <3>2. Serving(z) /\ req'[z] = req[z] /\ step'[z] = step[z] /\ times'[z] = times[z]
        BY <1>1, <3>1, EnvironmentFrame
      <3> QED
        BY <2>2, <2>3, <3>2 DEF WinsInv, Counting, Recorded, SoleRecorder, FirstTeam, TeamNamed
    <2>4. WinsWithinGames'
      BY <2>2 DEF WinsInv, WinsWithinGames, SoleRecorder, FirstTeam, TeamNamed
    <2> QED
      BY <2>1, <2>3, <2>4 DEF WinsInv
  <1>2. CASE Next
    BY <1>1, <1>2, WinsWork DEF Next
  <1>3. CASE UNCHANGED vars
    BY <1>3 DEF vars, WinsInv, Asked, WinsWithinGames, SoleRecorder, FirstTeam, TeamNamed,
       Counting, Recorded, Serving
  <1> QED
    BY <1>2, <1>3

\* A team whose results one connection records never shows more victories than
\* battles: not between the four statements of update_battle_result, and not when
\* the database is lost between two of them.
THEOREM WinsBounded == Spec => []WinsWithinGames
  <1>1. Init => TypeInv
    BY TypeInit
  <1>2. Init => WinsInv
    BY TablesAssumption DEF Init, WinsInv, Asked, WinsWithinGames, Counting, Serving
  <1>3. TypeInv /\ [Next]_vars => TypeInv'
    BY TypeStep
  <1>4. TypeInv /\ WinsInv /\ [Next]_vars => WinsInv'
    BY WinsStep
  <1>5. WinsInv => WinsWithinGames
    BY DEF WinsInv
  <1> QED
    BY <1>1, <1>2, <1>3, <1>4, <1>5, PTL DEF Spec
=============================================================================
