--------------------------- MODULE TankBattleProofs ---------------------------
(***************************************************************************)
(* What updates by name change, for every table, team size, set of         *)
(* requests and number of sessions: members of the team they are meant     *)
(* for, whose status and bullets then mean what their readers take them    *)
(* for.                                                                    *)
(***************************************************************************)
EXTENDS TankBattle, TankServerProofs

------------------------------------------------------------------------------
(* Where the handlers that go through a team's members stand.               *)

\* The statements of a handler about one member.
PersonOps == {"set_user_status", "set_position", "set_bullet_status", "set_attr",
              "pack_user_data", "retrieve_status"}
Person(q) == q.op \in PersonOps

PackAt(t, nm, j) ==
  IF j = 1 THEN retrieve_members_name(t)
  ELSE IF j % 2 = 0 THEN pack_user_data(t, nm[j \div 2])
                    ELSE set_bullet_status(t, nm[j \div 2], "FIRED")
AttrAt(t, nm, j) ==
  IF j = 1 THEN retrieve_members_name(t) ELSE pack_user_data(t, nm[j - 1])
SummonAt(f, nm, j) ==
  IF j = 1 THEN retrieve_members_name(f.team)
  ELSE IF j = 2 * NMembers + 2 THEN set_team_status(f.team, "ONBATTLE")
  ELSE IF j % 2 = 0
       THEN set_user_status(f.team, nm[j \div 2], f.word)
       ELSE set_position(f.team, nm[j \div 2], IF f.word \in Roles THEN f.word ELSE "junk")
CheckAt(f, nm, j) ==
  IF j = 1 THEN retrieve_members_name(f.team)
  ELSE IF j = NMembers + 2 THEN set_team_status(f.team, "ONLINE")
  ELSE retrieve_status(f.team, nm[j - 1])

\* A list between a first and, perhaps, a last statement.
LEMMA FirstThen ==
  ASSUME NEW a, NEW n \in Nat, NEW g, g = [k \in 1..n |-> g[k]]
  PROVE  /\ Len(<<a>> \o g) = n + 1 /\ (<<a>> \o g)[1] = a
         /\ \A j \in 2..n + 1 : (<<a>> \o g)[j] = g[j - 1]
  <1> DEFINE S == {a} \cup {g[k] : k \in 1..n}
  <1>1. g \in [1..n -> S]
    OBVIOUS
  <1>2. g \in Seq(S) /\ Len(g) = n
    BY <1>1, ListType
  <1>3. <<a>> \in Seq(S) /\ Len(<<a>>) = 1 /\ <<a>>[1] = a
    OBVIOUS
  <1> HIDE DEF S
  <1> DEFINE p == <<a>>
  <1>4. p \in Seq(S) /\ Len(p) = 1 /\ p[1] = a
    BY <1>3
  <1> HIDE DEF p
  <1>5. /\ Len(p \o g) = Len(p) + Len(g)
        /\ \A k \in 1..Len(p) + Len(g) :
             (p \o g)[k] = IF k <= Len(p) THEN p[k] ELSE g[k - Len(p)]
    BY <1>2, <1>4, ConcatProperties
  <1>6. Len(p \o g) = n + 1 /\ (p \o g)[1] = a /\ \A j \in 2..n + 1 : (p \o g)[j] = g[j - 1]
    BY <1>2, <1>4, <1>5
  <1> QED
    BY <1>6 DEF p

LEMMA FirstThenLast ==
  ASSUME NEW a, NEW z, NEW n \in Nat, NEW g, g = [k \in 1..n |-> g[k]]
  PROVE  LET s == (<<a>> \o g) \o <<z>>
         IN  /\ Len(s) = n + 2 /\ s[1] = a /\ s[n + 2] = z
             /\ \A j \in 2..n + 1 : s[j] = g[j - 1]
  <1> DEFINE b == <<a>> \o g
             S == {a, z} \cup {g[k] : k \in 1..n}
  <1>1. g \in [1..n -> S]
    OBVIOUS
  <1>2. g \in Seq(S)
    BY <1>1, ListType
  <1>3. <<a>> \in Seq(S) /\ <<z>> \in Seq(S) /\ Len(<<z>>) = 1 /\ <<z>>[1] = z
    OBVIOUS
  <1>4. Len(b) = n + 1 /\ b[1] = a /\ \A j \in 2..n + 1 : b[j] = g[j - 1]
    BY FirstThen
  <1>5. b \in Seq(S)
    <2> HIDE DEF S
    <2> QED
      BY <1>2, <1>3, ConcatProperties
  <1> DEFINE p == <<z>>
  <1>6. p \in Seq(S) /\ Len(p) = 1 /\ p[1] = z
    BY <1>3
  <1> HIDE DEF S, b, p
  <1>7. /\ Len(b \o p) = Len(b) + Len(p)
        /\ \A k \in 1..Len(b) + Len(p) :
             (b \o p)[k] = IF k <= Len(b) THEN b[k] ELSE p[k - Len(b)]
    BY <1>5, <1>6, ConcatProperties
  <1>8. /\ Len(b \o p) = n + 2 /\ (b \o p)[1] = a /\ (b \o p)[n + 2] = z
        /\ \A j \in 2..n + 1 : (b \o p)[j] = g[j - 1]
    <2>1. Len(b \o p) = n + 2
      BY <1>4, <1>6, <1>7
    <2>2. (b \o p)[1] = a
      BY <1>4, <1>6, <1>7
    <2>3. (b \o p)[n + 2] = z
      <3>1. n + 2 \in 1..Len(b) + Len(p) /\ ~(n + 2 <= Len(b)) /\ n + 2 - Len(b) = 1
        BY <1>4, <1>6
      <3> QED
        BY <1>6, <1>7, <3>1
    <2>4. ASSUME NEW j \in 2..n + 1 PROVE (b \o p)[j] = g[j - 1]
      <3>1. j \in 1..Len(b) + Len(p) /\ j <= Len(b)
        BY <1>4, <1>6
      <3> QED
        BY <1>4, <1>7, <3>1
    <2> QED
      BY <2>1, <2>2, <2>3, <2>4
  <1> QED
    BY <1>8 DEF b, p

LEMMA Halves ==
  ASSUME NEW S, NEW p \in Seq(S), NEW r \in Seq(S), NEW n \in Nat, Len(p) = n, Len(r) = n
  PROVE  /\ Len(p \o r) = n + n
         /\ \A j \in 1..n : (p \o r)[j] = p[j] /\ (p \o r)[n + j] = r[j]
  <1>1. /\ Len(p \o r) = Len(p) + Len(r)
        /\ \A k \in 1..Len(p) + Len(r) :
             (p \o r)[k] = IF k <= Len(p) THEN p[k] ELSE r[k - Len(p)]
    BY ConcatProperties
  <1>2. \A j \in 1..n : j \in 1..n + n /\ n + j \in 1..n + n /\ j <= n /\ ~(n + j <= n) /\ n + j - n = j
    OBVIOUS
  <1>3. \A k \in 1..n + n : (p \o r)[k] = IF k <= n THEN p[k] ELSE r[k - n]
    BY <1>1
  <1>4. ASSUME NEW j \in 1..n PROVE (p \o r)[j] = p[j] /\ (p \o r)[n + j] = r[j]
    <2>1. j \in 1..n + n /\ n + j \in 1..n + n /\ j <= n /\ ~(n + j <= n) /\ n + j - n = j
      BY <1>2
    <2>2. (p \o r)[j] = p[j]
      BY <1>3, <2>1
    <2> DEFINE k == n + j
    <2>3. k \in 1..n + n /\ ~(k <= n) /\ k - n = j
      BY <2>1
    <2> HIDE DEF k
    <2>4. (p \o r)[k] = r[k - n]
      BY <1>3, <2>3
    <2> QED
      BY <2>2, <2>3, <2>4 DEF k
  <1> QED
    BY <1>1, <1>4

LEMMA PackScript ==
  ASSUME NEW t, NEW nm
  PROVE  /\ Len(pack_team_battle_data(t, nm)) = 2 * NMembers + 1
         /\ \A j \in 1..2 * NMembers + 1 : pack_team_battle_data(t, nm)[j] = PackAt(t, nm, j)
         /\ Len(pack_team_static_data(t, nm)) = NMembers + 1
         /\ \A j \in 1..NMembers + 1 : pack_team_static_data(t, nm)[j] = AttrAt(t, nm, j)
  <1> DEFINE g == [k \in 1..2 * NMembers |->
                     LET u == nm[(k + 1) \div 2]
                     IN  IF k % 2 = 1 THEN pack_user_data(t, u)
                                      ELSE set_bullet_status(t, u, "FIRED")]
             h == [i \in 1..NMembers |-> pack_user_data(t, nm[i])]
             a == retrieve_members_name(t)
  <1>1. /\ g = [k \in 1..2 * NMembers |-> g[k]] /\ h = [k \in 1..NMembers |-> h[k]]
        /\ NMembers \in Nat /\ 2 * NMembers \in Nat
    BY NMembersAssumption
  <1>2. pack_team_battle_data(t, nm) = <<a>> \o g /\ pack_team_static_data(t, nm) = <<a>> \o h
    BY DEF pack_team_battle_data, pack_team_static_data
  <1>3. \A j \in 2..2 * NMembers + 1 :
          /\ j - 1 \in 1..2 * NMembers /\ (j - 1 + 1) \div 2 = j \div 2
          /\ (j - 1) % 2 = 1 <=> j % 2 = 0
    BY <1>1
  <1>4. \A j \in 2..2 * NMembers + 1 : g[j - 1] = PackAt(t, nm, j)
    BY <1>1, <1>3 DEF PackAt
  <1>5. \A j \in 2..NMembers + 1 : h[j - 1] = AttrAt(t, nm, j)
    BY <1>1 DEF AttrAt
  <1> HIDE DEF g, h
  <1>6. /\ Len(<<a>> \o g) = 2 * NMembers + 1 /\ (<<a>> \o g)[1] = a
        /\ \A j \in 2..2 * NMembers + 1 : (<<a>> \o g)[j] = g[j - 1]
    BY <1>1, FirstThen
  <1>7. /\ Len(<<a>> \o h) = NMembers + 1 /\ (<<a>> \o h)[1] = a
        /\ \A j \in 2..NMembers + 1 : (<<a>> \o h)[j] = h[j - 1]
    BY <1>1, FirstThen
  <1>8. PackAt(t, nm, 1) = a /\ AttrAt(t, nm, 1) = a
    BY DEF PackAt, AttrAt
  <1>9. \A n \in Nat : \A j \in 1..n + 1 : j = 1 \/ j \in 2..n + 1
    OBVIOUS
  <1> HIDE DEF a
  <1> QED
    BY <1>1, <1>2, <1>4, <1>5, <1>6, <1>7, <1>8, <1>9

\* The four handlers that go through the members, statement by statement.
LEMMA BattleDataScript ==
  ASSUME NEW f \in Request, NEW nm \in Namings, f.svc = "get_battle_data"
  PROVE  /\ Len(Script(f, nm)) = 4 * NMembers + 2
         /\ \A j \in 1..2 * NMembers + 1 :
              /\ Script(f, nm)[j] = PackAt(f.team, nm, j)
              /\ Script(f, nm)[2 * NMembers + 1 + j] = PackAt(f.rival, nm, j)
  <1> DEFINE b == pack_team_battle_data(f.team, nm)
             c == pack_team_battle_data(f.rival, nm)
             n == 2 * NMembers + 1
  <1>1. f.team \in TeamNames /\ f.rival \in TeamNames /\ n \in Nat
    BY NMembersAssumption DEF Request
  <1>2. /\ b \in Seq(PlainStatement) /\ c \in Seq(PlainStatement) /\ Len(b) = n /\ Len(c) = n
        /\ \A j \in 1..n : b[j] = PackAt(f.team, nm, j) /\ c[j] = PackAt(f.rival, nm, j)
    BY <1>1, PackType, PackScript
  <1>3. Script(f, nm) = b \o c
    BY DEF Script, pack_battle_data
  <1> HIDE DEF b, c
  <1>4. /\ Len(b \o c) = n + n
        /\ \A j \in 1..n : (b \o c)[j] = b[j] /\ (b \o c)[n + j] = c[j]
    BY <1>1, <1>2, Halves
  <1>6. n + n = 4 * NMembers + 2
    BY NMembersAssumption
  <1> HIDE DEF n
  <1>8. /\ Len(Script(f, nm)) = 4 * NMembers + 2
        /\ \A j \in 1..n : /\ Script(f, nm)[j] = PackAt(f.team, nm, j)
                           /\ Script(f, nm)[n + j] = PackAt(f.rival, nm, j)
    BY <1>2, <1>3, <1>4, <1>6
  <1> QED
    BY <1>8 DEF n

LEMMA AttrScript ==
  ASSUME NEW f \in Request, NEW nm \in Namings, f.svc = "get_combatants_attr"
  PROVE  /\ Len(Script(f, nm)) = 2 * NMembers + 2
         /\ \A j \in 1..NMembers + 1 :
              /\ Script(f, nm)[j] = AttrAt(f.team, nm, j)
              /\ Script(f, nm)[NMembers + 1 + j] = AttrAt(f.rival, nm, j)
  <1> DEFINE b == pack_team_static_data(f.team, nm)
             c == pack_team_static_data(f.rival, nm)
             n == NMembers + 1
  <1>1. f.team \in TeamNames /\ f.rival \in TeamNames /\ n \in Nat
    BY NMembersAssumption DEF Request
  <1>2. /\ b \in Seq(PlainStatement) /\ c \in Seq(PlainStatement) /\ Len(b) = n /\ Len(c) = n
        /\ \A j \in 1..n : b[j] = AttrAt(f.team, nm, j) /\ c[j] = AttrAt(f.rival, nm, j)
    BY <1>1, PackType, PackScript
  <1>3. Script(f, nm) = b \o c
    BY DEF Script, pack_combatants_attr
  <1> HIDE DEF b, c
  <1>4. /\ Len(b \o c) = n + n
        /\ \A j \in 1..n : (b \o c)[j] = b[j] /\ (b \o c)[n + j] = c[j]
    BY <1>1, <1>2, Halves
  <1>6. n + n = 2 * NMembers + 2
    BY NMembersAssumption
  <1> HIDE DEF n
  <1>8. /\ Len(Script(f, nm)) = 2 * NMembers + 2
        /\ \A j \in 1..n : /\ Script(f, nm)[j] = AttrAt(f.team, nm, j)
                           /\ Script(f, nm)[n + j] = AttrAt(f.rival, nm, j)
    BY <1>2, <1>3, <1>4, <1>6
  <1> QED
    BY <1>8 DEF n

LEMMA SummonScript ==
  ASSUME NEW f, NEW nm, f.svc = "summon"
  PROVE  /\ Len(Script(f, nm)) = 2 * NMembers + 2
         /\ \A j \in 1..2 * NMembers + 2 : Script(f, nm)[j] = SummonAt(f, nm, j)
  <1> DEFINE g == [k \in 1..2 * NMembers |->
                     LET u == nm[(k + 1) \div 2]
                     IN  IF k % 2 = 1
                         THEN set_user_status(f.team, u, f.word)
                         ELSE set_position(f.team, u, IF f.word \in Roles THEN f.word ELSE "junk")]
             a == retrieve_members_name(f.team)
             z == set_team_status(f.team, "ONBATTLE")
             n == 2 * NMembers
  <1>1. /\ g = [k \in 1..n |-> g[k]] /\ NMembers \in Nat /\ n \in Nat /\ n > 0
    BY NMembersAssumption
  <1>2. Script(f, nm) = (<<a>> \o g) \o <<z>>
    BY DEF Script, set_members_onbattle
  <1>3. \A j \in 2..n + 1 :
          /\ j - 1 \in 1..n /\ (j - 1 + 1) \div 2 = j \div 2
          /\ (j - 1) % 2 = 1 <=> j % 2 = 0
    BY <1>1
  <1>4. \A j \in 2..n + 1 : g[j - 1] = SummonAt(f, nm, j)
    BY <1>1, <1>3 DEF SummonAt
  <1>5. SummonAt(f, nm, 1) = a /\ SummonAt(f, nm, n + 2) = z
    BY <1>1 DEF SummonAt
  <1>6. \A j \in 1..n + 2 : j = 1 \/ j = n + 2 \/ j \in 2..n + 1
    BY <1>1
  <1> HIDE DEF g, a, z, n
  <1>7. /\ Len((<<a>> \o g) \o <<z>>) = n + 2
        /\ ((<<a>> \o g) \o <<z>>)[1] = a /\ ((<<a>> \o g) \o <<z>>)[n + 2] = z
        /\ \A j \in 2..n + 1 : ((<<a>> \o g) \o <<z>>)[j] = g[j - 1]
    BY <1>1, FirstThenLast
  <1>8. /\ Len(Script(f, nm)) = n + 2
        /\ \A j \in 1..n + 2 : Script(f, nm)[j] = SummonAt(f, nm, j)
    BY <1>2, <1>4, <1>5, <1>6, <1>7
  <1> QED
    BY <1>8 DEF n

LEMMA CheckScript ==
  ASSUME NEW f, NEW nm, f.svc = "check_members_status"
  PROVE  /\ Len(Script(f, nm)) = NMembers + 2
         /\ \A j \in 1..NMembers + 2 : Script(f, nm)[j] = CheckAt(f, nm, j)
  <1> DEFINE g == [i \in 1..NMembers |-> retrieve_status(f.team, nm[i])]
             a == retrieve_members_name(f.team)
             z == set_team_status(f.team, "ONLINE")
  <1>1. /\ g = [k \in 1..NMembers |-> g[k]] /\ NMembers \in Nat /\ NMembers > 0
    BY NMembersAssumption
  <1>2. Script(f, nm) = (<<a>> \o g) \o <<z>>
    BY DEF Script, is_all_online
  <1>4. \A j \in 2..NMembers + 1 : g[j - 1] = CheckAt(f, nm, j)
    BY <1>1 DEF CheckAt
  <1>5. CheckAt(f, nm, 1) = a /\ CheckAt(f, nm, NMembers + 2) = z
    BY <1>1 DEF CheckAt
  <1>6. \A j \in 1..NMembers + 2 : j = 1 \/ j = NMembers + 2 \/ j \in 2..NMembers + 1
    BY <1>1
  <1> HIDE DEF g, a, z
  <1>7. /\ Len((<<a>> \o g) \o <<z>>) = NMembers + 2
        /\ ((<<a>> \o g) \o <<z>>)[1] = a /\ ((<<a>> \o g) \o <<z>>)[NMembers + 2] = z
        /\ \A j \in 2..NMembers + 1 : ((<<a>> \o g) \o <<z>>)[j] = g[j - 1]
    BY <1>1, FirstThenLast
  <1> QED
    BY <1>2, <1>4, <1>5, <1>6, <1>7

\* The services that go through the members of a team.
WalkingServices ==
  {"check_members_status", "summon", "get_battle_data", "get_combatants_attr"}

\* A walk over the members of t is at one of them, or about to begin.
Walks(q, t) == q = retrieve_members_name(t) \/ (Person(q) /\ q.team = t)

LEMMA PersonFields ==
  ASSUME NEW t, NEW u, NEW v
  PROVE  /\ Person(set_user_status(t, u, v)) /\ set_user_status(t, u, v).team = t
         /\ set_user_status(t, u, v).who = u
         /\ Person(set_position(t, u, v)) /\ set_position(t, u, v).team = t
         /\ set_position(t, u, v).who = u
         /\ Person(set_bullet_status(t, u, v)) /\ set_bullet_status(t, u, v).team = t
         /\ set_bullet_status(t, u, v).who = u
         /\ Person(set_attr(t, u)) /\ set_attr(t, u).team = t /\ set_attr(t, u).who = u
         /\ Person(pack_user_data(t, u)) /\ pack_user_data(t, u).team = t
         /\ pack_user_data(t, u).who = u
         /\ Person(retrieve_status(t, u)) /\ retrieve_status(t, u).team = t
         /\ retrieve_status(t, u).who = u
         /\ ~Person(retrieve_members_name(t)) /\ ~Person(set_team_status(t, v))
         /\ ~Person(user_exists(t, u, v)) /\ ~Person(retrieve_field(t))
         /\ ~Person(retrieve_teams(t)) /\ ~Person(set_rival_fields(t, v))
         /\ ~Person(set_invitation_fields(t, v))
  BY DEF Person, PersonOps, set_user_status, set_position, set_bullet_status, set_attr,
     pack_user_data, retrieve_status, retrieve_members_name, set_team_status, user_exists,
     retrieve_field, retrieve_teams, set_rival_fields, set_invitation_fields

\* The place in a walk before a member's.
LEMMA PackBefore ==
  ASSUME NEW t, NEW nm, NEW mn, NEW j \in 1..2 * NMembers + 1, Person(PackAt(t, nm, j))
  PROVE  /\ j > 1 /\ j - 1 \in 1..2 * NMembers + 1
         /\ PackAt(t, nm, j).team = t
         /\ \E i \in 1..NMembers : PackAt(t, nm, j).who = nm[i]
         /\ Walks(PackAt(t, mn, j - 1), t)
  <1>1. j # 1
    BY PersonFields DEF PackAt
  <1>2. j > 1 /\ j - 1 \in 1..2 * NMembers + 1 /\ j \div 2 \in 1..NMembers
    BY <1>1, NMembersAssumption
  <1>3. PackAt(t, nm, j).team = t /\ PackAt(t, nm, j).who = nm[j \div 2]
    BY <1>1, PersonFields DEF PackAt
  <1>4. Walks(PackAt(t, mn, j - 1), t)
    BY PersonFields DEF PackAt, Walks
  <1> QED
    BY <1>2, <1>3, <1>4

LEMMA AttrBefore ==
  ASSUME NEW t, NEW nm, NEW mn, NEW j \in 1..NMembers + 1, Person(AttrAt(t, nm, j))
  PROVE  /\ j > 1 /\ j - 1 \in 1..NMembers + 1
         /\ AttrAt(t, nm, j).team = t
         /\ \E i \in 1..NMembers : AttrAt(t, nm, j).who = nm[i]
         /\ Walks(AttrAt(t, mn, j - 1), t)
  <1>1. j # 1
    BY PersonFields DEF AttrAt
  <1>2. j > 1 /\ j - 1 \in 1..NMembers + 1 /\ j - 1 \in 1..NMembers
    BY <1>1, NMembersAssumption
  <1>3. AttrAt(t, nm, j).team = t /\ AttrAt(t, nm, j).who = nm[j - 1]
    BY <1>1, PersonFields DEF AttrAt
  <1>4. Walks(AttrAt(t, mn, j - 1), t)
    BY PersonFields DEF AttrAt, Walks
  <1> QED
    BY <1>2, <1>3, <1>4

\* Whom a statement about a member is about: the one the request names, or one of
\* those read at the beginning of the walk it is part of.
LEMMA ScriptPersons ==
  ASSUME NEW f \in Request, NEW nm \in Namings, NEW k \in 1..Len(Script(f, nm)),
         NEW q, q = Script(f, nm)[k], Person(q), f.svc # "has_battle"
  PROVE  /\ q.team \in {f.team, f.rival}
         /\ \/ f.svc \in NamingServices /\ q.team = f.team /\ q.who = f.who
            \/ /\ f.svc \in WalkingServices /\ k > 1
               /\ \E i \in 1..NMembers : q.who = nm[i]
               /\ \A mn \in Namings : Walks(Script(f, mn)[k - 1], q.team)
  <1>1. f.svc \in Services /\ f.team \in TeamNames /\ f.rival \in TeamNames
    BY DEF Request
  <1>2. CASE f.svc \in NamingServices
    <2>1. CASE f.svc = "login"
      BY <2>1, PersonFields, <1>2 DEF Script, set_user_online
    <2>2. CASE f.svc = "logout"
      BY <2>2, PersonFields, <1>2 DEF Script, set_user_offline
    <2>3. CASE f.svc = "update_xy"
      BY <2>3, PersonFields, <1>2 DEF Script, set_xy
    <2>4. CASE f.svc = "update_bullet"
      BY <2>4, PersonFields, <1>2 DEF Script, load_bullet
    <2>5. CASE f.svc = "update_combatants_attr"
      BY <2>5, PersonFields, <1>2 DEF Script, set_combatants_attr
    <2> QED
      BY <1>2, <2>1, <2>2, <2>3, <2>4, <2>5 DEF NamingServices
  <1>3. CASE f.svc = "check_members_status"
    <2>1. k \in 1..NMembers + 2 /\ q = CheckAt(f, nm, k)
      BY <1>3, CheckScript
    <2>2. k # 1 /\ k # NMembers + 2
      BY <2>1, PersonFields DEF CheckAt
    <2>3. k > 1 /\ k - 1 \in 1..NMembers /\ k - 1 \in 1..NMembers + 2 /\ k - 1 # NMembers + 2
      BY <2>1, <2>2, NMembersAssumption
    <2>4. q.team = f.team /\ q.who = nm[k - 1]
      BY <2>1, <2>2, PersonFields DEF CheckAt
    <2>5. ASSUME NEW mn \in Namings PROVE Walks(Script(f, mn)[k - 1], f.team)
      <3>1. Script(f, mn)[k - 1] = CheckAt(f, mn, k - 1)
        BY <1>3, <2>3, CheckScript
      <3> QED
        BY <2>3, <3>1, PersonFields DEF CheckAt, Walks
    <2> QED
      BY <1>3, <2>3, <2>4, <2>5 DEF WalkingServices
  <1>4. CASE f.svc = "summon"
    <2>1. k \in 1..2 * NMembers + 2 /\ q = SummonAt(f, nm, k)
      BY <1>4, SummonScript
    <2>2. k # 1 /\ k # 2 * NMembers + 2
      BY <2>1, PersonFields DEF SummonAt
    <2>3. /\ k > 1 /\ k - 1 \in 1..2 * NMembers + 2 /\ k - 1 # 2 * NMembers + 2
          /\ k \div 2 \in 1..NMembers
      BY <2>1, <2>2, NMembersAssumption
    <2>4. q.team = f.team /\ q.who = nm[k \div 2]
      BY <2>1, <2>2, PersonFields DEF SummonAt
    <2>5. ASSUME NEW mn \in Namings PROVE Walks(Script(f, mn)[k - 1], f.team)
      <3>1. Script(f, mn)[k - 1] = SummonAt(f, mn, k - 1)
        BY <1>4, <2>3, SummonScript
      <3> QED
        BY <2>3, <3>1, PersonFields DEF SummonAt, Walks
    <2> QED
      BY <1>4, <2>3, <2>4, <2>5 DEF WalkingServices
  <1>5. CASE f.svc = "get_battle_data"
    <2> DEFINE n == 2 * NMembers + 1
    <2>1. /\ \A mn \in Namings : \A j \in 1..n : /\ Script(f, mn)[j] = PackAt(f.team, mn, j)
                                                 /\ Script(f, mn)[n + j] = PackAt(f.rival, mn, j)
          /\ n \in Nat /\ k \in 1..n + n
      BY <1>5, BattleDataScript, NMembersAssumption, SMTT(30)
    <2>2. CASE k <= n
      <3>1. k \in 1..n /\ k \in Nat /\ q = PackAt(f.team, nm, k)
        BY <2>1, <2>2
      <3>2. ASSUME NEW mn \in Namings
            PROVE  /\ k > 1 /\ k - 1 \in 1..n /\ q.team = f.team
                   /\ \E i \in 1..NMembers : q.who = nm[i]
                   /\ Walks(PackAt(f.team, mn, k - 1), f.team)
        <4>1. Person(PackAt(f.team, nm, k)) /\ k \in 1..2 * NMembers + 1
          BY <3>1
        <4>2. /\ k > 1 /\ k - 1 \in 1..2 * NMembers + 1
              /\ PackAt(f.team, nm, k).team = f.team
              /\ \E i \in 1..NMembers : PackAt(f.team, nm, k).who = nm[i]
              /\ Walks(PackAt(f.team, mn, k - 1), f.team)
          BY ONLY <4>1, PackBefore
        <4> QED
          BY <3>1, <4>2
      <3>3. \A mn \in Namings : Walks(Script(f, mn)[k - 1], f.team)
        BY <2>1, <3>2
      <3> QED
        BY <1>5, <3>2, <3>3 DEF WalkingServices
    <2>3. CASE ~(k <= n)
      <3> DEFINE j == k - n
      <3>1. j \in 1..n /\ j \in Nat /\ n + j = k
        BY <2>1, <2>3
      <3>2. q = PackAt(f.rival, nm, j)
        BY <2>1, <3>1
      <3> HIDE DEF j
      <3>3. ASSUME NEW mn \in Namings
            PROVE  /\ j > 1 /\ j - 1 \in 1..n /\ q.team = f.rival
                   /\ \E i \in 1..NMembers : q.who = nm[i]
                   /\ Walks(PackAt(f.rival, mn, j - 1), f.rival)
        <4>1. Person(PackAt(f.rival, nm, j)) /\ j \in 1..2 * NMembers + 1
          BY <3>1, <3>2
        <4>2. /\ j > 1 /\ j - 1 \in 1..2 * NMembers + 1
              /\ PackAt(f.rival, nm, j).team = f.rival
              /\ \E i \in 1..NMembers : PackAt(f.rival, nm, j).who = nm[i]
              /\ Walks(PackAt(f.rival, mn, j - 1), f.rival)
          BY ONLY <4>1, PackBefore
        <4> QED
          BY <3>2, <4>2
      <3>4. n + (j - 1) = k - 1 /\ k > 1
        <4>1. j > 1 /\ j \in Nat /\ n \in Nat
          BY <2>1, <3>1, <3>3
        <4> QED
          BY <3>1, <4>1
      <3> HIDE DEF n
      <3>5. \A mn \in Namings : Walks(Script(f, mn)[k - 1], f.rival)
        BY <2>1, <3>3, <3>4
      <3> QED
        BY <1>5, <3>3, <3>4, <3>5 DEF WalkingServices
    <2> QED
      BY <2>2, <2>3
  <1>6. CASE f.svc = "get_combatants_attr"
    <2> DEFINE n == NMembers + 1
    <2>1. /\ \A mn \in Namings : \A j \in 1..n : /\ Script(f, mn)[j] = AttrAt(f.team, mn, j)
                                                 /\ Script(f, mn)[n + j] = AttrAt(f.rival, mn, j)
          /\ n \in Nat /\ k \in 1..n + n
      BY <1>6, AttrScript, NMembersAssumption
    <2>2. CASE k <= n
      <3>1. k \in 1..n /\ k \in Nat /\ q = AttrAt(f.team, nm, k)
        BY <2>1, <2>2
      <3>2. ASSUME NEW mn \in Namings
            PROVE  /\ k > 1 /\ k - 1 \in 1..n /\ q.team = f.team
                   /\ \E i \in 1..NMembers : q.who = nm[i]
                   /\ Walks(AttrAt(f.team, mn, k - 1), f.team)
        <4>1. k \in 1..NMembers + 1 /\ Person(AttrAt(f.team, nm, k))
          BY <3>1
        <4>2. /\ k > 1 /\ k - 1 \in 1..NMembers + 1
              /\ AttrAt(f.team, nm, k).team = f.team
              /\ \E i \in 1..NMembers : AttrAt(f.team, nm, k).who = nm[i]
              /\ Walks(AttrAt(f.team, mn, k - 1), f.team)
          BY ONLY <4>1, AttrBefore
        <4> QED
          BY <3>1, <4>2
      <3>3. \A mn \in Namings : Walks(Script(f, mn)[k - 1], f.team)
        BY <2>1, <3>2
      <3> QED
        BY <1>6, <3>2, <3>3 DEF WalkingServices
    <2>3. CASE ~(k <= n)
      <3> DEFINE j == k - n
      <3>1. j \in 1..n /\ j \in Nat /\ n + j = k
        BY <2>1, <2>3
      <3>2. q = AttrAt(f.rival, nm, j)
        BY <2>1, <3>1
      <3> HIDE DEF j
      <3>3. ASSUME NEW mn \in Namings
            PROVE  /\ j > 1 /\ j - 1 \in 1..n /\ q.team = f.rival
                   /\ \E i \in 1..NMembers : q.who = nm[i]
                   /\ Walks(AttrAt(f.rival, mn, j - 1), f.rival)
        BY <3>1, <3>2, AttrBefore, SMTT(30)
      <3>4. n + (j - 1) = k - 1 /\ k > 1
        <4>1. j > 1 /\ j \in Nat /\ n \in Nat
          BY <2>1, <3>1, <3>3
        <4> QED
          BY <3>1, <4>1
      <3> HIDE DEF n
      <3>5. \A mn \in Namings : Walks(Script(f, mn)[k - 1], f.rival)
        BY <2>1, <3>3, <3>4
      <3> QED
        BY <1>6, <3>3, <3>4, <3>5 DEF WalkingServices
    <2> QED
      BY <2>2, <2>3
  <1>7. CASE f.svc \in {"register", "record_battle_result"}
    <2>1. ~Person(q)
      <3>1. \A t, v : ~Person(retrieve_times(t, v)) /\ ~Person(no_such_team(t))
                        /\ ~Person(insert_team(t)) /\ ~Person(insert_user(t, v))
        BY DEF Person, PersonOps, retrieve_times, no_such_team, insert_team, insert_user
      <3>2. \A t, v, w : ~Person(set_times(t, v, w))
        BY DEF Person, PersonOps, set_times
      <3>3. CASE f.svc = "register"
        <4>1. k \in 1..NMembers + 2 /\ (k = 1 \/ k = 2 \/ k - 2 \in 1..NMembers)
          BY <3>3, RegisterScript, NMembersAssumption
        <4>2. \A i \in 1..NMembers : Script(f, nm)[i + 2] = insert_user(f, i)
          BY <3>3, RegisterScript
        <4>3. k - 2 \in 1..NMembers => q = insert_user(f, k - 2)
          <5>1. k - 2 + 2 = k
            BY <4>1
          <5> QED
            BY <4>2, <5>1
        <4> QED
          BY <3>1, <3>3, <4>1, <4>3, RegisterScript, ZenonT(30)
      <3>4. CASE f.svc = "record_battle_result"
        BY <3>1, <3>2, <3>4, PersonFields DEF Script, update_battle_result
      <3> QED
        BY <1>7, <3>3, <3>4
    <2> QED
      BY <2>1
  <1>8. CASE f.svc \in {"get_team_list", "get_rival_name", "has_invitation",
                        "listen_invitation", "send_invitation", "respond_invitation"}
    <2>1. ~Person(q)
      <3>1. CASE f.svc = "get_team_list"
        BY <3>1, PersonFields DEF Script, query_team_list
      <3>2. CASE f.svc \in {"get_rival_name", "has_invitation", "listen_invitation"}
        BY <3>2, PersonFields DEF Script
      <3>3. CASE f.svc = "send_invitation"
        BY <3>3, PersonFields DEF Script, set_rival
      <3>4. CASE f.svc = "respond_invitation"
        BY <3>4, PersonFields DEF Script, set_invitation_status
      <3> QED
        BY <1>8, <3>1, <3>2, <3>3, <3>4
    <2> QED
      BY <2>1
  <1> QED
    BY <1>1, <1>2, <1>3, <1>4, <1>5, <1>6, <1>7, <1>8 DEF Services, NamingServices

------------------------------------------------------------------------------
(* What one statement changes.                                              *)

LEMMA TeamColumns ==
  ASSUME TypeInv, NEW s \in Sessions, Work(s), NEW i \in DOMAIN teams
  PROVE  /\ i \in DOMAIN teams' /\ teams'[i].name = teams[i].name
         /\ teams'[i].roster = teams[i].roster
         /\ \/ teams'[i].status = teams[i].status
            \/ /\ linked[s] /\ Statement(s).op = "set_team_status"
               /\ Statement(s).team = teams[i].name /\ teams'[i].status = Statement(s).val
  <1>1. teams \in Seq(TeamRow) /\ \A j \in DOMAIN teams : teams[j] \in TeamRow
    BY TableTypes
  <1>2. i \in DOMAIN teams' /\ teams'[i].name = teams[i].name
    BY TeamsRemain
  <1> DEFINE q == Statement(s)
  <1>3. CASE WriteTeam(s)
    <2>1. CASE q.op = "set_team_status" /\ UpdateTeams(q.team, LAMBDA r : [r EXCEPT !.status = q.val])
      <3>1. teams' = [j \in DOMAIN teams |->
              IF TeamNamed(j, q.team) THEN [teams[j] EXCEPT !.status = q.val] ELSE teams[j]]
        BY <2>1 DEF UpdateTeams
      <3>2. linked[s]
        BY <1>3 DEF WriteTeam
      <3> QED
        BY <1>1, <1>2, <2>1, <3>1, <3>2 DEF TeamRow, TeamNamed
    <2>2. CASE UpdateTeams(q.team, LAMBDA r : [r EXCEPT !.rival = q.val])
      <3>1. teams' = [j \in DOMAIN teams |->
              IF TeamNamed(j, q.team) THEN [teams[j] EXCEPT !.rival = q.val] ELSE teams[j]]
        BY <2>2 DEF UpdateTeams
      <3> QED
        BY <1>1, <1>2, <3>1 DEF TeamRow
    <2>3. CASE UpdateTeams(q.team, LAMBDA r : [r EXCEPT !.invitation = q.val])
      <3>1. teams' = [j \in DOMAIN teams |->
              IF TeamNamed(j, q.team) THEN [teams[j] EXCEPT !.invitation = q.val] ELSE teams[j]]
        BY <2>3 DEF UpdateTeams
      <3> QED
        BY <1>1, <1>2, <3>1 DEF TeamRow
    <2> QED
      BY <1>3, <2>1, <2>2, <2>3 DEF WriteTeam
  <1>4. CASE SetTimes(s)
    <2> DEFINE n == times[s] + q.more
    <2>1. CASE UpdateTeams(q.team, LAMBDA r : [r EXCEPT !.vs_times = n])
      <3>1. teams' = [j \in DOMAIN teams |->
              IF TeamNamed(j, q.team) THEN [teams[j] EXCEPT !.vs_times = n] ELSE teams[j]]
        BY <2>1 DEF UpdateTeams
      <3> HIDE DEF n
      <3> QED
        BY <1>1, <1>2, <3>1 DEF TeamRow
    <2>2. CASE UpdateTeams(q.team, LAMBDA r : [r EXCEPT !.win_times = n])
      <3>1. teams' = [j \in DOMAIN teams |->
              IF TeamNamed(j, q.team) THEN [teams[j] EXCEPT !.win_times = n] ELSE teams[j]]
        BY <2>2 DEF UpdateTeams
      <3> HIDE DEF n
      <3> QED
        BY <1>1, <1>2, <3>1 DEF TeamRow
    <2> QED
      BY <1>4, <2>1, <2>2 DEF SetTimes
  <1>5. CASE InsertTeam(s)
    <2>1. teams'[i] = teams[i]
      BY <1>1, <1>5, InsertTeamFounds DEF Founds
    <2> QED
      BY <1>2, <2>1
  <1>6. CASE ~(WriteTeam(s) \/ SetTimes(s) \/ InsertTeam(s))
    <2>1. teams' = teams
      BY <1>6 DEF Work, QueryFails, RowMissing, NoSuchTeam, UserExists, RetrieveMembersName,
         RetrieveStatus, RetrieveField, RetrieveTeams, RetrieveTimes, PackUserData,
         InsertUser, WriteUser, tables
    <2> QED
      BY <2>1
  <1> QED
    BY <1>3, <1>4, <1>5, <1>6

\* A new row of the teams is the one a registration adds.
LEMMA NewTeamRow ==
  ASSUME TypeInv, NEW s \in Sessions, Work(s), NEW i \in DOMAIN teams', i \notin DOMAIN teams
  PROVE  Founds(s) /\ teams'[i] = NewTeam(req[s])
  <1>1. teams \in Seq(TeamRow)
    BY TableTypes
  <1>2. CASE Founds(s)
    BY <1>1, <1>2 DEF Founds
  <1>3. CASE KeepsTeams
    BY <1>1, <1>3 DEF KeepsTeams
  <1> QED
    BY <1>2, <1>3, WorkTables DEF Enrols

LEMMA NewUserRow ==
  ASSUME TypeInv, NEW s \in Sessions, Work(s), NEW i \in DOMAIN users', i \notin DOMAIN users
  PROVE  /\ Enrols(s) /\ users'[i] = NewUser(req[s], step[s] - 2)
         /\ step[s] - 2 \in 1..NMembers /\ \A j \in DOMAIN users : j < i
  <1>1. users \in Seq(UserRow)
    BY TableTypes
  <1>2. CASE Enrols(s)
    <2>1. users' = Append(users, NewUser(req[s], step[s] - 2)) /\ step[s] \in 3..NMembers + 2
      BY <1>2 DEF Enrols
    <2>2. step[s] - 2 \in 1..NMembers
      BY <2>1, NMembersAssumption
    <2>3. i = Len(users) + 1 /\ users'[i] = NewUser(req[s], step[s] - 2)
          /\ \A j \in DOMAIN users : j < i
      BY <1>1, <2>1
    <2> QED
      BY <1>2, <2>2, <2>3
  <1>3. CASE KeepsUsers
    BY <1>1, <1>3 DEF KeepsUsers
  <1> QED
    BY <1>2, <1>3, WorkTables DEF Founds

Writes == {"set_user_status", "set_position", "set_bullet_status", "set_attr"}

\* An update changes the rows of the member it names, each in one column.
LEMMA UserColumns ==
  ASSUME TypeInv, NEW s \in Sessions, Work(s), NEW i \in DOMAIN users,
         NEW q, q = Statement(s)
  PROVE  /\ i \in DOMAIN users' /\ users'[i].team = users[i].team
         /\ users'[i].name = users[i].name
         /\ WriteUser(s) => q.op \in Writes /\ linked[s]
         /\ ~(WriteUser(s) /\ UserNamed(i, q.team, q.who)) => users'[i] = users[i]
         /\ WriteUser(s) /\ UserNamed(i, q.team, q.who) =>
              /\ users'[i].status = IF q.op = "set_user_status" THEN q.val ELSE users[i].status
              /\ users'[i].bullet = IF q.op = "set_bullet_status" THEN q.val
                                    ELSE IF q.op = "set_attr" THEN "FIRED" ELSE users[i].bullet
  <1>1. users \in Seq(UserRow) /\ \A j \in DOMAIN users : users[j] \in UserRow
    BY TableTypes
  <1>2. i \in DOMAIN users' /\ users'[i].team = users[i].team /\ users'[i].name = users[i].name
    BY UsersRemain
  <1>3. CASE WriteUser(s)
    <2>0. linked[s]
      BY <1>3 DEF WriteUser
    <2>1. CASE q.op = "set_user_status" /\ UpdateUsers(q.team, q.who, LAMBDA r : [r EXCEPT !.status = q.val])
      <3>1. users' = [j \in DOMAIN users |-> IF UserNamed(j, q.team, q.who)
                        THEN [users[j] EXCEPT !.status = q.val] ELSE users[j]]
        BY <2>1 DEF UpdateUsers
      <3>2. /\ UserNamed(i, q.team, q.who) => users'[i] = [users[i] EXCEPT !.status = q.val]
            /\ ~UserNamed(i, q.team, q.who) => users'[i] = users[i]
        BY <3>1
      <3>3. users[i] \in UserRow
        BY <1>1
      <3>4. UserNamed(i, q.team, q.who) =>
              /\ users'[i].status = q.val
              /\ users'[i].bullet = users[i].bullet
        BY <3>2, <3>3 DEF UserRow
      <3>5. q.op = "set_user_status" /\ q.op \in Writes
        BY <2>1 DEF Writes
      <3> QED
        BY <1>2, <1>3, <2>0, <3>2, <3>4, <3>5
    <2>2. CASE q.op = "set_position" /\ UpdateUsers(q.team, q.who, LAMBDA r : [r EXCEPT !.place = q.val])
      <3>1. users' = [j \in DOMAIN users |-> IF UserNamed(j, q.team, q.who)
                        THEN [users[j] EXCEPT !.place = q.val] ELSE users[j]]
        BY <2>2 DEF UpdateUsers
      <3>2. /\ UserNamed(i, q.team, q.who) => users'[i] = [users[i] EXCEPT !.place = q.val]
            /\ ~UserNamed(i, q.team, q.who) => users'[i] = users[i]
        BY <3>1
      <3>3. users[i] \in UserRow
        BY <1>1
      <3>4. UserNamed(i, q.team, q.who) =>
              /\ users'[i].status = users[i].status
              /\ users'[i].bullet = users[i].bullet
        BY <3>2, <3>3 DEF UserRow
      <3>5. q.op = "set_position" /\ q.op \in Writes
        BY <2>2 DEF Writes
      <3> QED
        BY <1>2, <1>3, <2>0, <3>2, <3>4, <3>5
    <2>3. CASE q.op = "set_bullet_status" /\ UpdateUsers(q.team, q.who, LAMBDA r : [r EXCEPT !.bullet = q.val])
      <3>1. users' = [j \in DOMAIN users |-> IF UserNamed(j, q.team, q.who)
                        THEN [users[j] EXCEPT !.bullet = q.val] ELSE users[j]]
        BY <2>3 DEF UpdateUsers
      <3>2. /\ UserNamed(i, q.team, q.who) => users'[i] = [users[i] EXCEPT !.bullet = q.val]
            /\ ~UserNamed(i, q.team, q.who) => users'[i] = users[i]
        BY <3>1
      <3>3. users[i] \in UserRow
        BY <1>1
      <3>4. UserNamed(i, q.team, q.who) =>
              /\ users'[i].status = users[i].status
              /\ users'[i].bullet = q.val
        BY <3>2, <3>3 DEF UserRow
      <3>5. q.op = "set_bullet_status" /\ q.op \in Writes
        BY <2>3 DEF Writes
      <3> QED
        BY <1>2, <1>3, <2>0, <3>2, <3>4, <3>5
    <2>4. CASE q.op = "set_attr" /\ UpdateUsers(q.team, q.who, LAMBDA r : [r EXCEPT !.bullet = "FIRED"])
      <3>1. users' = [j \in DOMAIN users |-> IF UserNamed(j, q.team, q.who)
                        THEN [users[j] EXCEPT !.bullet = "FIRED"] ELSE users[j]]
        BY <2>4 DEF UpdateUsers
      <3>2. /\ UserNamed(i, q.team, q.who) => users'[i] = [users[i] EXCEPT !.bullet = "FIRED"]
            /\ ~UserNamed(i, q.team, q.who) => users'[i] = users[i]
        BY <3>1
      <3>3. users[i] \in UserRow
        BY <1>1
      <3>4. UserNamed(i, q.team, q.who) =>
              /\ users'[i].status = users[i].status
              /\ users'[i].bullet = "FIRED"
        BY <3>2, <3>3 DEF UserRow
      <3>5. q.op = "set_attr" /\ q.op \in Writes
        BY <2>4 DEF Writes
      <3> QED
        BY <1>2, <1>3, <2>0, <3>2, <3>4, <3>5
    <2> QED
      BY <1>3, <2>1, <2>2, <2>3, <2>4 DEF WriteUser
  <1>4. CASE InsertUser(s) /\ ~WriteUser(s)
    <2>1. users'[i] = users[i]
      BY <1>1, <1>4, InsertUserEnrols DEF Enrols
    <2> QED
      BY <1>2, <1>4, <2>1
  <1>5. CASE ~(WriteUser(s) \/ InsertUser(s))
    <2>1. users' = users
      BY <1>5 DEF Work, QueryFails, RowMissing, NoSuchTeam, UserExists, RetrieveMembersName,
         RetrieveStatus, RetrieveField, RetrieveTeams, RetrieveTimes, PackUserData,
         InsertTeam, WriteTeam, SetTimes, tables
    <2> QED
      BY <1>5, <2>1
  <1> QED
    BY <1>3, <1>4, <1>5

\* What a session keeps to itself changes in its own statements only.
LEMMA OthersKept ==
  ASSUME TypeInv, NEW s \in Sessions, Work(s), NEW z \in Sessions, z # s
  PROVE  /\ pc'[z] = pc[z] /\ step'[z] = step[z] /\ req'[z] = req[z] /\ linked'[z] = linked[z]
         /\ names'[z] = names[z] /\ absent'[z] = absent[z] /\ seen'[z] = seen[z]
         /\ Statement(z)' = Statement(z)
  <1>1. /\ DOMAIN pc = Sessions /\ DOMAIN step = Sessions /\ DOMAIN names = Sessions
        /\ DOMAIN absent = Sessions /\ DOMAIN seen = Sessions
    BY DEF TypeInv, TypeOK
  <1>2. Moves(s)
    BY WorkMoves
  <1>3. pc'[z] = pc[z] /\ step'[z] = step[z] /\ req'[z] = req[z] /\ linked'[z] = linked[z]
    BY <1>1, <1>2 DEF Moves, Steps, Halts, SameSession
  <1>4. CASE RetrieveMembersName(s)
    BY <1>1, <1>3, <1>4 DEF RetrieveMembersName, Statement, Current
  <1>5. CASE RetrieveStatus(s)
    BY <1>1, <1>3, <1>5 DEF RetrieveStatus, Statement, Current
  <1>6. CASE PackUserData(s)
    BY <1>1, <1>3, <1>6 DEF PackUserData, Statement, Current
  <1>7. CASE ~(RetrieveMembersName(s) \/ RetrieveStatus(s) \/ PackUserData(s))
    <2>1. names' = names /\ absent' = absent /\ seen' = seen
      BY <1>7 DEF Work, QueryFails, RowMissing, NoSuchTeam, UserExists, RetrieveField,
         RetrieveTeams, RetrieveTimes, InsertTeam, InsertUser, WriteTeam, SetTimes, WriteUser,
         locals
    <2> QED
      BY <1>3, <2>1 DEF Statement, Current
  <1> QED
    BY <1>4, <1>5, <1>6, <1>7

\* A step of a handler is one session's.
LEMMA ActorIsOne ==
  ASSUME TypeInv, NEW s \in Sessions, Work(s)
  PROVE  Acts(s) /\ \A z \in Sessions : Acts(z) => z = s
  <1>1. Moves(s) /\ Serving(s)
    BY WorkMoves
  <1>2. pc \in [Sessions -> {"listen", "recv", "query", "exit"}] /\ step \in [Sessions -> Nat \ {0}]
    BY DEF TypeInv, TypeOK
  <1>3. Acts(s)
    <2>1. CASE Steps(s)
      BY <1>1, <1>2, <2>1 DEF Steps, Acts
    <2>2. CASE Halts(s)
      BY <1>1, <1>2, <2>2 DEF Halts, Acts, Serving
    <2> QED
      BY <1>1, <2>1, <2>2 DEF Moves
  <1> QED
    BY <1>3, OthersKept DEF Acts

\* What clients and the network do to a session that serves.
LEMMA EnvironmentKeeps ==
  ASSUME TypeInv, NEW s \in Sessions, Environment(s), NEW z \in Sessions, Serving(z)
  PROVE  /\ Serving(z)' /\ pc'[z] = pc[z] /\ step'[z] = step[z] /\ req'[z] = req[z]
         /\ names'[z] = names[z] /\ absent'[z] = absent[z] /\ seen'[z] = seen[z]
         /\ Statement(z)' = Statement(z)
  <1>1. /\ DOMAIN pc = Sessions /\ DOMAIN step = Sessions /\ DOMAIN names = Sessions
        /\ DOMAIN absent = Sessions /\ DOMAIN seen = Sessions /\ DOMAIN req = Sessions
        /\ pc[z] = "query"
    BY DEF TypeInv, TypeOK, Serving
  <1>2. /\ pc'[z] = pc[z] /\ step'[z] = step[z] /\ req'[z] = req[z]
        /\ names'[z] = names[z] /\ absent'[z] = absent[z] /\ seen'[z] = seen[z]
    <2>1. CASE Connect(s)
      BY <1>1, <2>1 DEF Connect, locals
    <2>2. ASSUME NEW f \in Requests[s], Receive(s, f)
          PROVE  /\ pc'[z] = pc[z] /\ step'[z] = step[z] /\ req'[z] = req[z]
                 /\ names'[z] = names[z] /\ absent'[z] = absent[z] /\ seen'[z] = seen[z]
      <3>1. z # s
        BY <1>1, <2>2 DEF Receive, Sends
      <3> QED
        BY <1>1, <2>2, <3>1 DEF Receive
    <2>3. CASE ReceiveGarbled(s)
      <3>1. z # s
        BY <1>1, <2>3 DEF ReceiveGarbled, Sends
      <3> QED
        BY <1>1, <2>3, <3>1 DEF ReceiveGarbled, locals
    <2>4. CASE Disconnect(s)
      BY <1>1, <2>4 DEF Disconnect, Crash, locals, SameSession
    <2>5. CASE LoseDb(s)
      BY <1>1, <2>5 DEF LoseDb, locals
    <2> QED
      BY <2>1, <2>2, <2>3, <2>4, <2>5 DEF Environment
  <1> QED
    BY <1>1, <1>2 DEF Serving, Statement, Current

\* A member list is read by one statement only.
LEMMA NamesKept ==
  ASSUME NEW s \in Sessions, Work(s), Statement(s).op # "retrieve_members_name"
  PROVE  names' = names
  BY DEF Work, QueryFails, RowMissing, NoSuchTeam, UserExists, RetrieveMembersName,
     RetrieveStatus, RetrieveField, RetrieveTeams, RetrieveTimes, PackUserData,
     InsertTeam, InsertUser, WriteTeam, SetTimes, WriteUser, Issues, locals

\* What a walk reads first is the roster in a row of its team.
LEMMA RosterRead ==
  ASSUME TypeInv, NEW s \in Sessions, Work(s), ~Halts(s),
         NEW t, Statement(s) = retrieve_members_name(t)
  PROVE  /\ \E i \in DOMAIN teams : FirstTeam(i, t) /\ names'[s] = teams[i].roster
         /\ teams' = teams /\ users' = users
  <1>1. Statement(s).op = "retrieve_members_name" /\ Statement(s).team = t
    BY DEF retrieve_members_name
  <1>2. ~QueryFails(s) /\ ~RowMissing(s)
    BY FailHalts, CrashHalts DEF QueryFails, RowMissing
  <1>3. RetrieveMembersName(s)
    BY <1>1, <1>2 DEF Work, NoSuchTeam, UserExists, RetrieveStatus, RetrieveField,
       RetrieveTeams, RetrieveTimes, PackUserData, InsertTeam, InsertUser, WriteTeam,
       SetTimes, WriteUser, Issues
  <1>4. DOMAIN names = Sessions
    BY DEF TypeInv, TypeOK
  <1> QED
    BY <1>1, <1>3, <1>4 DEF RetrieveMembersName, tables

\* The statement a session comes to.
LEMMA NextStatement ==
  ASSUME TypeInv, TypeInv', NEW s \in Sessions, Work(s), Serving(s)'
  PROVE  /\ Serving(s) /\ ~Halts(s) /\ req'[s] = req[s] /\ req[s] \in Request
         /\ step[s] \in Nat /\ step[s] >= 1 /\ step'[s] = step[s] + 1
         /\ names[s] \in Namings /\ names'[s] \in Namings
         /\ step'[s] \in 1..Len(Script(req[s], names'[s]))
         /\ Statement(s)' = Script(req[s], names'[s])[step'[s]]
         /\ Statement(s) = Script(req[s], names[s])[step[s]]
  <1>1. Serving(s) /\ ~Halts(s) /\ req'[s] = req[s] /\ step'[s] = step[s] + 1
    BY ServingRemains
  <1>2. req[s] \in Request /\ names[s] \in Namings /\ step[s] \in Nat \ {0}
    BY <1>1, StatementType DEF TypeInv, TypeOK
  <1>3. names'[s] \in Namings /\ step'[s] \in 1..Len(Current(s)')
    BY DEF TypeInv, TypeOK, Control, Namings
  <1>4. Current(s)' = Script(req[s], names'[s]) /\ Statement(s)' = Current(s)'[step'[s]]
    BY <1>1 DEF Current, Statement
  <1> QED
    BY <1>1, <1>2, <1>3, <1>4 DEF Current, Statement

------------------------------------------------------------------------------
(* Every statement about a member is about one that a row or a request of   *)
(* its team names.                                                          *)

ListedInv ==
  /\ Asked
  /\ \A i \in DOMAIN users : Mentions(users[i].team, users[i].name)
  /\ \A i \in DOMAIN teams : \A k \in 1..NMembers :
       Mentions(teams[i].name, teams[i].roster[k])
  /\ \A s \in Sessions :
       (Serving(s) /\ req[s].svc \in WalkingServices /\ Person(Statement(s))) =>
         \A k \in 1..NMembers : Mentions(Statement(s).team, names[s][k])

LEMMA ListedUsers ==
  ASSUME TypeInv, ListedInv, NEW s \in Sessions, Work(s), NEW i \in DOMAIN users'
  PROVE  Mentions(users'[i].team, users'[i].name)
  <1>1. CASE i \in DOMAIN users
    BY <1>1, UsersRemain DEF ListedInv
  <1>2. CASE i \notin DOMAIN users
    <2>1. Enrols(s) /\ users'[i] = NewUser(req[s], step[s] - 2) /\ step[s] - 2 \in 1..NMembers
      BY <1>2, NewUserRow
    <2>2. req[s] \in Requests[s] /\ req[s].svc = "register"
      BY <2>1, WorkMoves DEF ListedInv, Asked, Enrols
    <2>3. users'[i].team = req[s].team /\ users'[i].name = req[s].roster[step[s] - 2]
      BY <2>1 DEF NewUser
    <2> QED
      BY <2>1, <2>2, <2>3 DEF Mentions
  <1> QED
    BY <1>1, <1>2

LEMMA ListedTeams ==
  ASSUME TypeInv, ListedInv, NEW s \in Sessions, Work(s), NEW i \in DOMAIN teams',
         NEW k \in 1..NMembers
  PROVE  Mentions(teams'[i].name, teams'[i].roster[k])
  <1>1. CASE i \in DOMAIN teams
    BY <1>1, TeamColumns DEF ListedInv
  <1>2. CASE i \notin DOMAIN teams
    <2>1. Founds(s) /\ teams'[i] = NewTeam(req[s])
      BY <1>2, NewTeamRow
    <2>2. req[s] \in Requests[s] /\ req[s].svc = "register"
      BY <2>1, WorkMoves DEF ListedInv, Asked, Founds
    <2>3. teams'[i].name = req[s].team /\ teams'[i].roster = req[s].roster
      BY <2>1 DEF NewTeam
    <2> QED
      BY <2>2, <2>3 DEF Mentions
  <1> QED
    BY <1>1, <1>2

LEMMA ListedWork ==
  ASSUME TypeInv, TypeInv', ListedInv, NEW s \in Sessions, Work(s)
  PROVE  ListedInv'
  <1>1. ASSUME NEW z \in Sessions, Serving(z)', req'[z].svc \in WalkingServices,
               Person(Statement(z)'), NEW k \in 1..NMembers
        PROVE  Mentions(Statement(z)'.team, names'[z][k])
    <2>1. CASE z # s
      <3>1. Serving(z) /\ req'[z] = req[z]
        BY <1>1, ServingRemains
      <3>2. Statement(z)' = Statement(z) /\ names'[z] = names[z]
        BY <2>1, OthersKept
      <3> QED
        BY <1>1, <3>1, <3>2 DEF ListedInv
    <2>2. CASE z = s
      <3> DEFINE q == Statement(s)'
                 n == step'[s]
                 nm == names'[s]
      <3>1. /\ Serving(s) /\ ~Halts(s) /\ req'[s] = req[s] /\ req[s] \in Request
            /\ step[s] \in Nat /\ n = step[s] + 1
            /\ names[s] \in Namings /\ nm \in Namings
            /\ n \in 1..Len(Script(req[s], nm)) /\ q = Script(req[s], nm)[n]
            /\ Statement(s) = Script(req[s], names[s])[step[s]]
        BY <1>1, <2>2, NextStatement
      <3>2. Person(q) /\ req[s].svc \in WalkingServices
        BY <1>1, <2>2, <3>1
      <3>3. req[s].svc # "has_battle" /\ req[s].svc \notin NamingServices
        BY <3>2 DEF WalkingServices, NamingServices
      <3> HIDE DEF q, n, nm
      <3>4. \A mn \in Namings : Walks(Script(req[s], mn)[n - 1], q.team)
        BY <3>1, <3>2, <3>3, ScriptPersons
      <3>5. n - 1 = step[s]
        BY <3>1
      <3>6. Walks(Statement(s), q.team)
        BY <3>1, <3>4, <3>5
      <3>7. CASE Statement(s) = retrieve_members_name(q.team)
        <4>1. PICK i \in DOMAIN teams : FirstTeam(i, q.team) /\ nm = teams[i].roster
          BY <3>1, <3>7, RosterRead DEF nm
        <4>2. teams[i].name = q.team
          BY <4>1 DEF FirstTeam, TeamNamed
        <4> QED
          BY <2>2, <4>1, <4>2 DEF ListedInv, q, nm
      <3>8. CASE Person(Statement(s)) /\ Statement(s).team = q.team
        <4>1. Statement(s).op # "retrieve_members_name"
          BY <3>8 DEF Person, PersonOps
        <4>2. nm = names[s]
          BY <4>1, NamesKept DEF nm
        <4> QED
          BY <2>2, <3>1, <3>2, <3>8, <4>2 DEF ListedInv, q, nm
      <3> QED
        BY <3>6, <3>7, <3>8 DEF Walks
    <2> QED
      BY <2>1, <2>2
  <1>2. Asked'
    BY AskedWork DEF ListedInv
  <1>3. /\ \A i \in DOMAIN users' : Mentions(users'[i].team, users'[i].name)
        /\ \A i \in DOMAIN teams' : \A k \in 1..NMembers :
             Mentions(teams'[i].name, teams'[i].roster[k])
    BY ListedUsers, ListedTeams
  <1> QED
    BY <1>1, <1>2, <1>3 DEF ListedInv, Mentions

LEMMA ListedEnvironment ==
  ASSUME TypeInv, TypeInv', ListedInv, NEW s \in Sessions, Environment(s)
  PROVE  ListedInv'
  <1>0. teams' = teams /\ users' = users
    BY EnvironmentFrame
  <1>1. ASSUME NEW z \in Sessions, Serving(z)', req'[z].svc \in WalkingServices,
               Person(Statement(z)'), NEW k \in 1..NMembers
        PROVE  Mentions(Statement(z)'.team, names'[z][k])
    <2>1. CASE Serving(z)
      <3>1. Statement(z)' = Statement(z) /\ names'[z] = names[z] /\ req'[z] = req[z]
        BY <2>1, EnvironmentKeeps
      <3> QED
        BY <1>1, <2>1, <3>1 DEF ListedInv
    <2>2. CASE ~Serving(z)
      <3> DEFINE q == Statement(z)'
      <3>1. step'[z] = 1
        BY <1>1, <2>2, EnvironmentFrame
      <3>2. /\ req'[z] \in Request /\ names'[z] \in Namings
            /\ 1 \in 1..Len(Script(req'[z], names'[z])) /\ q = Script(req'[z], names'[z])[1]
        BY <1>1, <3>1 DEF TypeInv, TypeOK, Control, Namings, Statement, Current
      <3>3. Person(q) /\ req'[z].svc # "has_battle" /\ req'[z].svc \notin NamingServices
        BY <1>1 DEF WalkingServices, NamingServices
      <3> HIDE DEF q
      <3>4. 1 > 1
        BY <3>2, <3>3, ScriptPersons
      <3> QED
        BY <3>4
    <2> QED
      BY <2>1, <2>2
  <1>2. Asked'
    BY EnvironmentFrame DEF ListedInv, Asked
  <1> QED
    BY <1>0, <1>1, <1>2 DEF ListedInv, Mentions

LEMMA ListedStep == TypeInv /\ TypeInv' /\ ListedInv /\ [Next]_vars => ListedInv'
  <1> SUFFICES ASSUME TypeInv, TypeInv', ListedInv, [Next]_vars PROVE ListedInv'
    OBVIOUS
  <1>1. CASE Next
    BY <1>1, ListedWork, ListedEnvironment DEF Next
  <1>2. CASE UNCHANGED vars
    <2>1. \A s \in Sessions : Statement(s)' = Statement(s) /\ (Serving(s)' <=> Serving(s))
      BY <1>2 DEF vars, Statement, Current, Serving
    <2> QED
      BY <1>2, <2>1 DEF vars, ListedInv, Asked, Serving, Mentions
  <1> QED
    BY <1>1, <1>2

LEMMA ListedInit == Init => ListedInv
  BY DEF Init, ListedInv, Asked, Serving, Mentions

LEMMA StatementMentions ==
  ASSUME TypeInv, ListedInv, NEW s \in Sessions, Serving(s), Person(Statement(s)),
         req[s].svc # "has_battle"
  PROVE  /\ Statement(s).team \in {req[s].team, req[s].rival}
         /\ Statement(s).team \in TeamNames
         /\ Mentions(Statement(s).team, Statement(s).who)
  <1> DEFINE q == Statement(s)
             k == step[s]
             nm == names[s]
  <1>1. /\ req[s] \in Request /\ nm \in Namings /\ k \in 1..Len(Script(req[s], nm))
        /\ q = Script(req[s], nm)[k] /\ req[s] \in Requests[s]
    BY StatementType DEF TypeInv, Control, Statement, Current, ListedInv, Asked
  <1>2. Person(q)
    OBVIOUS
  <1> HIDE DEF q, k, nm
  <1>3. /\ q.team \in {req[s].team, req[s].rival}
        /\ \/ req[s].svc \in NamingServices /\ q.team = req[s].team /\ q.who = req[s].who
           \/ req[s].svc \in WalkingServices /\ \E i \in 1..NMembers : q.who = nm[i]
    BY <1>1, <1>2, ScriptPersons
  <1>4. q.team \in TeamNames
    BY <1>1, <1>3 DEF Request
  <1>5. Mentions(q.team, q.who)
    <2>1. CASE req[s].svc \in NamingServices /\ q.team = req[s].team /\ q.who = req[s].who
      BY <1>1, <2>1 DEF Mentions
    <2>2. CASE req[s].svc \in WalkingServices /\ \E i \in 1..NMembers : q.who = nm[i]
      BY <1>2, <2>2 DEF ListedInv, q, nm
    <2> QED
      BY <1>3, <2>1, <2>2
  <1> QED
    BY <1>3, <1>4, <1>5 DEF q

\* The rows that an update of a member selects are that member's.
LEMMA SelectsOwn ==
  ASSUME MembersApart, TypeInv, ListedInv, NEW s \in Sessions, Serving(s),
         Person(Statement(s)), req[s].svc # "has_battle", NEW i,
         UserNamed(i, Statement(s).team, Statement(s).who)
  PROVE  users[i].team = Statement(s).team /\ users[i].name = Statement(s).who
  <1>1. i \in DOMAIN users /\ users[i] \in UserRow
    BY TableTypes DEF UserNamed
  <1>2. users[i].team \in TeamNames /\ users[i].name \in UserNames
    BY <1>1 DEF UserRow
  <1>3. Mentions(users[i].team, users[i].name)
    BY <1>1 DEF ListedInv
  <1>4. Statement(s).team \in TeamNames /\ Mentions(Statement(s).team, Statement(s).who)
    BY StatementMentions
  <1> QED
    BY <1>2, <1>3, <1>4 DEF UserNamed, MembersApart

LEMMA HasBattleReads ==
  ASSUME TypeInv, NEW s \in Sessions, Work(s), req[s].svc = "has_battle"
  PROVE  ~WriteUser(s)
  <1>1. /\ req[s] \in Request /\ names[s] \in Namings
        /\ step[s] \in 1..Len(Script(req[s], names[s]))
        /\ Statement(s) = Script(req[s], names[s])[step[s]]
    BY WorkMoves, StatementType DEF TypeInv, Control, Statement, Current
  <1>2. Script(req[s], names[s]) = <<retrieve_status(req[s].team, req[s].who)>>
    BY DEF Script
  <1>3. Statement(s).op = "retrieve_status"
    BY <1>1, <1>2 DEF retrieve_status
  <1> QED
    BY <1>3 DEF WriteUser

\* Where teams whose names differ in case only share no member, no update, of any
\* handler at any of its statements, changes a row of another team than the request's
\* own or its rival.
THEOREM StaysInTeam ==
  ASSUME MembersApart
  PROVE  Spec => UpdatesStayInTeam
  <1>1. ASSUME TypeInv, ListedInv, [Next]_vars, NEW i \in DOMAIN users, users'[i] # users[i]
        PROVE  \E s \in Sessions : Acts(s) /\ users[i].team \in {req[s].team, req[s].rival}
    <2>1. users' # users
      BY <1>1
    <2>2. PICK s \in Sessions : Work(s)
      BY <1>1, <2>1, EnvironmentFrame DEF Next, vars
    <2> DEFINE q == Statement(s)
    <2>3. WriteUser(s) /\ UserNamed(i, q.team, q.who) /\ q.op \in Writes
      BY <1>1, <2>2, UserColumns
    <2>4. Serving(s) /\ Person(q) /\ req[s].svc # "has_battle"
      BY <1>1, <2>2, <2>3, WorkMoves, HasBattleReads DEF Person, PersonOps, Writes
    <2>5. users[i].team = q.team
      BY <1>1, <2>3, <2>4, SelectsOwn
    <2>6. q.team \in {req[s].team, req[s].rival}
      BY <1>1, <2>4, StatementMentions
    <2> QED
      BY <1>1, <2>2, <2>5, <2>6, ActorIsOne
  <1>2. TypeInv /\ ListedInv /\ [Next]_vars =>
          [\A i \in DOMAIN users : users'[i] # users[i] =>
             \E s \in Sessions : Acts(s) /\ users[i].team \in {req[s].team, req[s].rival}]_vars
    BY <1>1
  <1>3. Init => TypeInv /\ ListedInv
    BY TypeInit, ListedInit
  <1>4. TypeInv /\ [Next]_vars => TypeInv'
    BY TypeStep
  <1>5. TypeInv /\ TypeInv' /\ ListedInv /\ [Next]_vars => ListedInv'
    BY ListedStep
  <1> QED
    BY <1>2, <1>3, <1>4, <1>5, PTL DEF Spec, UpdatesStayInTeam

------------------------------------------------------------------------------
(* The shots of a battle.                                                   *)

\* A poll stores FIRED right after the read of the same member.
LEMMA PackNext ==
  ASSUME NEW t, NEW nm, NEW j \in 1..2 * NMembers + 1, NEW v, NEW u,
         PackAt(t, nm, j) = pack_user_data(v, u)
  PROVE  j < 2 * NMembers + 1 /\ PackAt(t, nm, j + 1) = set_bullet_status(v, u, "FIRED")
  <1>1. PackAt(t, nm, j).op = "pack_user_data"
    BY DEF pack_user_data
  <1>2. j # 1 /\ j % 2 = 0
    BY <1>1 DEF PackAt, retrieve_members_name, set_bullet_status
  <1>3. pack_user_data(t, nm[j \div 2]) = pack_user_data(v, u)
    BY <1>2 DEF PackAt
  <1>4. t = v /\ nm[j \div 2] = u
    BY <1>3 DEF pack_user_data
  <1>5. j < 2 * NMembers + 1 /\ j + 1 # 1 /\ (j + 1) % 2 # 0 /\ (j + 1) \div 2 = j \div 2
    BY <1>2, NMembersAssumption
  <1>6. PackAt(t, nm, j + 1) = set_bullet_status(t, nm[j \div 2], "FIRED")
    BY <1>5 DEF PackAt
  <1> QED
    BY <1>4, <1>5, <1>6

LEMMA PollNext ==
  ASSUME NEW f \in Request, NEW nm \in Namings, f.svc = "get_battle_data",
         NEW k \in 1..Len(Script(f, nm)), NEW t, NEW u,
         Script(f, nm)[k] = pack_user_data(t, u)
  PROVE  /\ k < Len(Script(f, nm))
         /\ Script(f, nm)[k + 1] = set_bullet_status(t, u, "FIRED")
  <1> DEFINE n == 2 * NMembers + 1
             p == pack_user_data(t, u)
             r == set_bullet_status(t, u, "FIRED")
  <1>1. /\ \A j \in 1..n : /\ Script(f, nm)[j] = PackAt(f.team, nm, j)
                           /\ Script(f, nm)[n + j] = PackAt(f.rival, nm, j)
        /\ n \in Nat /\ k \in 1..n + n /\ Len(Script(f, nm)) = n + n
    BY BattleDataScript, NMembersAssumption, SMTT(30)
  <1>2. ASSUME NEW v, NEW j \in 1..n, PackAt(v, nm, j) = p
        PROVE  j < n /\ PackAt(v, nm, j + 1) = r
    BY <1>2, PackNext
  <1>3. Script(f, nm)[k] = p
    OBVIOUS
  <1> HIDE DEF n, p, r
  <1>4. CASE k <= n
    <2>1. k \in 1..n /\ PackAt(f.team, nm, k) = p
      BY <1>1, <1>3, <1>4
    <2>2. k < n /\ PackAt(f.team, nm, k + 1) = r
      BY <1>2, <2>1
    <2>3. k + 1 \in 1..n /\ k < n + n
      BY <1>1, <2>1, <2>2
    <2> QED
      BY <1>1, <2>2, <2>3 DEF r
  <1>5. CASE ~(k <= n)
    <2> DEFINE j == k - n
    <2>1. j \in 1..n /\ n + j = k
      BY <1>1, <1>5
    <2>2. PackAt(f.rival, nm, j) = p
      BY <1>1, <1>3, <2>1
    <2> HIDE DEF j
    <2>3. j < n /\ PackAt(f.rival, nm, j + 1) = r
      BY <1>2, <2>1, <2>2
    <2>4. j + 1 \in 1..n /\ n + (j + 1) = k + 1 /\ k < n + n
      BY <1>1, <2>1, <2>3
    <2> QED
      BY <1>1, <2>3, <2>4 DEF r
  <1> QED
    BY <1>4, <1>5

\* The poll that read the member's bullet as LOADED is about to store FIRED, or has
\* lost the database.
Reporting(s, m) ==
  /\ Polls(s)
  /\ \/ ~linked[s]
     \/ /\ Serving(s) /\ m \in seen[s]
        /\ Statement(s) = set_bullet_status(m[1], m[2], "FIRED")

MemberOf(row) == <<row.team, row.name>>

\* ShotsReportedOnce is inductive once it says which poll has still to store FIRED.
ShotsInv ==
  /\ \A s \in Sessions : pc[s] = "listen" => linked[s]
  /\ loads \in [Members -> Nat] /\ shown \in [Members -> Nat]
  /\ \A m \in Members : shown[m] <= loads[m]
  /\ \A i \in DOMAIN users : users[i].bullet = "LOADED" =>
       \/ shown[MemberOf(users[i])] < loads[MemberOf(users[i])]
       \/ \E s \in Sessions : Reporting(s, MemberOf(users[i]))

\* What a step counts.
LEMMA CountsType ==
  ASSUME BattleNext, loads \in [Members -> Nat], shown \in [Members -> Nat]
  PROVE  loads' \in [Members -> Nat] /\ shown' \in [Members -> Nat]
  <1> DEFINE add == [x \in Members |-> IF LoadedNow(x) THEN 1 ELSE 0]
             adds == [x \in Members |-> IF ShownNow(x) THEN 1 ELSE 0]
  <1>1. add \in [Members -> {0, 1}] /\ adds \in [Members -> {0, 1}]
    OBVIOUS
  <1>2. /\ loads' = [x \in Members |-> loads[x] + add[x]]
        /\ shown' = [x \in Members |-> shown[x] + adds[x]]
    BY DEF BattleNext
  <1> HIDE DEF add, adds
  <1> QED
    BY <1>1, <1>2

LEMMA Counted ==
  ASSUME TypeInv, BattleNext, NEW s \in Sessions, Work(s), NEW m \in Members,
         loads \in [Members -> Nat], shown \in [Members -> Nat]
  PROVE  /\ loads[m] \in Nat /\ shown[m] \in Nat /\ loads'[m] \in Nat
         /\ loads'[m] >= loads[m]
         /\ linked[s] /\ Statement(s) = set_bullet_status(m[1], m[2], "LOADED") =>
              loads'[m] = loads[m] + 1
         /\ \/ shown'[m] = shown[m]
            \/ /\ shown'[m] = shown[m] + 1 /\ linked[s]
               /\ Statement(s) = pack_user_data(m[1], m[2])
               /\ m \in seen'[s] /\ m \notin seen[s]
  <1> DEFINE add == IF LoadedNow(m) THEN 1 ELSE 0
             adds == IF ShownNow(m) THEN 1 ELSE 0
  <1>1. loads'[m] = loads[m] + add /\ shown'[m] = shown[m] + adds
    BY DEF BattleNext
  <1>2. /\ add \in {0, 1} /\ adds \in {0, 1}
        /\ LoadedNow(m) => add = 1
        /\ ~ShownNow(m) => adds = 0
    OBVIOUS
  <1> HIDE DEF add, adds
  <1>3. /\ loads[m] \in Nat /\ shown[m] \in Nat /\ loads'[m] \in Nat
        /\ loads'[m] >= loads[m]
    BY <1>1, <1>2
  <1>4. Acts(s) /\ \A z \in Sessions : Acts(z) => z = s
    BY ActorIsOne
  <1>5. linked[s] /\ Statement(s) = set_bullet_status(m[1], m[2], "LOADED") => LoadedNow(m)
    BY <1>4 DEF LoadedNow
  <1>6. ShownNow(m) => /\ linked[s] /\ Statement(s) = pack_user_data(m[1], m[2])
                       /\ m \in seen'[s] /\ m \notin seen[s]
    BY <1>4 DEF ShownNow
  <1> QED
    BY <1>1, <1>2, <1>3, <1>5, <1>6

\* A poll reports a member whose row it has just read as LOADED.
LEMMA ReadLoaded ==
  ASSUME TypeInv, NEW s \in Sessions, Work(s), NEW m \in Members,
         Statement(s) = pack_user_data(m[1], m[2]), m \in seen'[s], m \notin seen[s]
  PROVE  /\ \E i \in DOMAIN users : UserNamed(i, m[1], m[2]) /\ users[i].bullet = "LOADED"
         /\ req[s].svc = "get_battle_data" /\ Advance(s)
  <1>1. /\ Statement(s).op = "pack_user_data" /\ Statement(s).team = m[1]
        /\ Statement(s).who = m[2]
    BY DEF pack_user_data
  <1>2. seen' # seen
    OBVIOUS
  <1>3. PackUserData(s)
    BY <1>1, <1>2 DEF Work, QueryFails, RowMissing, NoSuchTeam, UserExists,
       RetrieveMembersName, RetrieveStatus, RetrieveField, RetrieveTeams, RetrieveTimes,
       InsertTeam, InsertUser, WriteTeam, SetTimes, WriteUser, Issues, locals
  <1>4. PICK i \in DOMAIN users :
          /\ FirstUser(i, m[1], m[2])
          /\ seen' = IF users[i].bullet = "LOADED" /\ req[s].svc = "get_battle_data"
                     THEN [seen EXCEPT ![s] = @ \cup {<<m[1], m[2]>>}] ELSE seen
    BY <1>1, <1>3 DEF PackUserData
  <1>5. users[i].bullet = "LOADED" /\ req[s].svc = "get_battle_data"
    BY <1>2, <1>4
  <1> QED
    BY <1>3, <1>4, <1>5 DEF FirstUser, PackUserData

\* Then it comes to the update of that member.
LEMMA ReadThenFired ==
  ASSUME TypeInv, TypeInv', NEW s \in Sessions, Work(s), NEW t, NEW u,
         Statement(s) = pack_user_data(t, u), req[s].svc = "get_battle_data", Advance(s)
  PROVE  Serving(s)' /\ Statement(s)' = set_bullet_status(t, u, "FIRED")
  <1> DEFINE f == req[s]
             nm == names[s]
             k == step[s]
  <1>1. /\ f \in Request /\ nm \in Namings /\ k \in 1..Len(Script(f, nm))
        /\ Script(f, nm)[k] = pack_user_data(t, u) /\ Serving(s)
    BY WorkMoves, StatementType DEF TypeInv, Control, Statement, Current
  <1>2. k < Len(Script(f, nm)) /\ Script(f, nm)[k + 1] = set_bullet_status(t, u, "FIRED")
    <2> HIDE DEF f, nm, k
    <2>1. f.svc = "get_battle_data"
      BY DEF f
    <2> QED
      BY <1>1, <2>1, PollNext
  <1>3. Steps(s)
    BY <1>2 DEF Advance, Steps, Current
  <1>4. Serving(s)'
    BY <1>1, <1>3 DEF Steps, Serving
  <1>5. Statement(s).op # "retrieve_members_name"
    BY DEF pack_user_data
  <1>6. names' = names
    BY <1>5, NamesKept
  <1>7. req'[s] = f /\ step'[s] = k + 1
    BY <1>4, ServingRemains
  <1> QED
    BY <1>2, <1>4, <1>6, <1>7 DEF Statement, Current

LEMMA BulletWrite ==
  ASSUME NEW s \in Sessions, Work(s), linked[s], Statement(s).op = "set_bullet_status"
  PROVE  WriteUser(s)
  BY DEF Work, QueryFails, RowMissing, NoSuchTeam, UserExists, RetrieveMembersName,
     RetrieveStatus, RetrieveField, RetrieveTeams, RetrieveTimes, PackUserData,
     InsertTeam, InsertUser, WriteTeam, SetTimes, Issues

\* A poll that has still to store FIRED, or cannot, remains so but for its own update.
LEMMA ReportingRemains ==
  ASSUME TypeInv, NEW s \in Sessions, Work(s), NEW z \in Sessions, NEW m \in Members,
         Reporting(z, m)
  PROVE  \/ Reporting(z, m)'
         \/ /\ z = s /\ linked[s] /\ WriteUser(s)
            /\ Statement(s) = set_bullet_status(m[1], m[2], "FIRED")
  <1>1. linked' = linked
    BY WorkMoves DEF Moves, SameSession
  <1>2. CASE ~linked[z]
    BY <1>1, <1>2 DEF Reporting, Polls
  <1>3. CASE linked[z] /\ z # s
    <2>1. Serving(z) /\ m \in seen[z] /\ Statement(z) = set_bullet_status(m[1], m[2], "FIRED")
      BY <1>3 DEF Reporting
    <2>2. Serving(z)' /\ seen'[z] = seen[z] /\ Statement(z)' = Statement(z)
      BY <1>3, <2>1, OthersKept DEF Serving
    <2> QED
      BY <2>1, <2>2 DEF Reporting, Polls
  <1>4. CASE linked[z] /\ z = s
    <2>1. Statement(s) = set_bullet_status(m[1], m[2], "FIRED")
      BY <1>4 DEF Reporting
    <2>2. Statement(s).op = "set_bullet_status"
      BY <2>1 DEF set_bullet_status
    <2> QED
      BY <1>4, <2>1, <2>2, BulletWrite
  <1> QED
    BY <1>2, <1>3, <1>4

\* No member is reported more often than it was loaded.
LEMMA ShotsBounded ==
  ASSUME MembersApart, SolePoller, TypeInv, ListedInv, ShotsInv, BattleNext,
         NEW s \in Sessions, Work(s), NEW m \in Members
  PROVE  shown'[m] <= loads'[m]
  <1>1. /\ loads[m] \in Nat /\ shown[m] \in Nat /\ loads'[m] \in Nat
        /\ loads'[m] >= loads[m] /\ shown[m] <= loads[m]
        /\ \/ shown'[m] = shown[m]
           \/ /\ shown'[m] = shown[m] + 1 /\ linked[s]
              /\ Statement(s) = pack_user_data(m[1], m[2])
              /\ m \in seen'[s] /\ m \notin seen[s]
    BY Counted DEF ShotsInv
  <1>2. ASSUME shown'[m] = shown[m] + 1, linked[s],
               Statement(s) = pack_user_data(m[1], m[2]),
               m \in seen'[s], m \notin seen[s]
        PROVE  shown[m] < loads[m]
    <2>1. Serving(s) /\ Person(Statement(s))
      BY <1>2, WorkMoves, PersonFields
    <2>2. PICK i \in DOMAIN users : UserNamed(i, m[1], m[2]) /\ users[i].bullet = "LOADED"
      BY <1>2, ReadLoaded
    <2>3. req[s].svc = "get_battle_data" /\ req[s] \in Requests[s]
      BY <1>2, <2>1, ReadLoaded DEF ListedInv, Asked
    <2>4. Statement(s).team = m[1] /\ Statement(s).who = m[2]
      BY <1>2 DEF pack_user_data
    <2>5. users[i].team = m[1] /\ users[i].name = m[2]
      BY <2>1, <2>2, <2>3, <2>4, SelectsOwn
    <2>6. MemberOf(users[i]) = m
      BY <2>5 DEF MemberOf, Members
    <2>7. ASSUME NEW z \in Sessions, Reporting(z, m) PROVE FALSE
      <3>1. z = s
        BY <2>3, <2>7 DEF Reporting, Polls, SolePoller
      <3>2. Statement(s) = set_bullet_status(m[1], m[2], "FIRED")
        BY <1>2, <2>7, <3>1 DEF Reporting
      <3> QED
        BY <1>2, <3>2 DEF set_bullet_status, pack_user_data
    <2> QED
      BY <2>2, <2>6, <2>7 DEF ShotsInv
  <1> QED
    BY <1>1, <1>2

\* Every LOADED bullet has a load to report, or a poll that has reported it.
LEMMA ShotsLoaded ==
  ASSUME MembersApart, TypeInv, TypeInv', ListedInv, ShotsInv, BattleNext,
         NEW s \in Sessions, Work(s), NEW i \in DOMAIN users', users'[i].bullet = "LOADED",
         NEW m, m = MemberOf(users'[i])
  PROVE  shown'[m] < loads'[m] \/ \E z \in Sessions : Reporting(z, m)'
  <1>1. i \in DOMAIN users
    <2>1. ASSUME i \notin DOMAIN users PROVE FALSE
      BY <2>1, NewUserRow DEF NewUser
    <2> QED
      BY <2>1
  <1>2. m = MemberOf(users[i]) /\ m \in Members /\ m[1] = users[i].team /\ m[2] = users[i].name
    BY <1>1, UsersRemain, TableTypes DEF MemberOf, Members, UserRow
  <1> DEFINE q == Statement(s)
  <1>3. Serving(s) /\ q \in AnyStatement
    BY WorkMoves, StatementType
  <1>4. /\ loads[m] \in Nat /\ shown[m] \in Nat /\ loads'[m] \in Nat
        /\ loads'[m] >= loads[m] /\ shown[m] <= loads[m]
        /\ linked[s] /\ q = set_bullet_status(m[1], m[2], "LOADED") => loads'[m] = loads[m] + 1
        /\ \/ shown'[m] = shown[m]
           \/ /\ shown'[m] = shown[m] + 1 /\ linked[s]
              /\ q = pack_user_data(m[1], m[2])
              /\ m \in seen'[s] /\ m \notin seen[s]
    BY <1>2, Counted DEF ShotsInv
  <1>5. CASE WriteUser(s) /\ UserNamed(i, q.team, q.who) /\ q.op = "set_bullet_status"
    <2>1. q.val = "LOADED" /\ linked[s]
      BY <1>1, <1>5, UserColumns
    <2>2. Person(q) /\ req[s].svc # "has_battle"
      BY <1>5, HasBattleReads DEF Person, PersonOps
    <2>3. users[i].team = q.team /\ users[i].name = q.who
      BY <1>3, <1>5, <2>2, SelectsOwn
    <2>4. q = set_bullet_status(q.team, q.who, q.val)
      BY <1>3, <1>5 DEF AnyStatement, PlainStatement, TimesStatement, InsertStatement,
         set_bullet_status
    <2>5. q = set_bullet_status(m[1], m[2], "LOADED")
      BY <1>2, <2>1, <2>3, <2>4
    <2>6. q # pack_user_data(m[1], m[2])
      BY <1>5 DEF pack_user_data
    <2> HIDE DEF q
    <2> QED
      BY <1>4, <2>1, <2>5, <2>6
  <1>6. CASE ~(WriteUser(s) /\ UserNamed(i, q.team, q.who) /\ q.op = "set_bullet_status")
    <2>1. users[i].bullet = "LOADED"
      BY <1>1, <1>6, UserColumns
    <2>2. shown[m] < loads[m] \/ \E z \in Sessions : Reporting(z, m)
      BY <1>1, <1>2, <2>1 DEF ShotsInv
    <2>3. CASE shown[m] < loads[m] /\ shown'[m] = shown[m]
      BY <1>4, <2>3
    <2>4. CASE shown[m] < loads[m] /\ shown'[m] # shown[m]
      <3>1. q = pack_user_data(m[1], m[2]) /\ m \in seen'[s] /\ m \notin seen[s]
        BY <1>4, <2>4
      <3>2. req[s].svc = "get_battle_data" /\ Advance(s)
        BY <1>2, <3>1, ReadLoaded
      <3>3. Serving(s)' /\ Statement(s)' = set_bullet_status(m[1], m[2], "FIRED")
        BY <3>1, <3>2, ReadThenFired
      <3>4. Polls(s)
        BY <1>3, <3>2 DEF Polls, ListedInv, Asked
      <3>5. Reporting(s, m)'
        BY <3>1, <3>3, <3>4 DEF Reporting, Polls
      <3> QED
        BY <3>5
    <2>5. ASSUME NEW z \in Sessions, Reporting(z, m) PROVE Reporting(z, m)'
      <3>1. ~(/\ z = s /\ linked[s] /\ WriteUser(s)
              /\ q = set_bullet_status(m[1], m[2], "FIRED"))
        BY <1>1, <1>2, <1>6 DEF set_bullet_status, UserNamed
      <3> QED
        BY <1>2, <2>5, <3>1, ReportingRemains
    <2> QED
      BY <2>2, <2>3, <2>4, <2>5
  <1> QED
    BY <1>5, <1>6

LEMMA ShotsWork ==
  ASSUME MembersApart, SolePoller, TypeInv, TypeInv', ListedInv, ShotsInv, BattleNext,
         NEW s \in Sessions, Work(s)
  PROVE  ShotsInv'
  <1>1. ASSUME NEW z \in Sessions, pc'[z] = "listen" PROVE linked'[z]
    <2>1. Moves(s) /\ DOMAIN pc = Sessions
      BY WorkMoves DEF TypeInv, TypeOK
    <2>2. pc[z] = "listen" /\ linked' = linked
      BY <1>1, <2>1 DEF Moves, Steps, Halts, SameSession
    <2> QED
      BY <2>2 DEF ShotsInv
  <1>2. loads' \in [Members -> Nat] /\ shown' \in [Members -> Nat]
    BY CountsType DEF ShotsInv
  <1>3. \A m \in Members : shown'[m] <= loads'[m]
    BY ShotsBounded
  <1>4. ASSUME NEW i \in DOMAIN users', users'[i].bullet = "LOADED"
        PROVE  \/ shown'[MemberOf(users'[i])] < loads'[MemberOf(users'[i])]
               \/ \E z \in Sessions : Reporting(z, MemberOf(users[i]))'
    <2> DEFINE m == MemberOf(users'[i])
    <2>1. PICK x : x = m
      OBVIOUS
    <2>2. shown'[x] < loads'[x] \/ \E z \in Sessions : Reporting(z, x)'
      BY <1>4, <2>1, ShotsLoaded
    <2> QED
      BY <2>1, <2>2 DEF Reporting, MemberOf
  <1> QED
    BY <1>1, <1>2, <1>3, <1>4 DEF ShotsInv, MemberOf

LEMMA ShotsEnvironment ==
  ASSUME TypeInv, ShotsInv, BattleNext, NEW s \in Sessions, Environment(s)
  PROVE  ShotsInv'
  <1>1. users' = users
    BY EnvironmentFrame
  <1>2. \A z \in Sessions : ~Acts(z)
    BY EnvironmentKeeps DEF Acts
  <1>3. \A m \in Members : ~LoadedNow(m) /\ ~ShownNow(m)
    BY <1>2 DEF LoadedNow, ShownNow
  <1>4. loads \in [Members -> Nat] /\ shown \in [Members -> Nat]
    BY DEF ShotsInv
  <1>5. loads' = loads /\ shown' = shown
    <2>1. loads' \in [Members -> Nat] /\ shown' \in [Members -> Nat]
      BY <1>4, CountsType
    <2>2. ASSUME NEW m \in Members PROVE loads'[m] = loads[m] /\ shown'[m] = shown[m]
      <3>1. loads'[m] = loads[m] + 0 /\ shown'[m] = shown[m] + 0
        BY <1>3 DEF BattleNext
      <3>2. loads[m] \in Nat /\ shown[m] \in Nat
        BY <1>4
      <3> QED
        BY <3>1, <3>2
    <2> QED
      BY <1>4, <2>1, <2>2
  <1>6. ASSUME NEW z \in Sessions
        PROVE  /\ pc'[z] = "listen" => pc[z] = "listen" /\ linked'[z] = linked[z]
               /\ ~linked[z] => ~linked'[z]
    <2>1. DOMAIN pc = Sessions /\ linked \in [Sessions -> BOOLEAN]
          /\ (pc[z] = "listen" => linked[z])
      BY DEF TypeInv, TypeOK, ShotsInv
    <2>2. CASE Connect(s)
      BY <2>1, <2>2 DEF Connect, ShotsInv
    <2>3. ASSUME NEW f \in Requests[s], Receive(s, f)
          PROVE  (pc'[z] = "listen" => pc[z] = "listen") /\ linked' = linked
      BY <2>1, <2>3 DEF Receive
    <2>4. CASE ReceiveGarbled(s)
      BY <2>1, <2>4 DEF ReceiveGarbled
    <2>5. CASE Disconnect(s)
      BY <2>1, <2>5 DEF Disconnect, Crash, SameSession
    <2>6. CASE LoseDb(s)
      BY <2>1, <2>6 DEF LoseDb
    <2> QED
      BY <2>2, <2>3, <2>4, <2>5, <2>6 DEF Environment
  <1>7. ASSUME NEW z \in Sessions, NEW m, Reporting(z, m) PROVE Reporting(z, m)'
    <2>1. CASE ~linked[z]
      BY <1>6, <1>7, <2>1 DEF Reporting, Polls
    <2>2. CASE linked[z]
      <3>1. Serving(z) /\ m \in seen[z] /\ Statement(z) = set_bullet_status(m[1], m[2], "FIRED")
        BY <1>7, <2>2 DEF Reporting
      <3>2. Serving(z)' /\ seen'[z] = seen[z] /\ Statement(z)' = Statement(z)
        BY <3>1, EnvironmentKeeps
      <3> QED
        BY <1>7, <3>1, <3>2 DEF Reporting, Polls
    <2> QED
      BY <2>1, <2>2
  <1>8. \A z \in Sessions : pc'[z] = "listen" => linked'[z]
    BY <1>6 DEF ShotsInv
  <1>9. ASSUME NEW i \in DOMAIN users', users'[i].bullet = "LOADED"
        PROVE  \/ shown'[MemberOf(users'[i])] < loads'[MemberOf(users'[i])]
               \/ \E z \in Sessions : Reporting(z, MemberOf(users[i]))'
    <2>1. PICK m : m = MemberOf(users[i])
      OBVIOUS
    <2>2. shown[m] < loads[m] \/ \E z \in Sessions : Reporting(z, m)
      BY <1>1, <1>9, <2>1 DEF ShotsInv
    <2>3. shown[m] < loads[m] \/ \E z \in Sessions : Reporting(z, m)'
      BY <1>7, <2>2
    <2> QED
      BY <1>1, <1>5, <2>1, <2>3 DEF Reporting, MemberOf
  <1>10. \A m \in Members : shown'[m] <= loads'[m]
    BY <1>5 DEF ShotsInv
  <1> QED
    BY <1>4, <1>5, <1>8, <1>9, <1>10 DEF ShotsInv, MemberOf

LEMMA ShotsStep ==
  ASSUME MembersApart, SolePoller
  PROVE  TypeInv /\ TypeInv' /\ ListedInv /\ ShotsInv /\ [BattleNext]_battleVars => ShotsInv'
  <1> SUFFICES ASSUME TypeInv, TypeInv', ListedInv, ShotsInv, [BattleNext]_battleVars
               PROVE  ShotsInv'
    OBVIOUS
  <1>1. CASE BattleNext
    <2>1. Next
      BY <1>1 DEF BattleNext
    <2> QED
      BY <1>1, <2>1, ShotsWork, ShotsEnvironment DEF Next
  <1>2. CASE UNCHANGED battleVars
    <2>1. \A z \in Sessions : Statement(z)' = Statement(z) /\ (Serving(z)' <=> Serving(z))
      BY <1>2 DEF battleVars, vars, Statement, Current, Serving
    <2>2. \A z \in Sessions : \A m : Reporting(z, m) => Reporting(z, m)'
      BY <1>2, <2>1 DEF battleVars, vars, Reporting, Polls
    <2>3. ASSUME NEW i \in DOMAIN users', users'[i].bullet = "LOADED"
          PROVE  \/ shown'[MemberOf(users'[i])] < loads'[MemberOf(users'[i])]
                 \/ \E z \in Sessions : Reporting(z, MemberOf(users[i]))'
      <3>1. PICK m : m = MemberOf(users[i])
        OBVIOUS
      <3>2. shown[m] < loads[m] \/ \E z \in Sessions : Reporting(z, m)'
        BY <1>2, <2>2, <2>3, <3>1 DEF battleVars, vars, ShotsInv
      <3> QED
        BY <1>2, <3>1, <3>2 DEF battleVars, vars, Reporting, MemberOf
    <2> QED
      BY <1>2, <2>3 DEF battleVars, vars, ShotsInv, MemberOf
  <1> QED
    BY <1>1, <1>2

\* With one connection that polls, members of teams apart, and every bullet FIRED at
\* the start: however loads, polls and failures interleave, no poll reports a shot that
\* was not fired, and no reported shot is reported again.
THEOREM ShotsReported ==
  ASSUME MembersApart, SolePoller, \A i \in DOMAIN Users0 : Users0[i].bullet = "FIRED"
  PROVE  BattleSpec => []ShotsReportedOnce
  <1>1. BattleInit => TypeInv /\ ListedInv
    BY TypeInit, ListedInit DEF BattleInit
  <1>2. BattleInit => ShotsInv
    BY DEF BattleInit, Init, ShotsInv
  <1>3. [BattleNext]_battleVars => [Next]_vars
    BY DEF BattleNext, battleVars
  <1>4. TypeInv /\ [BattleNext]_battleVars => TypeInv'
    BY <1>3, TypeStep
  <1>5. TypeInv /\ TypeInv' /\ ListedInv /\ [BattleNext]_battleVars => ListedInv'
    BY <1>3, ListedStep
  <1>6. TypeInv /\ TypeInv' /\ ListedInv /\ ShotsInv /\ [BattleNext]_battleVars => ShotsInv'
    BY ShotsStep
  <1>7. ShotsInv => ShotsReportedOnce
    BY DEF ShotsInv, ShotsReportedOnce, Reporting, MemberOf
  <1> QED
    BY <1>1, <1>2, <1>4, <1>5, <1>6, <1>7, PTL DEF BattleSpec

------------------------------------------------------------------------------
(* A team back on the list of teams.                                        *)

\* A statement that puts a team back on the list, and one that gives a member a role.
Reopens(q) == q.op = "set_team_status" /\ q.val = "ONLINE"
Casts(q) == q.op = "set_user_status" /\ q.val \in Roles

LEMMA WritesOf ==
  ASSUME NEW t, NEW u, NEW v
  PROVE  /\ set_user_status(t, u, v).op = "set_user_status"
         /\ set_user_status(t, u, v).val = v /\ set_user_status(t, u, v).team = t
         /\ set_team_status(t, v).op = "set_team_status"
         /\ set_team_status(t, v).val = v /\ set_team_status(t, v).team = t
  BY DEF set_user_status, set_team_status

LEMMA Quiet ==
  ASSUME NEW t, NEW u, NEW v
  PROVE  /\ ~Reopens(retrieve_members_name(t)) /\ ~Casts(retrieve_members_name(t))
         /\ ~Reopens(retrieve_status(t, u)) /\ ~Casts(retrieve_status(t, u))
         /\ ~Reopens(pack_user_data(t, u)) /\ ~Casts(pack_user_data(t, u))
         /\ ~Reopens(set_bullet_status(t, u, v)) /\ ~Casts(set_bullet_status(t, u, v))
         /\ ~Reopens(set_position(t, u, v)) /\ ~Casts(set_position(t, u, v))
         /\ ~Reopens(set_attr(t, u)) /\ ~Casts(set_attr(t, u))
         /\ ~Reopens(user_exists(t, u, v)) /\ ~Casts(user_exists(t, u, v))
         /\ ~Reopens(retrieve_field(t)) /\ ~Casts(retrieve_field(t))
         /\ ~Reopens(retrieve_teams(t)) /\ ~Casts(retrieve_teams(t))
         /\ ~Reopens(set_rival_fields(t, v)) /\ ~Casts(set_rival_fields(t, v))
         /\ ~Reopens(set_invitation_fields(t, v)) /\ ~Casts(set_invitation_fields(t, v))
         /\ ~Reopens(no_such_team(t)) /\ ~Casts(no_such_team(t))
         /\ ~Reopens(insert_team(t)) /\ ~Casts(insert_team(t))
         /\ ~Reopens(insert_user(t, u)) /\ ~Casts(insert_user(t, u))
         /\ ~Casts(retrieve_times(t, u)) /\ ~Casts(set_times(t, u, v))
         /\ ~Casts(set_team_status(t, v)) /\ ~Reopens(set_user_status(t, u, v))
         /\ ~Reopens(set_team_status(t, "ONBATTLE"))
         /\ ~Casts(set_user_status(t, u, "ONLINE")) /\ ~Casts(set_user_status(t, u, "OFFLINE"))
  BY DEF Reopens, Casts, Roles, set_user_status, set_team_status,
     retrieve_members_name, retrieve_status, pack_user_data, set_bullet_status,
     set_position, set_attr, user_exists, retrieve_field, retrieve_teams, set_rival_fields,
     set_invitation_fields, no_such_team, insert_team, insert_user, retrieve_times, set_times

\* Only a recorded result and the last statement of is_all_online put a team back on
\* the list, and only a summon gives its own team's members roles.
LEMMA Reopening ==
  ASSUME NEW f \in Request, NEW nm \in Namings, NEW k \in 1..Len(Script(f, nm)),
         NEW q, q = Script(f, nm)[k]
  PROVE  /\ Reopens(q) => \/ f.svc = "record_battle_result"
                          \/ /\ f.svc = "check_members_status" /\ k = NMembers + 2
                             /\ q.team = f.team
         /\ Casts(q) => f.svc = "summon" /\ q.team = f.team
  <1>1. f.svc \in Services /\ f.team \in TeamNames /\ f.rival \in TeamNames
    BY DEF Request
  <1>2. CASE f.svc \in NamingServices
    <2>1. CASE f.svc = "login"
      BY <2>1, Quiet DEF Script, set_user_online
    <2>2. CASE f.svc = "logout"
      BY <2>2, Quiet DEF Script, set_user_offline
    <2>3. CASE f.svc = "update_xy"
      BY <2>3, Quiet DEF Script, set_xy
    <2>4. CASE f.svc = "update_bullet"
      BY <2>4, Quiet DEF Script, load_bullet
    <2>5. CASE f.svc = "update_combatants_attr"
      BY <2>5, Quiet DEF Script, set_combatants_attr
    <2> QED
      BY <1>2, <2>1, <2>2, <2>3, <2>4, <2>5 DEF NamingServices
  <1>3. CASE f.svc = "check_members_status"
    <2>1. k \in 1..NMembers + 2 /\ q = CheckAt(f, nm, k)
      BY <1>3, CheckScript
    <2>2. CASE k = NMembers + 2
      <3>1. q = set_team_status(f.team, "ONLINE")
        BY <2>1, <2>2, NMembersAssumption DEF CheckAt
      <3> QED
        BY <1>3, <2>2, <3>1, Quiet, WritesOf
    <2>3. CASE k # NMembers + 2
      BY <2>1, <2>3, Quiet DEF CheckAt
    <2> QED
      BY <2>2, <2>3
  <1>4. CASE f.svc = "summon"
    <2>1. k \in 1..2 * NMembers + 2 /\ q = SummonAt(f, nm, k)
      BY <1>4, SummonScript
    <2>2. CASE k = 1
      BY <2>1, <2>2, Quiet DEF SummonAt
    <2>3. CASE k = 2 * NMembers + 2
      <3>1. q = set_team_status(f.team, "ONBATTLE")
        BY <2>1, <2>3, NMembersAssumption DEF SummonAt
      <3> QED
        BY <3>1, Quiet
    <2>4. CASE k # 1 /\ k # 2 * NMembers + 2 /\ k % 2 = 0
      <3>1. q = set_user_status(f.team, nm[k \div 2], f.word)
        BY <2>1, <2>4 DEF SummonAt
      <3> QED
        BY <1>4, <3>1, Quiet, WritesOf
    <2>5. CASE k # 1 /\ k # 2 * NMembers + 2 /\ k % 2 # 0
      BY <2>1, <2>5, Quiet DEF SummonAt
    <2> QED
      BY <2>2, <2>3, <2>4, <2>5
  <1>5. CASE f.svc = "get_battle_data"
    <2> DEFINE n == 2 * NMembers + 1
    <2>1. /\ \A j \in 1..n : /\ Script(f, nm)[j] = PackAt(f.team, nm, j)
                             /\ Script(f, nm)[n + j] = PackAt(f.rival, nm, j)
          /\ n \in Nat /\ k \in 1..n + n
      BY <1>5, BattleDataScript, NMembersAssumption
    <2>2. \A t, j : ~Reopens(PackAt(t, nm, j)) /\ ~Casts(PackAt(t, nm, j))
      BY Quiet DEF PackAt
    <2>3. k \in 1..n \/ (k - n \in 1..n /\ n + (k - n) = k)
      BY <2>1
    <2> QED
      BY <2>1, <2>2, <2>3
  <1>6. CASE f.svc = "get_combatants_attr"
    <2> DEFINE n == NMembers + 1
    <2>1. /\ \A j \in 1..n : /\ Script(f, nm)[j] = AttrAt(f.team, nm, j)
                             /\ Script(f, nm)[n + j] = AttrAt(f.rival, nm, j)
          /\ n \in Nat /\ k \in 1..n + n
      BY <1>6, AttrScript, NMembersAssumption
    <2>2. \A t, j : ~Reopens(AttrAt(t, nm, j)) /\ ~Casts(AttrAt(t, nm, j))
      BY Quiet DEF AttrAt
    <2>3. k \in 1..n \/ (k - n \in 1..n /\ n + (k - n) = k)
      BY <2>1
    <2> QED
      BY <2>1, <2>2, <2>3
  <1>7. CASE f.svc = "register"
    <2>1. k \in 1..NMembers + 2 /\ (k = 1 \/ k = 2 \/ k - 2 \in 1..NMembers)
      BY <1>7, RegisterScript, NMembersAssumption
    <2>2. \A i \in 1..NMembers : Script(f, nm)[i + 2] = insert_user(f, i)
      BY <1>7, RegisterScript
    <2>3. k - 2 \in 1..NMembers => q = insert_user(f, k - 2)
      <3>1. k - 2 + 2 = k
        BY <2>1
      <3> QED
        BY <2>2, <3>1
    <2> QED
      BY <1>7, <2>1, <2>3, Quiet, RegisterScript
  <1>8. CASE f.svc = "record_battle_result"
    <2>1. ~Casts(q)
      BY <1>8, Quiet DEF Script, update_battle_result
    <2> QED
      BY <1>8, <2>1
  <1>9. CASE f.svc \in {"get_team_list", "has_battle", "get_rival_name", "has_invitation",
                        "listen_invitation", "send_invitation", "respond_invitation"}
    <2>1. CASE f.svc = "get_team_list"
      BY <2>1, Quiet DEF Script, query_team_list
    <2>2. CASE f.svc \in {"get_rival_name", "has_invitation", "listen_invitation", "has_battle"}
      BY <2>2, Quiet DEF Script
    <2>3. CASE f.svc = "send_invitation"
      BY <2>3, Quiet DEF Script, set_rival
    <2>4. CASE f.svc = "respond_invitation"
      BY <2>4, Quiet DEF Script, set_invitation_status
    <2> QED
      BY <1>9, <2>1, <2>2, <2>3, <2>4
  <1> QED
    BY <1>1, <1>2, <1>3, <1>4, <1>5, <1>6, <1>7, <1>8, <1>9 DEF Services, NamingServices

\* What a step of a handler does to a member's role.
LEMMA CastBySummon ==
  ASSUME MembersApart, TypeInv, ListedInv, NEW s \in Sessions, Work(s),
         NEW j \in DOMAIN users', users'[j].status \in Roles
  PROVE  /\ j \in DOMAIN users
         /\ \/ users[j].status \in Roles
            \/ req[s].svc = "summon" /\ req[s].team = users[j].team
  <1>1. j \in DOMAIN users
    <2>1. ASSUME j \notin DOMAIN users PROVE FALSE
      BY <2>1, NewUserRow DEF NewUser, Roles
    <2> QED
      BY <2>1
  <1> DEFINE q == Statement(s)
  <1>2. ASSUME users[j].status \notin Roles
        PROVE  req[s].svc = "summon" /\ req[s].team = users[j].team
    <2>1. WriteUser(s) /\ UserNamed(j, q.team, q.who) /\ Casts(q)
      BY <1>1, <1>2, UserColumns DEF Casts
    <2>2. /\ req[s] \in Request /\ names[s] \in Namings /\ Serving(s)
          /\ step[s] \in 1..Len(Script(req[s], names[s]))
          /\ q = Script(req[s], names[s])[step[s]]
      BY WorkMoves, StatementType DEF TypeInv, Control, Statement, Current
    <2>3. req[s].svc = "summon" /\ q.team = req[s].team
      BY <2>1, <2>2, Reopening
    <2>4. Person(q) /\ req[s].svc # "has_battle"
      BY <2>1, <2>3 DEF Casts, Person, PersonOps
    <2>5. users[j].team = q.team
      BY <2>1, <2>2, <2>4, SelectsOwn
    <2> QED
      BY <2>3, <2>5
  <1> QED
    BY <1>1, <1>2

\* Every member is on the roster of its team, and one that a handler is about to insert
\* will be.
RosterInv ==
  /\ \A j \in DOMAIN users : \E i \in DOMAIN teams :
       teams[i].name = users[j].team /\ \E x \in 1..NMembers : teams[i].roster[x] = users[j].name
  /\ \A s \in Sessions :
       (Serving(s) /\ req[s].svc = "register" /\ step[s] > 2) =>
         \E i \in DOMAIN teams : teams[i].name = req[s].team /\ teams[i].roster = req[s].roster

LEMMA RosterWork ==
  ASSUME TypeInv, RosterInv, NEW s \in Sessions, Work(s)
  PROVE  RosterInv'
  <1>1. Serving(s) /\ step \in [Sessions -> Nat \ {0}] /\ teams \in Seq(TeamRow)
    BY WorkMoves, TableTypes DEF TypeInv, TypeOK
  <1>2. \A i \in DOMAIN teams : /\ i \in DOMAIN teams' /\ teams'[i].name = teams[i].name
                                /\ teams'[i].roster = teams[i].roster
    BY TeamColumns
  <1>3. ASSUME NEW j \in DOMAIN users'
        PROVE  \E i \in DOMAIN teams' :
                 /\ teams'[i].name = users'[j].team
                 /\ \E x \in 1..NMembers : teams'[i].roster[x] = users'[j].name
    <2>1. CASE j \in DOMAIN users
      <3>1. users'[j].team = users[j].team /\ users'[j].name = users[j].name
        BY <2>1, UsersRemain
      <3>2. PICK i \in DOMAIN teams : /\ teams[i].name = users[j].team
                                      /\ \E x \in 1..NMembers : teams[i].roster[x] = users[j].name
        BY <2>1 DEF RosterInv
      <3> QED
        BY <1>2, <3>1, <3>2
    <2>2. CASE j \notin DOMAIN users
      <3>1. /\ Enrols(s) /\ users'[j] = NewUser(req[s], step[s] - 2)
            /\ step[s] - 2 \in 1..NMembers
        BY <2>2, NewUserRow
      <3>2. users'[j].team = req[s].team /\ users'[j].name = req[s].roster[step[s] - 2]
        BY <3>1 DEF NewUser
      <3>3. step[s] > 2 /\ req[s].svc = "register"
        BY <1>1, <3>1, NMembersAssumption DEF Enrols
      <3>4. PICK i \in DOMAIN teams : teams[i].name = req[s].team /\ teams[i].roster = req[s].roster
        BY <1>1, <3>3 DEF RosterInv
      <3> QED
        BY <1>2, <3>1, <3>2, <3>4
    <2> QED
      BY <2>1, <2>2
  <1>4. ASSUME NEW z \in Sessions, Serving(z)', req'[z].svc = "register", step'[z] > 2
        PROVE  \E i \in DOMAIN teams' : /\ teams'[i].name = req'[z].team
                                        /\ teams'[i].roster = req'[z].roster
    <2>1. Serving(z) /\ req'[z] = req[z]
      BY <1>4, ServingRemains
    <2>2. CASE step[z] > 2
      <3>1. PICK i \in DOMAIN teams : teams[i].name = req[z].team /\ teams[i].roster = req[z].roster
        BY <1>4, <2>1, <2>2 DEF RosterInv
      <3> QED
        BY <1>2, <2>1, <3>1
    <2>3. CASE ~(step[z] > 2)
      <3>1. z = s /\ ~Halts(s) /\ step'[s] = step[s] + 1
        BY <1>4, <2>3, ServingRemains
      <3>2. step[s] = 2
        BY <1>1, <1>4, <2>3, <3>1
      <3>3. Founds(s)
        BY <1>4, <2>1, <3>1, <3>2, RegisterWork
      <3>4. /\ teams' = Append(teams, NewTeam(req[s])) /\ NewTeam(req[s]).name = req[s].team
            /\ NewTeam(req[s]).roster = req[s].roster
        BY <3>3 DEF Founds, NewTeam
      <3>5. /\ Len(teams) + 1 \in DOMAIN teams'
            /\ teams'[Len(teams) + 1] = NewTeam(req[s])
        BY <1>1, <3>4
      <3> QED
        BY <2>1, <3>1, <3>4, <3>5
    <2> QED
      BY <2>2, <2>3
  <1> QED
    BY <1>3, <1>4 DEF RosterInv

\* Two rows of one member have a role together: updates change both, and a select
\* reads the first.
TwinsInv ==
  \A i, j \in DOMAIN users :
    (i < j /\ users[i].team = users[j].team /\ users[i].name = users[j].name
       /\ users[j].status \in Roles) => users[i].status \in Roles

LEMMA TwinsWork ==
  ASSUME TypeInv, TwinsInv, NEW s \in Sessions, Work(s)
  PROVE  TwinsInv'
  <1> DEFINE q == Statement(s)
  <1>1. ASSUME NEW i \in DOMAIN users', NEW j \in DOMAIN users', i < j,
               users'[i].team = users'[j].team, users'[i].name = users'[j].name,
               users'[j].status \in Roles
        PROVE  users'[i].status \in Roles
    <2>1. j \in DOMAIN users
      <3>1. ASSUME j \notin DOMAIN users PROVE FALSE
        BY <1>1, <3>1, NewUserRow DEF NewUser, Roles
      <3> QED
        BY <3>1
    <2>2. i \in DOMAIN users
      <3>1. ASSUME i \notin DOMAIN users PROVE FALSE
        <4>1. j < i
          BY <2>1, <3>1, NewUserRow
        <4>2. i \in Nat /\ j \in Nat
          <5>1. users \in Seq(UserRow) /\ users' \in Seq(UserRow)
            BY TableTypes, WorkTables
          <5> QED
            BY <2>1, <5>1
        <4> QED
          BY <1>1, <4>1, <4>2
      <3> QED
        BY <3>1
    <2>3. /\ users'[i].team = users[i].team /\ users'[i].name = users[i].name
          /\ users'[j].team = users[j].team /\ users'[j].name = users[j].name
      BY <2>1, <2>2, UsersRemain
    <2>4. UserNamed(i, q.team, q.who) <=> UserNamed(j, q.team, q.who)
      BY <1>1, <2>1, <2>2, <2>3 DEF UserNamed
    <2>5. CASE WriteUser(s) /\ UserNamed(j, q.team, q.who) /\ q.op = "set_user_status"
      <3>1. users'[i].status = q.val /\ users'[j].status = q.val
        BY <2>1, <2>2, <2>4, <2>5, UserColumns
      <3> QED
        BY <1>1, <3>1
    <2>6. CASE ~(WriteUser(s) /\ UserNamed(j, q.team, q.who) /\ q.op = "set_user_status")
      <3>1. users'[i].status = users[i].status
        BY <2>2, <2>4, <2>6, UserColumns
      <3>2. users'[j].status = users[j].status
        BY <2>1, <2>6, UserColumns
      <3> QED
        BY <1>1, <2>1, <2>2, <2>3, <3>1, <3>2 DEF TwinsInv
    <2> QED
      BY <2>5, <2>6
  <1> QED
    BY <1>1 DEF TwinsInv

\* What is_all_online knows at each of its statements: the roster it goes through is
\* the team's, and while nobody was absent the members read have no role.
CheckInv ==
  \A s \in Sessions : (Serving(s) /\ req[s].svc = "check_members_status") =>
    /\ step[s] > 1 => \E i \in DOMAIN teams : /\ teams[i].name = req[s].team
                                              /\ teams[i].roster = names[s]
    /\ step[s] = NMembers + 2 => ~absent[s]
    /\ ~absent[s] =>
         \A x \in 1..NMembers : x + 1 < step[s] =>
           \A j \in DOMAIN users :
             (users[j].team = req[s].team /\ users[j].name = names[s][x]) =>
               users[j].status \notin Roles

LEMMA StatusRead ==
  ASSUME TypeInv, NEW s \in Sessions, Work(s), ~Halts(s), NEW t, NEW u,
         Statement(s) = retrieve_status(t, u), req[s].svc = "check_members_status"
  PROVE  /\ users' = users /\ names' = names /\ teams' = teams
         /\ \E i \in DOMAIN users :
              /\ FirstUser(i, t, u)
              /\ ~absent'[s] => ~absent[s] /\ users[i].status = "ONLINE"
         /\ step[s] + 1 = Len(Current(s)) => ~absent'[s]
  <1>1. Statement(s).op = "retrieve_status" /\ Statement(s).team = t /\ Statement(s).who = u
    BY DEF retrieve_status
  <1>2. ~QueryFails(s) /\ ~RowMissing(s)
    BY FailHalts, CrashHalts DEF QueryFails, RowMissing
  <1>3. RetrieveStatus(s)
    BY <1>1, <1>2 DEF Work, NoSuchTeam, UserExists, RetrieveMembersName, RetrieveField,
       RetrieveTeams, RetrieveTimes, PackUserData, InsertTeam, InsertUser, WriteTeam,
       SetTimes, WriteUser, Issues
  <1>4. absent \in [Sessions -> BOOLEAN]
    BY DEF TypeInv, TypeOK
  <1>5. PICK i \in DOMAIN users :
          /\ FirstUser(i, t, u)
          /\ absent' = [absent EXCEPT ![s] = @ \/ ~(users[i].status = "ONLINE")]
          /\ (step[s] + 1 = Len(Current(s)) /\ absent'[s]) => Succeed(s)
    BY <1>1, <1>3 DEF RetrieveStatus
  <1>6. absent'[s] = (absent[s] \/ ~(users[i].status = "ONLINE"))
    BY <1>4, <1>5
  <1>7. ~Succeed(s)
    BY AnswerHalts DEF Succeed
  <1>8. users' = users /\ names' = names /\ teams' = teams
    BY <1>3 DEF RetrieveStatus, tables
  <1> QED
    BY <1>5, <1>6, <1>7, <1>8

\* Another session's statement gives no member of the team a role.
LEMMA CheckOthers ==
  ASSUME MembersApart, SoleCaptain, TypeInv, ListedInv, CheckInv,
         NEW s \in Sessions, Work(s), NEW z \in Sessions, z # s,
         Serving(z)', req'[z].svc = "check_members_status"
  PROVE  /\ step'[z] > 1 => \E i \in DOMAIN teams' : /\ teams'[i].name = req'[z].team
                                                     /\ teams'[i].roster = names'[z]
         /\ step'[z] = NMembers + 2 => ~absent'[z]
         /\ ~absent'[z] =>
              \A x \in 1..NMembers : x + 1 < step'[z] =>
                \A j \in DOMAIN users' :
                  (users'[j].team = req'[z].team /\ users'[j].name = names'[z][x]) =>
                    users'[j].status \notin Roles
  <1>1. Serving(z) /\ Serving(s) /\ req'[z] = req[z]
    BY ServingRemains, WorkMoves
  <1>2. step'[z] = step[z] /\ names'[z] = names[z] /\ absent'[z] = absent[z]
    BY OthersKept
  <1>3. ASSUME step[z] > 1
        PROVE  \E i \in DOMAIN teams' : teams'[i].name = req[z].team /\ teams'[i].roster = names[z]
    <2>1. PICK i \in DOMAIN teams : teams[i].name = req[z].team /\ teams[i].roster = names[z]
      BY <1>1, <1>3 DEF CheckInv
    <2>2. i \in DOMAIN teams' /\ teams'[i].name = teams[i].name /\ teams'[i].roster = teams[i].roster
      BY TeamColumns
    <2> QED
      BY <2>1, <2>2
  <1>4. step[z] = NMembers + 2 => ~absent[z]
    BY <1>1 DEF CheckInv
  <1>5. ASSUME ~absent[z], NEW x \in 1..NMembers, x + 1 < step[z],
               NEW j \in DOMAIN users', users'[j].team = req[z].team,
               users'[j].name = names[z][x], users'[j].status \in Roles
        PROVE  FALSE
    <2>1. j \in DOMAIN users
          /\ (users[j].status \in Roles \/ (req[s].svc = "summon" /\ req[s].team = users[j].team))
      BY <1>5, CastBySummon
    <2>2. users[j].team = req[z].team /\ users[j].name = names[z][x]
      BY <1>5, <2>1, UsersRemain
    <2>3. users[j].status \notin Roles
      BY <1>1, <1>5, <2>1, <2>2 DEF CheckInv
    <2>4. req[s] \in Requests[s] /\ req[z] \in Requests[z]
      BY <1>1 DEF ListedInv, Asked
    <2>5. s = z
      BY <1>1, <2>1, <2>2, <2>3, <2>4 DEF SoleCaptain
    <2> QED
      BY <2>5
  <1> QED
    BY <1>1, <1>2, <1>3, <1>4, <1>5

\* Its own statements read the roster, then the members one by one.
LEMMA CheckOwn ==
  ASSUME MembersApart, TypeInv, TypeInv', ListedInv, TwinsInv, CheckInv,
         NEW s \in Sessions, Work(s), Serving(s)', req'[s].svc = "check_members_status"
  PROVE  /\ step'[s] > 1 => \E i \in DOMAIN teams' : /\ teams'[i].name = req'[s].team
                                                     /\ teams'[i].roster = names'[s]
         /\ step'[s] = NMembers + 2 => ~absent'[s]
         /\ ~absent'[s] =>
              \A x \in 1..NMembers : x + 1 < step'[s] =>
                \A j \in DOMAIN users' :
                  (users'[j].team = req'[s].team /\ users'[j].name = names'[s][x]) =>
                    users'[j].status \notin Roles
  <1> DEFINE f == req[s]
             k == step[s]
             nm == names[s]
  <1>1. /\ Serving(s) /\ ~Halts(s) /\ req'[s] = f /\ f \in Request /\ k \in Nat /\ k >= 1
        /\ step'[s] = k + 1 /\ nm \in Namings /\ Statement(s) = Script(f, nm)[k]
        /\ f.svc = "check_members_status"
    BY NextStatement
  <1>2. Steps(s)
    BY ServingRemains
  <1>3. /\ Len(Current(s)) = NMembers + 2 /\ k \in 1..NMembers + 1 /\ k # NMembers + 2
        /\ Statement(s) = CheckAt(f, nm, k)
    <2>1. Len(Script(f, nm)) = NMembers + 2
          /\ \A j \in 1..NMembers + 2 : Script(f, nm)[j] = CheckAt(f, nm, j)
      BY <1>1, CheckScript
    <2>2. k < NMembers + 2
      BY <1>2, <2>1 DEF Steps, Current
    <2> QED
      BY <1>1, <2>1, <2>2, NMembersAssumption DEF Current
  <1>4. CASE k = 1
    <2>1. Statement(s) = retrieve_members_name(f.team)
      BY <1>3, <1>4 DEF CheckAt
    <2>2. PICK i \in DOMAIN teams : FirstTeam(i, f.team) /\ names'[s] = teams[i].roster
      BY <1>1, <2>1, RosterRead
    <2>3. teams' = teams
      BY <1>1, <2>1, RosterRead
    <2>4. teams'[i].name = req'[s].team /\ teams'[i].roster = names'[s] /\ i \in DOMAIN teams'
      BY <1>1, <2>2, <2>3 DEF FirstTeam, TeamNamed
    <2>5. step'[s] = 2 /\ step'[s] # NMembers + 2 /\ \A x \in 1..NMembers : ~(x + 1 < step'[s])
      BY <1>1, <1>4, NMembersAssumption
    <2> QED
      BY <2>4, <2>5
  <1>5. CASE k # 1
    <2> DEFINE u == nm[k - 1]
    <2>1. k > 1 /\ k - 1 \in 1..NMembers /\ Statement(s) = retrieve_status(f.team, u)
      BY <1>1, <1>3, <1>5, NMembersAssumption DEF CheckAt
    <2>2. /\ users' = users /\ names' = names /\ teams' = teams
          /\ \E i \in DOMAIN users :
               /\ FirstUser(i, f.team, u)
               /\ ~absent'[s] => ~absent[s] /\ users[i].status = "ONLINE"
          /\ k + 1 = Len(Current(s)) => ~absent'[s]
      BY <1>1, <2>1, StatusRead
    <2>3. PICK i \in DOMAIN users :
            /\ FirstUser(i, f.team, u)
            /\ ~absent'[s] => ~absent[s] /\ users[i].status = "ONLINE"
      BY <2>2
    <2>4. \E r \in DOMAIN teams : teams[r].name = f.team /\ teams[r].roster = nm
      BY <1>1, <2>1 DEF CheckInv
    <2>5. ASSUME ~absent'[s], NEW x \in 1..NMembers, x + 1 < k + 1, NEW j \in DOMAIN users,
                 users[j].team = f.team, users[j].name = nm[x], users[j].status \in Roles
          PROVE  FALSE
      <3>1. ~absent[s] /\ users[i].status = "ONLINE"
        BY <2>3, <2>5
      <3>2. CASE x + 1 < k
        BY <1>1, <2>5, <3>1, <3>2 DEF CheckInv
      <3>3. CASE ~(x + 1 < k)
        <4>1. x = k - 1
          BY <1>1, <2>5, <3>3
        <4>2. UserNamed(j, f.team, u)
          BY <2>5, <4>1 DEF UserNamed
        <4>3. UserNamed(i, f.team, u) /\ i <= j
          BY <2>3, <4>2 DEF FirstUser
        <4>4. Person(Statement(s)) /\ Statement(s).team = f.team /\ Statement(s).who = u
          BY <2>1, PersonFields
        <4>5. users[i].team = f.team /\ users[i].name = u
          BY <1>1, <4>3, <4>4, SelectsOwn
        <4>6. i = j \/ i < j
          <5>1. users \in Seq(UserRow)
            BY TableTypes
          <5>2. i \in Nat /\ j \in Nat
            BY <5>1
          <5> QED
            BY <4>3, <5>2
        <4>7. users[i].status \in Roles
          BY <2>5, <4>1, <4>5, <4>6 DEF TwinsInv
        <4> QED
          BY <3>1, <4>7 DEF Roles
      <3> QED
        BY <3>2, <3>3
    <2>6. step'[s] = NMembers + 2 => ~absent'[s]
      BY <1>1, <1>3, <2>2
    <2> HIDE DEF f, k, nm, u
    <2> QED
      BY <1>1, <2>2, <2>4, <2>5, <2>6 DEF f, k, nm
  <1> QED
    BY <1>4, <1>5

BackInv == RosterInv /\ TwinsInv /\ CheckInv

LEMMA BackWork ==
  ASSUME MembersApart, SoleCaptain, TypeInv, TypeInv', ListedInv, BackInv,
         NEW s \in Sessions, Work(s)
  PROVE  BackInv'
  <1>1. RosterInv' /\ TwinsInv'
    BY RosterWork, TwinsWork DEF BackInv
  <1>2. ASSUME NEW z \in Sessions, Serving(z)', req'[z].svc = "check_members_status"
        PROVE  /\ step'[z] > 1 => \E i \in DOMAIN teams' : /\ teams'[i].name = req'[z].team
                                                           /\ teams'[i].roster = names'[z]
               /\ step'[z] = NMembers + 2 => ~absent'[z]
               /\ ~absent'[z] =>
                    \A x \in 1..NMembers : x + 1 < step'[z] =>
                      \A j \in DOMAIN users' :
                        (users'[j].team = req'[z].team /\ users'[j].name = names'[z][x]) =>
                          users'[j].status \notin Roles
    <2>1. CASE z = s
      BY <1>2, <2>1, CheckOwn DEF BackInv
    <2>2. CASE z # s
      BY <1>2, <2>2, CheckOthers DEF BackInv
    <2> QED
      BY <2>1, <2>2
  <1>3. CheckInv'
    BY <1>2 DEF CheckInv
  <1> QED
    BY <1>1, <1>3 DEF BackInv

LEMMA BackEnvironment ==
  ASSUME TypeInv, BackInv, NEW s \in Sessions, Environment(s)
  PROVE  BackInv'
  <1>0. teams' = teams /\ users' = users
    BY EnvironmentFrame
  <1>1. RosterInv'
    BY <1>0, EnvironmentFrame DEF BackInv, RosterInv
  <1>2. TwinsInv'
    BY <1>0 DEF BackInv, TwinsInv
  <1>3. ASSUME NEW z \in Sessions, Serving(z)', req'[z].svc = "check_members_status"
        PROVE  /\ step'[z] > 1 => \E i \in DOMAIN teams' : /\ teams'[i].name = req'[z].team
                                                           /\ teams'[i].roster = names'[z]
               /\ step'[z] = NMembers + 2 => ~absent'[z]
               /\ ~absent'[z] =>
                    \A x \in 1..NMembers : x + 1 < step'[z] =>
                      \A j \in DOMAIN users' :
                        (users'[j].team = req'[z].team /\ users'[j].name = names'[z][x]) =>
                          users'[j].status \notin Roles
    <2>1. CASE Serving(z)
      <3>1. /\ step'[z] = step[z] /\ req'[z] = req[z] /\ names'[z] = names[z]
            /\ absent'[z] = absent[z]
        BY <2>1, EnvironmentKeeps
      <3> QED
        BY <1>0, <1>3, <2>1, <3>1 DEF BackInv, CheckInv
    <2>2. CASE ~Serving(z)
      <3>1. step'[z] = 1
        BY <1>3, <2>2, EnvironmentFrame
      <3>2. ~(1 > 1) /\ 1 # NMembers + 2 /\ \A x \in 1..NMembers : ~(x + 1 < 1)
        BY NMembersAssumption
      <3> QED
        BY <3>1, <3>2
    <2> QED
      BY <2>1, <2>2
  <1>4. CheckInv'
    BY <1>3 DEF CheckInv
  <1> QED
    BY <1>1, <1>2, <1>4 DEF BackInv

LEMMA BackStep ==
  ASSUME MembersApart, SoleCaptain
  PROVE  TypeInv /\ TypeInv' /\ ListedInv /\ BackInv /\ [Next]_vars => BackInv'
  <1> SUFFICES ASSUME TypeInv, TypeInv', ListedInv, BackInv, [Next]_vars PROVE BackInv'
    OBVIOUS
  <1>1. CASE Next
    BY <1>1, BackWork, BackEnvironment DEF Next
  <1>2. CASE UNCHANGED vars
    BY <1>2 DEF vars, BackInv, RosterInv, TwinsInv, CheckInv, Serving
  <1> QED
    BY <1>1, <1>2

LEMMA BackInit ==
  ASSUME MembersOnce
  PROVE  Init => BackInv
  <1> SUFFICES ASSUME Init PROVE BackInv
    OBVIOUS
  <1>1. teams = Teams0 /\ users = Users0 /\ \A s \in Sessions : ~Serving(s)
    BY DEF Init, Serving
  <1>2. RosterInv /\ CheckInv
    BY <1>1 DEF RosterInv, CheckInv, MembersOnce
  <1>3. TwinsInv
    <2>1. ASSUME NEW i \in DOMAIN users, NEW j \in DOMAIN users, i < j,
                 users[i].team = users[j].team, users[i].name = users[j].name
          PROVE  FALSE
      <3>1. i = j
        BY <1>1, <2>1 DEF MembersOnce
      <3>2. i \in Nat
        BY <1>1, TablesAssumption
      <3> QED
        BY <2>1, <3>1, <3>2
    <2> QED
      BY <2>1 DEF TwinsInv
  <1> QED
    BY <1>2, <1>3 DEF BackInv

\* With one captain per team and one connection that registers it: a team goes from the
\* battlefield back to the list through a recorded result, or through is_all_online at
\* a moment when none of its members, on the roster or not yet read, has a role.
THEOREM MembersBack ==
  ASSUME MembersApart, MembersOnce, SoleCaptain, \A t \in TeamNames : SoleRegistrar(t)
  PROVE  Spec => MembersBackBeforeReopened
  <1>1. ASSUME TypeInv, NamesInv, ListedInv, BackInv, [Next]_vars, NEW i \in DOMAIN teams,
               teams[i].status = "ONBATTLE", teams'[i].status = "ONLINE"
        PROVE  \E s \in Sessions :
                 /\ Acts(s)
                 /\ \/ req[s].svc = "record_battle_result"
                    \/ /\ req[s].svc = "check_members_status"
                       /\ \A j \in DOMAIN users :
                            users[j].team = teams[i].name => users[j].status \notin Roles
    <2>1. teams' # teams
      BY <1>1
    <2>2. PICK s \in Sessions : Work(s)
      BY <1>1, <2>1, EnvironmentFrame DEF Next, vars
    <2> DEFINE f == req[s]
               q == Statement(s)
    <2>3. q.op = "set_team_status" /\ q.team = teams[i].name /\ q.val = "ONLINE"
      BY <1>1, <2>2, TeamColumns
    <2>4. /\ f \in Request /\ names[s] \in Namings /\ Serving(s)
          /\ step[s] \in 1..Len(Script(f, names[s]))
          /\ q = Script(f, names[s])[step[s]]
      BY <1>1, <2>2, WorkMoves, StatementType DEF TypeInv, Control, Statement, Current
    <2>5. \/ f.svc = "record_battle_result"
          \/ f.svc = "check_members_status" /\ step[s] = NMembers + 2 /\ q.team = f.team
      BY <2>3, <2>4, Reopening DEF Reopens
    <2>6. ASSUME f.svc = "check_members_status", step[s] = NMembers + 2, q.team = f.team,
                 NEW j \in DOMAIN users, users[j].team = teams[i].name
          PROVE  users[j].status \notin Roles
      <3>1. PICK r \in DOMAIN teams : teams[r].name = f.team /\ teams[r].roster = names[s]
        BY <1>1, <2>4, <2>6, NMembersAssumption DEF BackInv, CheckInv
      <3>2. PICK p \in DOMAIN teams :
              /\ teams[p].name = users[j].team
              /\ \E x \in 1..NMembers : teams[p].roster[x] = users[j].name
        BY <1>1 DEF BackInv, RosterInv
      <3>3. users[j].team = f.team /\ f.team \in TeamNames
        BY <2>3, <2>4, <2>6 DEF Request
      <3>4. r = p
        BY <1>1, <3>1, <3>2, <3>3 DEF NamesInv, TeamNamesUnique
      <3>5. PICK x \in 1..NMembers : names[s][x] = users[j].name
        BY <3>1, <3>2, <3>4
      <3>6. x + 1 < step[s] /\ ~absent[s]
        BY <1>1, <2>4, <2>6, NMembersAssumption DEF BackInv, CheckInv
      <3> QED
        BY <1>1, <2>4, <2>6, <3>3, <3>5, <3>6 DEF BackInv, CheckInv
    <2>7. Acts(s)
      BY <1>1, <2>2, ActorIsOne
    <2> QED
      BY <2>5, <2>6, <2>7
  <1>2. TypeInv /\ NamesInv /\ ListedInv /\ BackInv /\ [Next]_vars =>
          [\A i \in DOMAIN teams :
             (teams[i].status = "ONBATTLE" /\ teams'[i].status = "ONLINE") =>
               \E s \in Sessions :
                 /\ Acts(s)
                 /\ \/ req[s].svc = "record_battle_result"
                    \/ /\ req[s].svc = "check_members_status"
                       /\ \A j \in DOMAIN users :
                            users[j].team = teams[i].name => users[j].status \notin Roles]_vars
    BY <1>1
  <1>3. Init => TypeInv /\ ListedInv /\ BackInv
    BY TypeInit, ListedInit, BackInit
  <1>4. Init => NamesInv
    BY TablesAssumption DEF Init, NamesInv, Asked, TeamNamesUnique, Serving
  <1>5. TypeInv /\ [Next]_vars => TypeInv'
    BY TypeStep
  <1>6. TypeInv /\ NamesInv /\ [Next]_vars => NamesInv'
    BY NamesStep
  <1>7. TypeInv /\ TypeInv' /\ ListedInv /\ [Next]_vars => ListedInv'
    BY ListedStep
  <1>8. TypeInv /\ TypeInv' /\ ListedInv /\ BackInv /\ [Next]_vars => BackInv'
    BY BackStep
  <1> QED
    BY <1>2, <1>3, <1>4, <1>5, <1>6, <1>7, <1>8, PTL DEF Spec, MembersBackBeforeReopened
=============================================================================
