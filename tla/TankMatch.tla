------------------------------ MODULE TankMatch ------------------------------
(***************************************************************************)
(* The invitation protocol: TankServer with the captains' clients.  The    *)
(* clients are not in the repository; their discipline is read off the     *)
(* handlers: a captain answers an invitation after has_invitation named    *)
(* its challenger, and goes on to the battle once it has accepted; a       *)
(* challenger polls listen_invitation and invites again only after reading *)
(* EMPTY.                                                                  *)
(***************************************************************************)
EXTENDS TankServer

Heard(s, svc, word) ==
  /\ req[s].svc = svc
  /\ reply[s].code = "data" /\ reply[s].word = word

Accepts(f) == f.svc = "respond_invitation" /\ f.word = "ACCEPT"

\* What is left to do of a match once two teams are paired.
BattleServices ==
  {"get_rival_name", "summon", "get_combatants_attr", "update_combatants_attr",
   "update_xy", "update_bullet", "get_battle_data", "record_battle_result"}
Settled(s) == Accepts(req[s]) \/ req[s].svc \in BattleServices

\* What a captain's client sends next.
MaySend(s, f) ==
  /\ f.svc = "respond_invitation" => Heard(s, "has_invitation", f.rival)
  /\ f.svc = "send_invitation" => Heard(s, "listen_invitation", "EMPTY")
  /\ Settled(s) => f.svc \in BattleServices

MatchNext ==
  \E s \in Sessions :
    \/ Work(s)
    \/ Connect(s) \/ Disconnect(s)
    \/ \E f \in Requests[s] : MaySend(s, f) /\ Receive(s, f)

MatchSpec == Init /\ [][MatchNext]_vars

InviteServices == {"send_invitation", "respond_invitation"}
\* A client may ask svc for team t.
Asks(s, svc, t) == \E f \in Requests[s] : f.svc = svc /\ f.team = t
Challenges(t, r) ==
  \E s \in Sessions : \E f \in Requests[s] :
    f.svc = "send_invitation" /\ f.team = t /\ f.rival = r

\* Who challenges whom: only teams that are there from the start, a team challenges or
\* is challenged, by one team, and no result is recorded while the invitations go on.
ChallengesApart ==
  \A t, r \in TeamNames : Challenges(t, r) =>
    /\ \E i, j \in DOMAIN Teams0 : Teams0[i].name = t /\ Teams0[j].name = r
    /\ \A x \in TeamNames : ~Challenges(x, t) /\ (Challenges(x, r) => x = t)
    /\ \A s \in Sessions : /\ ~Asks(s, "record_battle_result", t)
                           /\ ~Asks(s, "record_battle_result", r)

\* Each team has one captain, who plays for that team only and either challenges and
\* listens or answers.
CaptainServices ==
  {"send_invitation", "listen_invitation", "has_invitation", "respond_invitation"}
OneCaptain ==
  \A s, z \in Sessions, t, r \in TeamNames :
    /\ \A svc \in InviteServices : Asks(s, svc, t) /\ Asks(z, svc, t) => s = z
    /\ Asks(s, "respond_invitation", t) =>
         ~Asks(z, "listen_invitation", t) /\ ~Asks(z, "send_invitation", t)
    /\ \A a, b \in CaptainServices : Asks(s, a, t) /\ Asks(s, b, r) => t = r

\* No team has a rival or an invitation at the start, "NULL" is no team, and no
\* database is lost half way through an answer.
Unpaired ==
  /\ "NULL" \notin TeamNames /\ MayLoseDb = {}
  /\ \A i \in DOMAIN Teams0 : Teams0[i].rival = "NULL" /\ Teams0[i].invitation = "EMPTY"

------------------------------------------------------------------------------

Resting == \A s \in Sessions : Serving(s) => req[s].svc \notin InviteServices
RivalOf(t, r) == \E i \in DOMAIN teams : FirstTeam(i, t) /\ teams[i].rival = r
InvitationOf(t, v) == \E i \in DOMAIN teams : FirstTeam(i, t) /\ teams[i].invitation = v

\* When no invitation is being sent or answered, a team names as its rival a
\* team that names it back, though set_rival and set_invitation_status write the
\* two rows in separate statements (sql.c:491-510).
RivalsMutualAtRest ==
  Resting => \A t, r \in TeamNames : RivalOf(t, r) => RivalOf(r, t)

\* An ACCEPT that either side knows of is a pairing (sql.c:484-510).  A challenger
\* that was told ACCEPT by listen_invitation: both teams name each other and the
\* other team's row is ACCEPT too, so both captains may summon.  A captain that has
\* accepted: it keeps its rival and its ACCEPT, nothing its own client or the
\* challenger's poll does takes the pairing back.
AcceptMeansPaired ==
  \A s \in Sessions : pc[s] = "recv" =>
    /\ Heard(s, "listen_invitation", "ACCEPT") =>
         \E r \in TeamNames :
           /\ RivalOf(req[s].team, r) /\ RivalOf(r, req[s].team)
           /\ InvitationOf(r, "ACCEPT")
    /\ (Accepts(req[s]) /\ reply[s].code = "200") =>
         RivalOf(req[s].team, req[s].rival) /\ InvitationOf(req[s].team, "ACCEPT")
=============================================================================
