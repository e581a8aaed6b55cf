----------------------------- MODULE TankBattle ------------------------------
(***************************************************************************)
(* The shots of a battle: TankServer with two history variables that count *)
(* the shots of each member and the polls that reported one.  update_bullet *)
(* stores a shot as LOADED, get_battle_data reports it and stores FIRED.   *)
(***************************************************************************)
EXTENDS TankServer

VARIABLES
  loads,  \* loads[<<t, u>>]: update_bullet statements for that member
  shown   \* shown[<<t, u>>]: polls that read the member's bullet as LOADED

battleVars == <<vars, loads, shown>>

Members == TeamNames \X UserNames

LoadedNow(m) ==
  \E s \in Sessions : Acts(s) /\ linked[s]
                      /\ Statement(s) = set_bullet_status(m[1], m[2], "LOADED")
ShownNow(m) ==
  \E s \in Sessions : /\ Acts(s) /\ linked[s]
                      /\ Statement(s) = pack_user_data(m[1], m[2])
                      /\ m \in seen'[s] /\ m \notin seen[s]

BattleInit ==
  /\ Init
  /\ loads = [m \in Members |-> 0] /\ shown = [m \in Members |-> 0]
BattleNext ==
  /\ Next
  /\ loads' = [m \in Members |-> loads[m] + IF LoadedNow(m) THEN 1 ELSE 0]
  /\ shown' = [m \in Members |-> shown[m] + IF ShownNow(m) THEN 1 ELSE 0]
BattleSpec == BattleInit /\ [][BattleNext]_battleVars

\* One connection polls.
Polls(s) == \E f \in Requests[s] : f.svc = "get_battle_data"
SolePoller == \A s, z \in Sessions : Polls(s) /\ Polls(z) => s = z

\* Over all polls of the one connection that calls get_battle_data, a member's bullet
\* is reported at most as often as it was loaded: a client never draws a shot that was
\* not fired.  And a reported shot does not come back: a bullet is LOADED only while
\* one of its loads has not been reported, or while the poll that read it has yet to
\* store FIRED (or lost the database before it could, sql.c:279-281).  Both hold
\* however loads fall between the select and the update of pack_users_data
\* (sql.c:277-282); with a second polling connection the same bullet can be read
\* twice before it is FIRED.
ShotsReportedOnce ==
  /\ \A m \in Members : shown[m] <= loads[m]
  /\ \A i \in DOMAIN users :
       users[i].bullet = "LOADED" =>
         LET m == <<users[i].team, users[i].name>>
         IN  \/ shown[m] < loads[m]
             \/ \E s \in Sessions : ~linked[s] \/ (Serving(s) /\ m \in seen[s])
=============================================================================
