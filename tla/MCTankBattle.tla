---------------------------- MODULE MCTankBattle -----------------------------
(* Two scenes over one pair of tables, with a database that the first         *)
(* connection may lose: the teams take the field and leave it, or one client  *)
(* polls while two members of A shoot.                                        *)
EXTENDS TankBattle, MCTankRows

VARIABLE scene

BattleSessions == {1, 2, 3}
Scenes == {"field", "shots"}
\* In the field scene, the captain of A, a soldier of A, and a client that plays for
\* the other member of A and for team "a".
SceneRequests(sc) ==
  IF sc = "field"
  THEN <<{AskWord("summon", "A", "GUARDER"), Ask("check_members_status", "A"),
          AskWord("record_battle_result", "A", "winner")},
         {AskMember("update_combatants_attr", "A", "B"), AskMember("update_xy", "A", "B"),
          AskMember("logout", "A", "B")},
         {AskMember("update_combatants_attr", "A", "A"), AskWord("summon", "a", "drummer"),
          AskMember("update_bullet", "a", "b")}>>
  ELSE <<{AskRival("get_battle_data", "A", "a")},
         {AskMember("update_bullet", "A", "B")},
         {AskMember("update_bullet", "A", "B"), AskMember("update_combatants_attr", "A", "B")}>>
SceneBounds(sc) == IF sc = "field" THEN <<2, 1, 1>> ELSE <<2, 2, 1>>

BattleRequests == [s \in BattleSessions |-> UNION {SceneRequests(sc)[s] : sc \in Scenes}]
BattleBounds == <<2, 2, 1>>
PollerMayLoseDb == {1}

\* What the theorems of TankBattleProofs suppose is so here.
ASSUME BattleAssumption ==
  /\ MembersApart /\ MembersOnce /\ SoleCaptain /\ SolePoller
  /\ \A t \in TeamNames : SoleRegistrar(t)
  /\ \A i \in DOMAIN Users0 : Users0[i].bullet = "FIRED"

SceneInit == BattleInit /\ scene \in Scenes
SceneNext ==
  /\ BattleNext /\ UNCHANGED scene
  /\ \A s \in Sessions :
       /\ sent'[s] <= SceneBounds(scene)[s]
       /\ req'[s] \in SceneRequests(scene)[s] \cup {NoRequest}
SceneSpec == SceneInit /\ [][SceneNext]_<<battleVars, scene>>
=============================================================================
