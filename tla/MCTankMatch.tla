----------------------------- MODULE MCTankMatch -----------------------------
(* Captain of A challenges, captain of "a" answers.                            *)
EXTENDS TankMatch, MCTankRows

\* What the theorems about invitations suppose holds of these captains.
ASSUME MatchAssumption == ChallengesApart /\ OneCaptain /\ Unpaired

\* The challenger, the answering captain, and a soldier of A who polls.
MatchRequests ==
  <<{Ask("listen_invitation", "A"), AskRival("send_invitation", "A", "a")},
    {Ask("has_invitation", "a"), Respond("a", "A", "ACCEPT"),
     Respond("a", "A", "REJECT"), Ask("get_team_list", "a"), Ask("get_rival_name", "a")},
    {Ask("get_rival_name", "A"), AskRival("get_combatants_attr", "A", "a")}>>
MatchSessions == {1, 2, 3}
MatchBounds == <<5, 5, 1>>
NobodyLosesDb == {}
=============================================================================
