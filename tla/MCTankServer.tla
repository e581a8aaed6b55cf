---------------------------- MODULE MCTankServer ----------------------------
(* Instances of TankServer. *)
EXTENDS TankServer, MCTankRows

TwoSessions == {1, 2}
ThreeSessions == {1, 2, 3}
\* Bounds on the messages of a session.
OneEach == <<1, 1>>
SecondTwo == <<1, 2, 1>>
NoSession == {}
FirstSession == {1}

\* T is registered over two connections, A over one and perhaps twice, while
\* clients poll and log in to a team that may be half there, or record a battle for it.
RegisterRequests ==
  <<{Ask("register", "T"), AskWord("record_battle_result", "T", "winner")},
    {[Ask("register", "A") EXCEPT !.roster = <<"A", "B">>], Login("T", "p", "captain"),
     AskMember("has_battle", "T", "q")},
    {Ask("register", "T"), Ask("check_members_status", "T"), Login("T", "p", "wrong"),
     AskMember("logout", "T", "p")}>>
\* A shooter and the poll of another player.
ShotRequests ==
  <<{AskMember("update_bullet", "A", "B")}, {AskRival("get_battle_data", "A", "a")}>>
=============================================================================
