----------------------------- MODULE MCTankRows ------------------------------
(* The rows and requests of the tank game instances.  The tables are as        *)
(* sql/init_table.sql leaves them, with two members per team instead of four:  *)
(* teams "A" and "a", which the collation does not tell apart, and members     *)
(* A, B and a, b.                                                              *)
EXTENDS Naturals, Sequences

MCTeams == {"A", "a", "T"}
MCUsers == {"A", "B", "a", "b", "p", "q"}
MCWords == {"captain", "soldier", "wrong", "GUARDER", "CHALLENGER", "drummer",
            "ACCEPT", "REJECT", "winner", "losser"}
MCFold == [t \in MCTeams |-> IF t = "a" THEN "A" ELSE t]

Team(t, ns) ==
  [name |-> t, roster |-> ns, status |-> "OFFLINE", rival |-> "NULL",
   invitation |-> "EMPTY", vs_times |-> 0, win_times |-> 0]
User(t, u, title, status) ==
  [name |-> u, team |-> t, title |-> title, status |-> status,
   bullet |-> "FIRED", place |-> "origin"]

NoRows == <<>>
InitTeams == <<Team("A", <<"A", "B">>), Team("a", <<"a", "b">>)>>
InitUsers ==
  <<User("A", "A", "captain", "OFFLINE"), User("A", "B", "soldier", "OFFLINE"),
    User("a", "a", "captain", "OFFLINE"), User("a", "b", "soldier", "OFFLINE")>>
\* The same after both captains and their soldiers have logged in.
OnlineUsers == [i \in 1..4 |-> [InitUsers[i] EXCEPT !.status = "ONLINE"]]

\* A request; the fields its service does not have are filled with any value.
Ask(svc, t) ==
  [svc |-> svc, team |-> t, who |-> "A", rival |-> "T", word |-> "wrong",
   roster |-> <<"p", "q">>]
AskMember(svc, t, u) == [Ask(svc, t) EXCEPT !.who = u]
AskRival(svc, t, r) == [Ask(svc, t) EXCEPT !.rival = r]
AskWord(svc, t, w) == [Ask(svc, t) EXCEPT !.word = w]
Login(t, u, title) == [AskMember("login", t, u) EXCEPT !.word = title]
Respond(t, r, w) == [AskRival("respond_invitation", t, r) EXCEPT !.word = w]
=============================================================================
