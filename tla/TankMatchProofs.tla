--------------------------- MODULE TankMatchProofs ---------------------------
(***************************************************************************)
(* The invitations of TankMatch, for every number of teams, captains,      *)
(* connections and messages: rivals are mutual whenever no invitation is   *)
(* under way, and an ACCEPT stands for a pairing.                          *)
(*                                                                         *)
(* Each session is followed through the phases of the exchange, and each   *)
(* team through its rival and its invitation; one lemma per move of the    *)
(* exchange shows that it keeps MatchInv, whatever made it.  The second    *)
(* half shows that every step of the server and of its clients is one of   *)
(* these moves.                                                            *)
(***************************************************************************)
EXTENDS TankMatch, TankBattleProofs

------------------------------------------------------------------------------
(* The invitations.  What two captains do to each other is seen best apart  *)
(* from rows, requests and answers: each team that takes part has a rival   *)
(* and an invitation, each session a place in the exchange.                 *)

\* The teams that challenge or are challenged, and the row that counts of each.
Entrants == {t \in TeamNames : \E r \in TeamNames : Challenges(t, r) \/ Challenges(r, t)}
Row(t) == CHOOSE i \in DOMAIN Teams0 : Teams0[i].name = t
Rivals == [t \in Entrants |-> teams[Row(t)].rival]
Invites == [t \in Entrants |-> teams[Row(t)].invitation]

\* A challenger is told that it is free, sends its three statements and is told of an
\* ACCEPT; a captain is named its challenger and answers in two statements or three.
PhaseOf(s) ==
  CASE Serving(s) /\ req[s].svc = "send_invitation" ->
         <<"invite1", "invite2", "invite3">>[step[s]]
    [] Serving(s) /\ Accepts(req[s]) -> <<"accept1", "accept2">>[step[s]]
    [] Serving(s) /\ req[s].svc = "respond_invitation" /\ req[s].word # "ACCEPT" ->
         <<"refuse1", "refuse2", "refuse3">>[step[s]]
    [] pc[s] = "recv" /\ Accepts(req[s]) -> "accepted"
    [] pc[s] = "recv" /\ Heard(s, "listen_invitation", "EMPTY")
         /\ Asks(s, "send_invitation", req[s].team) -> "free"
    [] pc[s] = "recv" /\ Heard(s, "listen_invitation", "ACCEPT") -> "heard"
    [] pc[s] = "recv" /\ Heard(s, "has_invitation", reply[s].word)
         /\ reply[s].word \in TeamNames
         /\ Asks(s, "respond_invitation", req[s].team) -> "named"
    [] OTHER -> "away"
Phases == [s \in Sessions |-> PhaseOf(s)]
Captain == [s \in Sessions |-> IF PhaseOf(s) = "away" THEN "NULL" ELSE req[s].team]
Facing == [s \in Sessions |-> CASE PhaseOf(s) = "away" -> "NULL"
                               [] PhaseOf(s) = "named" -> reply[s].word
                               [] OTHER -> req[s].rival]
Engaged == {s \in Sessions : Settled(s)}

Inviting == {"invite1", "invite2", "invite3"}
Accepting == {"accept1", "accept2", "accepted"}
Refusing == {"refuse1", "refuse2", "refuse3"}
Answering == {"named"} \cup Accepting \cup Refusing

\* Who may be where.
Captains ==
  \A s \in Sessions : Phases[s] # "away" =>
       /\ Phases[s] \in Inviting \cup Answering \cup {"free", "heard"}
       /\ Captain[s] \in TeamNames
       /\ Phases[s] \in Inviting =>
            Facing[s] \in TeamNames /\ Challenges(Captain[s], Facing[s])
       /\ Phases[s] \in Inviting \cup {"free"} =>
            Captain[s] \in Entrants /\ Asks(s, "send_invitation", Captain[s])
       /\ Phases[s] \in Answering =>
            Facing[s] \in TeamNames /\ Asks(s, "respond_invitation", Captain[s])
       /\ Phases[s] = "heard" => Asks(s, "listen_invitation", Captain[s])
       /\ s \in Engaged <=> Phases[s] \in Accepting

\* No team it challenges has t as its rival, nor a captain who faces t.
Unheard(t) ==
  /\ \A r \in TeamNames : Challenges(t, r) => Rivals[r] # t
  /\ \A z \in Sessions : Phases[z] \in Answering => Facing[z] # t
Free(t) == Rivals[t] = "NULL" /\ Unheard(t)
Paired(t, r) ==
  Challenges(t, r) /\ Rivals[t] = r /\ Rivals[r] = t /\ Invites[r] = "ACCEPT"

\* The rows, also those of teams that register later.
RowsInv ==
  /\ \A j \in DOMAIN Teams0 : j \in DOMAIN teams /\ teams[j].name = Teams0[j].name
  /\ \A i \in DOMAIN teams :
       /\ teams[i].rival # "NULL" => \/ Challenges(teams[i].name, teams[i].rival)
                                     \/ Challenges(teams[i].rival, teams[i].name)
       /\ teams[i].invitation = "ACCEPT" => teams[i].name \in Entrants
\* Every request comes from the client's list.
ClientInv ==
  \A s \in Sessions : /\ linked[s] /\ req[s] \in Requests[s] \cup {NoRequest}
                      /\ pc[s] = "listen" => req[s] = NoRequest

\* The rival of a challenger answers it, or has yet to be told; a challenger whose
\* invitation is EMPTY is free, but between its own statements.
RivalsAt(t, r) ==
  /\ Rivals[r] = t => Rivals[t] = r
  /\ Rivals[t] = r =>
       \/ Rivals[r] = t
       \/ \E s \in Sessions : Phases[s] = "invite2" /\ Captain[s] = t /\ Facing[s] = r
       \/ \E z \in Sessions : Phases[z] = "refuse2" /\ Captain[z] = r /\ Facing[z] = t
  /\ Invites[t] = "EMPTY" =>
       \/ Free(t)
       \/ \E s \in Sessions : Phases[s] \in {"invite2", "invite3"} /\ Captain[s] = t
RivalsInv == \A t, r \in TeamNames : Challenges(t, r) => RivalsAt(t, r)

\* The challengers.
InvitingAt(s) ==
  /\ Phases[s] = "free" => Invites[Captain[s]] = "EMPTY"
  /\ Phases[s] = "invite1" => Free(Captain[s]) /\ Invites[Captain[s]] = "EMPTY"
  /\ Phases[s] = "invite2" => Rivals[Captain[s]] = Facing[s] /\ Unheard(Captain[s])
InvitingInv == \A s \in Sessions : InvitingAt(s)

\* The answering captains.
AnsweringAt(z) ==
  /\ Phases[z] \in Answering => Challenges(Facing[z], Captain[z])
  /\ Phases[z] \in {"named", "accept1", "refuse1"} => Rivals[Captain[z]] = Facing[z]
  /\ Phases[z] \in {"accept2", "accepted"} => Paired(Facing[z], Captain[z])
  /\ Phases[z] = "refuse2" =>
       Rivals[Facing[z]] = Captain[z] /\ Rivals[Captain[z]] = "NULL"
  /\ Phases[z] = "refuse3" => Rivals[Facing[z]] = "NULL"
AnsweringInv ==
  /\ \A z \in Sessions : AnsweringAt(z)
  /\ \A z, y \in Sessions :
       (/\ Phases[z] \in Answering /\ Phases[y] \in Answering
        /\ Facing[z] = Facing[y]) => z = y

\* What an ACCEPT stands for.
AcceptInv ==
  /\ \A t \in Entrants :
       (Invites[t] = "ACCEPT" /\ \A z \in Sessions : ~Asks(z, "respond_invitation", t)) =>
         \E r \in TeamNames : Paired(t, r)
  /\ \A z \in Sessions, t, r \in TeamNames :
       (Challenges(t, r) /\ Invites[r] = "ACCEPT" /\ Asks(z, "respond_invitation", r)) =>
         z \in Engaged
  /\ \A s \in Sessions : Phases[s] = "heard" => \E r \in TeamNames : Paired(Captain[s], r)

MatchInv == RivalsInv /\ InvitingInv /\ AnsweringInv /\ AcceptInv

------------------------------------------------------------------------------
(* One step of the exchange, apart from what the server does in it.         *)

Hypotheses == ChallengesApart /\ OneCaptain /\ Unpaired

Others(s) ==
  \A z \in Sessions : z # s =>
    /\ Phases'[z] = Phases[z] /\ Captain'[z] = Captain[z] /\ Facing'[z] = Facing[z]
    /\ z \in Engaged' <=> z \in Engaged
Enters(s, p, t, r) == Phases'[s] = p /\ Captain'[s] = t /\ Facing'[s] = r
SetsRival(t, v) ==
  \A x \in Entrants : /\ Rivals'[x] = IF x = t THEN v ELSE Rivals[x]
                      /\ Invites'[x] = Invites[x]
SetsInvite(t, v) ==
  \A x \in Entrants : /\ Invites'[x] = IF x = t THEN v ELSE Invites[x]
                      /\ Rivals'[x] = Rivals[x]
SetsNothing ==
  \A x \in Entrants : Rivals'[x] = Rivals[x] /\ Invites'[x] = Invites[x]

LEMMA ChallengerKnown ==
  ASSUME NEW t, NEW r, Challenges(t, r)
  PROVE  t \in TeamNames /\ r \in TeamNames
  BY RequestsAssumption DEF Challenges, Request

\* Challengers and the challenged are apart, and each has its captain.
LEMMA Apart ==
  ASSUME Hypotheses, NEW t \in TeamNames, NEW r \in TeamNames, Challenges(t, r)
  PROVE  /\ t \in Entrants /\ r \in Entrants /\ t # r /\ t # "NULL" /\ r # "NULL"
         /\ \A x \in TeamNames : /\ ~Challenges(x, t) /\ ~Challenges(r, x)
                                 /\ Challenges(x, r) => x = t
  <1>1. \A a, b \in TeamNames : Challenges(a, b) =>
          \A x \in TeamNames : ~Challenges(x, a) /\ (Challenges(x, b) => x = a)
    BY DEF Hypotheses, ChallengesApart
  <1>2. "NULL" \notin TeamNames
    BY DEF Hypotheses, Unpaired
  <1> QED
    BY <1>1, <1>2 DEF Entrants

LEMMA Owners ==
  ASSUME Hypotheses, NEW s \in Sessions, NEW z \in Sessions, NEW t \in TeamNames
  PROVE  /\ Asks(s, "send_invitation", t) /\ Asks(z, "send_invitation", t) => s = z
         /\ Asks(s, "respond_invitation", t) /\ Asks(z, "respond_invitation", t) => s = z
         /\ Asks(s, "respond_invitation", t) =>
              ~Asks(z, "listen_invitation", t) /\ ~Asks(z, "send_invitation", t)
  BY DEF Hypotheses, OneCaptain, InviteServices

\* What a step of s leaves as it was.
Same(x) == Rivals'[x] = Rivals[x] /\ Invites'[x] = Invites[x]
StaysUnheard(s, x) ==
  Unheard(x) =>
  /\ \A b \in TeamNames : Challenges(x, b) => Rivals'[b] = Rivals[b] \/ Rivals'[b] # x
  /\ (Phases'[s] \in Answering /\ Facing'[s] = x) => (Phases[s] \in Answering /\ Facing[s] = x)

LEMMA StillUnheard ==
  ASSUME NEW s \in Sessions, Others(s), NEW x \in TeamNames, Unheard(x), StaysUnheard(s, x)
  PROVE  Unheard(x)'
  BY DEF Unheard, Others, StaysUnheard

LEMMA RivalsKept ==
  ASSUME RivalsInv, NEW s \in Sessions, Others(s), NEW a \in TeamNames, NEW b \in TeamNames,
         Challenges(a, b), Same(a), Rivals'[b] = Rivals[b], StaysUnheard(s, a),
         Phases[s] \in {"invite2", "invite3"} => Captain[s] # a,
         Phases[s] = "refuse2" => Facing[s] # a
  PROVE  RivalsAt(a, b)'
  <1>1. RivalsAt(a, b)
    BY DEF RivalsInv
  <1>2. Free(a) => Free(a)'
    BY StillUnheard DEF Free, Same
  <1>3. ASSUME NEW z \in Sessions, Phases[z] \in {"invite2", "invite3"}, Captain[z] = a
        PROVE  Phases'[z] = Phases[z] /\ Captain'[z] = a /\ Facing'[z] = Facing[z]
    BY <1>3 DEF Others
  <1>4. ASSUME NEW z \in Sessions, Phases[z] = "refuse2", Facing[z] = a
        PROVE  Phases'[z] = "refuse2" /\ Captain'[z] = Captain[z] /\ Facing'[z] = a
    BY <1>4 DEF Others
  <1> QED
    BY <1>1, <1>2, <1>3, <1>4 DEF RivalsAt, Same

LEMMA InvitingKept ==
  ASSUME Captains, InvitingInv, NEW s \in Sessions, Others(s), NEW z \in Sessions, z # s,
         \A x \in Entrants :
           (Captain[z] = x /\ Phases[z] \in {"free", "invite1", "invite2"}) =>
             Same(x) /\ StaysUnheard(s, x)
  PROVE  InvitingAt(z)'
  <1>1. Phases'[z] = Phases[z] /\ Captain'[z] = Captain[z] /\ Facing'[z] = Facing[z]
    BY DEF Others
  <1>2. CASE Phases[z] \in {"free", "invite1", "invite2"}
    <2>1. PICK x \in TeamNames : x = Captain[z] /\ x \in Entrants
      BY <1>2 DEF Captains, Inviting
    <2>2. Same(x) /\ (Unheard(x) => Unheard(x)')
      BY <1>2, <2>1, StillUnheard
    <2> QED
      BY <1>1, <2>1, <2>2 DEF InvitingInv, InvitingAt, Free, Unheard, Same
  <1>3. CASE Phases[z] \notin {"free", "invite1", "invite2"}
    BY <1>1, <1>3 DEF InvitingAt
  <1> QED
    BY <1>2, <1>3

LEMMA AnsweringKept ==
  ASSUME AnsweringInv, NEW s \in Sessions, Others(s), NEW z \in Sessions, z # s,
         Phases[z] \in Answering =>
           Same(Captain[z]) /\ Rivals'[Facing[z]] = Rivals[Facing[z]]
  PROVE  AnsweringAt(z)'
  <1>1. Phases'[z] = Phases[z] /\ Captain'[z] = Captain[z] /\ Facing'[z] = Facing[z]
    BY DEF Others
  <1>2. AnsweringAt(z)
    BY DEF AnsweringInv, AnsweringAt
  <1>3. CASE Phases[z] \in Answering
    BY <1>1, <1>2, <1>3 DEF AnsweringAt, Paired, Same
  <1>4. CASE Phases[z] \notin Answering
    BY <1>1, <1>4 DEF AnsweringAt, Answering, Accepting, Refusing
  <1> QED
    BY <1>3, <1>4

\* Only one captain faces a challenger, whatever session moves.
LEMMA FacingKept ==
  ASSUME AnsweringInv, NEW s \in Sessions, Others(s),
         Phases'[s] \in Answering =>
           \/ Phases[s] \in Answering /\ Facing'[s] = Facing[s]
           \/ \A z \in Sessions : (z # s /\ Phases[z] \in Answering) => Facing[z] # Facing'[s],
         \A z \in Sessions : AnsweringAt(z)'
  PROVE  AnsweringInv'
  <1>1. ASSUME NEW z \in Sessions, NEW y \in Sessions, Phases'[z] \in Answering,
               Phases'[y] \in Answering, Facing'[z] = Facing'[y]
        PROVE  z = y
    BY <1>1 DEF AnsweringInv, Others
  <1> QED
    BY <1>1 DEF AnsweringInv, AnsweringAt

\* An ACCEPT goes on standing for a pairing.
LEMMA AcceptKept ==
  ASSUME Hypotheses, AcceptInv, NEW s \in Sessions, Others(s),
         \A a, b \in TeamNames : Paired(a, b) => Paired(a, b)',
         \A x \in Entrants : Invites'[x] = "ACCEPT" => Invites[x] = "ACCEPT",
         s \in Engaged => s \in Engaged',
         Phases'[s] = "heard" => \E r \in TeamNames : Paired(Captain[s], r)'
  PROVE  AcceptInv'
  <1>1. ASSUME NEW t \in Entrants, Invites'[t] = "ACCEPT",
               \A z \in Sessions : ~Asks(z, "respond_invitation", t)
        PROVE  \E r \in TeamNames : Paired(t, r)'
    BY <1>1 DEF AcceptInv, Entrants
  <1>2. ASSUME NEW z \in Sessions, NEW t \in TeamNames, NEW r \in TeamNames,
               Challenges(t, r), Invites'[r] = "ACCEPT", Asks(z, "respond_invitation", r)
        PROVE  z \in Engaged'
    <2>1. r \in Entrants
      BY <1>2, Apart
    <2>2. z \in Engaged
      BY <1>2, <2>1 DEF AcceptInv
    <2> QED
      BY <2>2 DEF Others
  <1>3. ASSUME NEW z \in Sessions, Phases'[z] = "heard"
        PROVE  \E r \in TeamNames : Paired(Captain[z], r)'
    <2>1. CASE z = s
      BY <1>3, <2>1
    <2>2. CASE z # s
      <3>1. Phases[z] = "heard" /\ Captain'[z] = Captain[z]
        BY <1>3, <2>2 DEF Others
      <3>2. PICK r \in TeamNames : Paired(Captain[z], r)
        BY <3>1 DEF AcceptInv
      <3>3. PICK a \in TeamNames : a = Captain[z]
        BY <3>2, ChallengerKnown DEF Paired
      <3> QED
        BY <3>1, <3>2, <3>3 DEF Paired
    <2> QED
      BY <2>1, <2>2
  <1> QED
    BY <1>1, <1>2, <1>3 DEF AcceptInv

\* Who is not concerned by a statement of the challenger of t.
LEMMA InviteApart ==
  ASSUME Hypotheses, Captains, MatchInv, NEW s \in Sessions, NEW t \in TeamNames,
         NEW r \in TeamNames, Phases[s] \in Inviting, Captain[s] = t, Facing[s] = r
  PROVE  /\ Challenges(t, r) /\ t \in Entrants /\ r \in Entrants /\ t # r
         /\ \A z \in Sessions : (z # s /\ Phases[z] \in Answering) =>
              /\ Captain[z] \in Entrants /\ Facing[z] \in Entrants
              /\ Captain[z] # t /\ Facing[z] # r
              /\ Facing[z] # t => Captain[z] # r
         /\ \A z \in Sessions :
              (z # s /\ Phases[z] \in Inviting \cup {"free"}) =>
                Captain[z] # t /\ Captain[z] # r
  <1>1. Challenges(t, r) /\ Asks(s, "send_invitation", t)
    BY DEF Captains, Inviting
  <1>2. t \in Entrants /\ r \in Entrants /\ t # r
    BY <1>1, Apart
  <1>3. ASSUME NEW z \in Sessions, z # s, Phases[z] \in Answering
        PROVE  /\ Captain[z] \in Entrants /\ Facing[z] \in Entrants
               /\ Captain[z] # t /\ Facing[z] # r
               /\ Facing[z] # t => Captain[z] # r
    <2>1. Challenges(Facing[z], Captain[z])
      BY <1>3 DEF MatchInv, AnsweringInv, AnsweringAt
    <2>2. PICK x \in TeamNames, y \in TeamNames : x = Captain[z] /\ y = Facing[z]
      BY <2>1, ChallengerKnown
    <2>3. Challenges(y, x)
      BY <2>1, <2>2
    <2> QED
      BY <1>1, <2>2, <2>3, Apart
  <1>4. ASSUME NEW z \in Sessions, z # s, Phases[z] \in Inviting \cup {"free"}
        PROVE  Captain[z] # t /\ Captain[z] # r
    <2>1. PICK x \in TeamNames : x = Captain[z] /\ Asks(z, "send_invitation", x)
      BY <1>4 DEF Captains, Inviting
    <2>2. PICK y : Challenges(x, y)
      BY <2>1 DEF Asks, Challenges
    <2>3. x # r
      BY <1>1, <2>2, ChallengerKnown, Apart
    <2> QED
      BY <1>1, <1>4, <2>1, <2>3, Owners
  <1> QED
    BY <1>1, <1>2, <1>3, <1>4

\* Nobody who is free to invite, or begins to, is being answered.
LEMMA Busy ==
  ASSUME Hypotheses, Captains, MatchInv, NEW z \in Sessions, Phases[z] \in Answering,
         NEW y \in Sessions, Phases[y] \in {"free", "invite1", "invite2"}
  PROVE  Captain[y] # Facing[z]
  <1>1. PICK x \in TeamNames : x = Captain[y] /\ Asks(y, "send_invitation", x)
    BY DEF Captains, Inviting
  <1>2. CASE Phases[y] \in {"invite1", "invite2"}
    BY <1>1, <1>2 DEF MatchInv, InvitingInv, InvitingAt, Free, Unheard
  <1>3. CASE Phases[y] = "free"
    <2>1. Invites[x] = "EMPTY"
      BY <1>1, <1>3 DEF MatchInv, InvitingInv, InvitingAt
    <2>2. ASSUME NEW w \in Sessions, Phases[w] \in {"invite2", "invite3"},
                 Captain[w] = x
          PROVE  FALSE
      <3>1. Asks(w, "send_invitation", x)
        BY <2>2 DEF Captains, Inviting
      <3>2. w = y
        BY <1>1, <3>1, Owners
      <3> QED
        BY <1>3, <2>2, <3>2
    <2>3. PICK r \in TeamNames : Challenges(x, r)
      BY <1>1, ChallengerKnown DEF Asks, Challenges
    <2>4. Free(x)
      BY <2>1, <2>2, <2>3 DEF MatchInv, RivalsInv, RivalsAt
    <2> QED
      BY <1>1, <2>4 DEF Free, Unheard
  <1> QED
    BY <1>2, <1>3

\* Who is not concerned by a statement of the captain of r who answers t.
LEMMA AnswerApart ==
  ASSUME Hypotheses, Captains, MatchInv, NEW s \in Sessions, NEW t \in TeamNames,
         NEW r \in TeamNames, Phases[s] \in Answering, Captain[s] = r, Facing[s] = t
  PROVE  /\ Challenges(t, r) /\ t \in Entrants /\ r \in Entrants /\ t # r
         /\ \A z \in Sessions : (z # s /\ Phases[z] \in Answering) =>
              /\ Captain[z] \in Entrants /\ Facing[z] \in Entrants
              /\ Captain[z] # t /\ Facing[z] # r /\ Facing[z] # t /\ Captain[z] # r
         /\ \A z \in Sessions :
              (z # s /\ Phases[z] \in {"free", "invite1", "invite2"}) =>
                Captain[z] # t /\ Captain[z] # r
  <1>1. Challenges(t, r)
    BY DEF MatchInv, AnsweringInv, AnsweringAt
  <1>2. t \in Entrants /\ r \in Entrants /\ t # r
    BY <1>1, Apart
  <1>3. ASSUME NEW z \in Sessions, z # s, Phases[z] \in Answering
        PROVE  /\ Captain[z] \in Entrants /\ Facing[z] \in Entrants
               /\ Captain[z] # t /\ Facing[z] # r /\ Facing[z] # t /\ Captain[z] # r
    <2>1. Challenges(Facing[z], Captain[z])
      BY <1>3 DEF MatchInv, AnsweringInv, AnsweringAt
    <2>2. PICK x \in TeamNames, y \in TeamNames : x = Captain[z] /\ y = Facing[z]
      BY <2>1, ChallengerKnown
    <2>3. Challenges(y, x)
      BY <2>1, <2>2
    <2>4. y # t
      BY <1>3, <2>2 DEF MatchInv, AnsweringInv
    <2> QED
      BY <1>1, <2>2, <2>3, <2>4, Apart
  <1>4. ASSUME NEW z \in Sessions, z # s, Phases[z] \in {"free", "invite1", "invite2"}
        PROVE  Captain[z] # t /\ Captain[z] # r
    <2>1. PICK x \in TeamNames : x = Captain[z] /\ Asks(z, "send_invitation", x)
      BY <1>4 DEF Captains, Inviting
    <2>2. PICK y : Challenges(x, y)
      BY <2>1 DEF Asks, Challenges
    <2>3. x # r
      BY <1>1, <2>2, ChallengerKnown, Apart
    <2> QED
      BY <1>4, <2>1, <2>3, Busy
  <1> QED
    BY <1>1, <1>2, <1>3, <1>4

\* set_rival: the challenger names its rival, is named by it, and waits.
LEMMA NamesRival ==
  ASSUME Hypotheses, Captains, Captains', MatchInv, NEW s \in Sessions, Others(s),
         NEW t \in TeamNames, NEW r \in TeamNames,
         Phases[s] = "invite1", Captain[s] = t, Facing[s] = r,
         Enters(s, "invite2", t, r), SetsRival(t, r)
  PROVE  MatchInv'
  <1>1. /\ Challenges(t, r) /\ t \in Entrants /\ r \in Entrants /\ t # r
        /\ \A z \in Sessions : (z # s /\ Phases[z] \in Answering) =>
             /\ Captain[z] \in Entrants /\ Facing[z] \in Entrants
             /\ Captain[z] # t /\ Facing[z] # r
             /\ Facing[z] # t => Captain[z] # r
        /\ \A z \in Sessions :
             (z # s /\ Phases[z] \in Inviting \cup {"free"}) =>
               Captain[z] # t /\ Captain[z] # r
    BY InviteApart DEF Inviting
  <1>2. Free(t) /\ Invites[t] = "EMPTY" /\ RivalsInv /\ InvitingInv /\ AnsweringInv /\ AcceptInv
    BY DEF MatchInv, InvitingInv, InvitingAt
  <1>3. /\ \A x \in Entrants : x # t => Same(x)
        /\ \A x \in TeamNames : StaysUnheard(s, x)
    <2>1. \A x \in TeamNames, b \in TeamNames : Challenges(x, b) => b \in Entrants /\ b # t
      BY <1>1, Apart
    <2> QED
      BY <2>1 DEF SetsRival, Same, StaysUnheard, Enters, Answering, Accepting, Refusing
  <1>4. RivalsInv'
    <2>1. ASSUME NEW a \in TeamNames, NEW b \in TeamNames, Challenges(a, b)
          PROVE  RivalsAt(a, b)'
      <3>1. a \in Entrants /\ b \in Entrants /\ b # t /\ Same(b)
        BY <1>1, <1>3, <2>1, Apart
      <3>2. CASE a # t
        BY <1>2, <1>3, <2>1, <3>1, <3>2, RivalsKept DEF Same
      <3>3. CASE a = t
        <4>1. Rivals'[b] # t /\ Rivals'[t] = r /\ (b # r => Rivals'[t] # b)
          BY <1>2, <2>1, <3>1, <3>3 DEF Free, Unheard, Same, SetsRival
        <4> QED
          BY <3>3, <4>1 DEF RivalsAt, Enters
      <3> QED
        BY <3>2, <3>3
    <2> QED
      BY <2>1 DEF RivalsInv
  <1>5. InvitingInv'
    <2>1. InvitingAt(s)'
      BY <1>1, <1>2, <1>3, StillUnheard DEF InvitingAt, Enters, Free, SetsRival, Unheard
    <2>2. \A z \in Sessions : z # s => InvitingAt(z)'
      BY <1>1, <1>2, <1>3, InvitingKept DEF Inviting, Entrants
    <2> QED
      BY <2>1, <2>2 DEF InvitingInv
  <1>6. AnsweringInv'
    <2>1. AnsweringAt(s)'
      BY DEF AnsweringAt, Enters, Answering, Accepting, Refusing
    <2>2. ASSUME NEW z \in Sessions, z # s PROVE AnsweringAt(z)'
      <3>1. Phases[z] \in Answering => Facing[z] # t
        BY <1>2 DEF Free, Unheard
      <3> QED
        BY <1>1, <1>2, <1>3, <2>2, <3>1, AnsweringKept DEF Same
    <2> QED
      BY <1>2, <2>1, <2>2, FacingKept DEF Enters, Answering, Accepting, Refusing
  <1>7. AcceptInv'
    <2>1. ASSUME NEW a \in TeamNames, NEW b \in TeamNames, Paired(a, b) PROVE Paired(a, b)'
      <3>1. a # t /\ b # t /\ a \in Entrants /\ b \in Entrants
        BY <1>1, <1>2, <2>1, Apart DEF Paired, Free
      <3> QED
        BY <1>3, <2>1, <3>1 DEF Paired, Same
    <2>2. s \notin Engaged
      BY DEF Captains, Accepting
    <2> QED
      BY <1>2, <2>1, <2>2, AcceptKept DEF SetsRival, Enters
  <1> QED
    BY <1>4, <1>5, <1>6, <1>7 DEF MatchInv

LEMMA NamesBack ==
  ASSUME Hypotheses, Captains, Captains', MatchInv, NEW s \in Sessions, Others(s),
         NEW t \in TeamNames, NEW r \in TeamNames,
         Phases[s] = "invite2", Captain[s] = t, Facing[s] = r,
         Enters(s, "invite3", t, r), SetsRival(r, t)
  PROVE  MatchInv'
  <1>1. /\ Challenges(t, r) /\ t \in Entrants /\ r \in Entrants /\ t # r
        /\ \A z \in Sessions : (z # s /\ Phases[z] \in Answering) =>
             /\ Captain[z] \in Entrants /\ Facing[z] \in Entrants
             /\ Captain[z] # t /\ Facing[z] # r
             /\ Facing[z] # t => Captain[z] # r
        /\ \A z \in Sessions :
             (z # s /\ Phases[z] \in Inviting \cup {"free"}) =>
               Captain[z] # t /\ Captain[z] # r
    BY InviteApart DEF Inviting
  <1>2. /\ Rivals[t] = r /\ Unheard(t)
        /\ RivalsInv /\ InvitingInv /\ AnsweringInv /\ AcceptInv
    BY DEF MatchInv, InvitingInv, InvitingAt
  <1>3. /\ \A x \in Entrants : x # r => Same(x)
        /\ \A x \in TeamNames : x # t => StaysUnheard(s, x)
    <2>1. \A x \in TeamNames, b \in TeamNames : Challenges(x, b) => b \in Entrants
      BY Apart
    <2> QED
      BY <2>1 DEF SetsRival, Same, StaysUnheard, Enters, Answering, Accepting, Refusing
  <1>4. RivalsInv'
    <2>1. ASSUME NEW a \in TeamNames, NEW b \in TeamNames, Challenges(a, b)
          PROVE  RivalsAt(a, b)'
      <3>1. a \in Entrants /\ b \in Entrants /\ a # r /\ Same(a) /\ (b = r => a = t)
        BY <1>1, <1>3, <2>1, Apart
      <3>2. CASE a # t
        BY <1>2, <1>3, <2>1, <3>1, <3>2, RivalsKept DEF Same
      <3>3. CASE a = t
        <4>1. /\ Rivals'[t] = r /\ Rivals'[r] = t
              /\ b # r => Rivals'[b] # t
          BY <1>1, <1>2, <1>3, <2>1, <3>1, <3>3 DEF Unheard, Same, SetsRival
        <4> QED
          BY <3>3, <4>1 DEF RivalsAt, Enters
      <3> QED
        BY <3>2, <3>3
    <2> QED
      BY <2>1 DEF RivalsInv
  <1>5. InvitingInv'
    <2>1. InvitingAt(s)'
      BY DEF InvitingAt, Enters
    <2>2. \A z \in Sessions : z # s => InvitingAt(z)'
      BY <1>1, <1>2, <1>3, InvitingKept DEF Inviting, Entrants
    <2> QED
      BY <2>1, <2>2 DEF InvitingInv
  <1>6. AnsweringInv'
    <2>1. AnsweringAt(s)'
      BY DEF AnsweringAt, Enters, Answering, Accepting, Refusing
    <2>2. ASSUME NEW z \in Sessions, z # s PROVE AnsweringAt(z)'
      <3>1. Phases[z] \in Answering => Facing[z] # t
        BY <1>2 DEF Unheard
      <3> QED
        BY <1>1, <1>2, <1>3, <2>2, <3>1, AnsweringKept DEF Same
    <2> QED
      BY <1>2, <2>1, <2>2, FacingKept DEF Enters, Answering, Accepting, Refusing
  <1>7. AcceptInv'
    <2>1. ASSUME NEW a \in TeamNames, NEW b \in TeamNames, Paired(a, b) PROVE Paired(a, b)'
      <3>1. a # r /\ b # r /\ a \in Entrants /\ b \in Entrants
        BY <1>1, <1>2, <2>1, Apart DEF Paired, Unheard
      <3> QED
        BY <1>3, <2>1, <3>1 DEF Paired, Same
    <2>2. s \notin Engaged
      BY DEF Captains, Accepting
    <2> QED
      BY <1>2, <2>1, <2>2, AcceptKept DEF SetsRival, Enters
  <1> QED
    BY <1>4, <1>5, <1>6, <1>7 DEF MatchInv

LEMMA Waits ==
  ASSUME Hypotheses, Captains, Captains', MatchInv, NEW s \in Sessions, Others(s),
         NEW t \in TeamNames, NEW r \in TeamNames,
         Phases[s] = "invite3", Captain[s] = t, Facing[s] = r,
         Phases'[s] = "away", SetsInvite(t, "WAIT")
  PROVE  MatchInv'
  <1>1. /\ Challenges(t, r) /\ t \in Entrants /\ r \in Entrants /\ t # r
        /\ \A z \in Sessions : (z # s /\ Phases[z] \in Answering) =>
             /\ Captain[z] \in Entrants /\ Facing[z] \in Entrants
             /\ Captain[z] # t /\ Facing[z] # r
             /\ Facing[z] # t => Captain[z] # r
        /\ \A z \in Sessions :
             (z # s /\ Phases[z] \in Inviting \cup {"free"}) =>
               Captain[z] # t /\ Captain[z] # r
    BY InviteApart DEF Inviting
  <1>2. RivalsInv /\ InvitingInv /\ AnsweringInv /\ AcceptInv
    BY DEF MatchInv
  <1>3. /\ \A x \in Entrants : Rivals'[x] = Rivals[x] /\ (x # t => Same(x))
        /\ \A x \in TeamNames : StaysUnheard(s, x)
    <2>1. \A x \in TeamNames, b \in TeamNames : Challenges(x, b) => b \in Entrants
      BY Apart
    <2> QED
      BY <2>1 DEF SetsInvite, Same, StaysUnheard, Answering, Accepting, Refusing
  <1>4. RivalsInv'
    <2>1. ASSUME NEW a \in TeamNames, NEW b \in TeamNames, Challenges(a, b)
          PROVE  RivalsAt(a, b)'
      <3>1. a \in Entrants /\ b \in Entrants /\ Rivals'[a] = Rivals[a] /\ Rivals'[b] = Rivals[b]
        BY <1>3, <2>1, Apart
      <3>2. CASE a # t
        BY <1>2, <1>3, <2>1, <3>1, <3>2, RivalsKept
      <3>3. CASE a = t
        <4>1. RivalsAt(t, b) /\ Invites'[t] = "WAIT"
          BY <1>1, <1>2, <2>1, <3>3 DEF RivalsInv, SetsInvite
        <4>2. \A z \in Sessions : Phases[z] = "invite2" => z # s /\ Captain[z] # t
          BY <1>1 DEF Inviting
        <4>3. \A z \in Sessions : Phases[z] = "refuse2" =>
                Phases'[z] = "refuse2" /\ Captain'[z] = Captain[z] /\ Facing'[z] = Facing[z]
          BY DEF Others
        <4> QED
          BY <3>1, <3>3, <4>1, <4>2, <4>3 DEF RivalsAt
      <3> QED
        BY <3>2, <3>3
    <2> QED
      BY <2>1 DEF RivalsInv
  <1>5. InvitingInv'
    <2>1. InvitingAt(s)'
      BY DEF InvitingAt
    <2>2. \A z \in Sessions : z # s => InvitingAt(z)'
      BY <1>1, <1>2, <1>3, InvitingKept DEF Inviting, Entrants
    <2> QED
      BY <2>1, <2>2 DEF InvitingInv
  <1>6. AnsweringInv'
    <2>1. AnsweringAt(s)'
      BY DEF AnsweringAt, Answering, Accepting, Refusing
    <2>2. \A z \in Sessions : z # s => AnsweringAt(z)'
      BY <1>1, <1>2, <1>3, AnsweringKept
    <2> QED
      BY <1>2, <2>1, <2>2, FacingKept DEF Answering, Accepting, Refusing
  <1>7. AcceptInv'
    <2>1. ASSUME NEW a \in TeamNames, NEW b \in TeamNames, Paired(a, b) PROVE Paired(a, b)'
      <3>1. b # t /\ a \in Entrants /\ b \in Entrants
        BY <1>1, <2>1, Apart DEF Paired
      <3> QED
        BY <1>3, <2>1, <3>1 DEF Paired, Same
    <2>2. s \notin Engaged
      BY DEF Captains, Accepting
    <2> QED
      BY <1>2, <2>1, <2>2, AcceptKept DEF SetsInvite
  <1> QED
    BY <1>4, <1>5, <1>6, <1>7 DEF MatchInv

\* Whatever an answering captain writes, it concerns its own team and the challenger it
\* faces.
LEMMA AnswerFrame ==
  ASSUME Hypotheses, Captains, MatchInv, NEW s \in Sessions, Others(s),
         NEW t \in TeamNames, NEW r \in TeamNames,
         Phases[s] \in Answering, Captain[s] = r, Facing[s] = t,
         Phases'[s] \in Answering \cup {"away"}, Phases'[s] \in Answering => Facing'[s] = t,
         \A x \in Entrants : x # t /\ x # r => Same(x),
         Rivals'[t] \in {Rivals[t], "NULL"}, Rivals'[r] \in {Rivals[r], "NULL"}
  PROVE  /\ InvitingInv'
         /\ AnsweringAt(s)' => AnsweringInv'
         /\ \A x \in TeamNames : StaysUnheard(s, x)
         /\ \A a, b \in TeamNames : Challenges(a, b) /\ a # t => RivalsAt(a, b)'
  <1>1. /\ Challenges(t, r) /\ t \in Entrants /\ r \in Entrants /\ t # r
        /\ \A z \in Sessions : (z # s /\ Phases[z] \in Answering) =>
             /\ Captain[z] \in Entrants /\ Facing[z] \in Entrants
             /\ Captain[z] # t /\ Facing[z] # r /\ Facing[z] # t /\ Captain[z] # r
        /\ \A z \in Sessions :
             (z # s /\ Phases[z] \in {"free", "invite1", "invite2"}) =>
               Captain[z] # t /\ Captain[z] # r
    BY AnswerApart
  <1>2. RivalsInv /\ InvitingInv /\ AnsweringInv
    BY DEF MatchInv
  <1>3. ASSUME NEW x \in TeamNames PROVE StaysUnheard(s, x)
    <2>1. ASSUME NEW b \in TeamNames, Challenges(x, b)
          PROVE  Rivals'[b] = Rivals[b] \/ Rivals'[b] # x
      <3>1. b \in Entrants /\ x # "NULL"
        BY <2>1, Apart
      <3> QED
        BY <3>1 DEF Same
    <2> QED
      BY <2>1 DEF StaysUnheard
  <1>4. InvitingInv'
    <2>1. InvitingAt(s)'
      BY DEF InvitingAt, Answering, Accepting, Refusing
    <2>2. ASSUME NEW z \in Sessions, z # s PROVE InvitingAt(z)'
      <3>1. \A x \in Entrants :
              (Captain[z] = x /\ Phases[z] \in {"free", "invite1", "invite2"}) =>
                Same(x) /\ StaysUnheard(s, x)
        BY <1>1, <1>3, <2>2 DEF Entrants
      <3> QED
        BY <1>2, <2>2, <3>1, InvitingKept
    <2> QED
      BY <2>1, <2>2 DEF InvitingInv
  <1>5. ASSUME AnsweringAt(s)' PROVE AnsweringInv'
    <2>1. \A z \in Sessions : z # s => AnsweringAt(z)'
      BY <1>1, <1>2, AnsweringKept DEF Same
    <2> QED
      BY <1>2, <1>5, <2>1, FacingKept
  <1>6. ASSUME NEW a \in TeamNames, NEW b \in TeamNames, Challenges(a, b), a # t
        PROVE  RivalsAt(a, b)'
    <2>1. /\ a \in Entrants /\ b \in Entrants /\ a # r /\ b # t /\ b # r
      BY <1>1, <1>6, Apart
    <2>2. Same(a) /\ Same(b)
      BY <1>6, <2>1
    <2>3. Phases[s] \notin {"invite2", "invite3"}
      BY DEF Answering, Accepting, Refusing
    <2> QED
      BY <1>2, <1>3, <1>6, <2>2, <2>3, RivalsKept DEF Same
  <1> QED
    BY <1>3, <1>4, <1>5, <1>6

\* set_invitation_status with ACCEPT: first the row of the accepting team.
LEMMA AcceptsOwn ==
  ASSUME Hypotheses, Captains, Captains', MatchInv, NEW s \in Sessions, Others(s),
         NEW t \in TeamNames, NEW r \in TeamNames,
         Phases[s] = "accept1", Captain[s] = r, Facing[s] = t,
         Enters(s, "accept2", r, t), SetsInvite(r, "ACCEPT")
  PROVE  MatchInv'
  <1>1. /\ Challenges(t, r) /\ t \in Entrants /\ r \in Entrants /\ t # r
        /\ Asks(s, "respond_invitation", r) /\ s \in Engaged /\ s \in Engaged'
    <2>1. Challenges(t, r)
      BY DEF MatchInv, AnsweringInv, AnsweringAt, Answering, Accepting
    <2>2. Asks(s, "respond_invitation", r) /\ s \in Engaged /\ s \in Engaged'
      BY DEF Captains, Answering, Accepting, Enters
    <2> QED
      BY <2>1, <2>2, Apart
  <1>2. /\ RivalsInv /\ AnsweringInv /\ AcceptInv /\ Rivals[r] = t /\ Rivals[t] = r
    <2>1. RivalsInv /\ AnsweringInv /\ AcceptInv /\ Rivals[r] = t
      BY DEF MatchInv, AnsweringInv, AnsweringAt
    <2> QED
      BY <1>1, <2>1 DEF RivalsInv, RivalsAt
  <1>3. /\ \A x \in Entrants : Rivals'[x] = Rivals[x] /\ (x # r => Same(x))
        /\ Invites'[r] = "ACCEPT"
    BY <1>1 DEF SetsInvite, Same
  <1>4. /\ InvitingInv' /\ (AnsweringAt(s)' => AnsweringInv')
        /\ \A x \in TeamNames : StaysUnheard(s, x)
    BY <1>1, <1>3, AnswerFrame DEF Enters, Answering, Accepting
  <1>5. Paired(t, r)' /\ AnsweringAt(s)'
    BY <1>1, <1>2, <1>3 DEF Paired, AnsweringAt, Enters
  <1>6. RivalsInv'
    <2>1. ASSUME NEW a \in TeamNames, NEW b \in TeamNames, Challenges(a, b)
          PROVE  RivalsAt(a, b)'
      <3>1. Same(a) /\ Rivals'[b] = Rivals[b] /\ StaysUnheard(s, a)
        BY <1>1, <1>3, <1>4, <2>1, Apart
      <3> QED
        BY <1>2, <2>1, <3>1, RivalsKept
    <2> QED
      BY <2>1 DEF RivalsInv
  <1>7. AcceptInv'
    <2>1. ASSUME NEW a \in TeamNames, NEW b \in TeamNames, Paired(a, b) PROVE Paired(a, b)'
      <3>1. a \in Entrants /\ b \in Entrants /\ Invites'[b] = "ACCEPT"
        BY <1>3, <2>1, Apart DEF Paired, Same
      <3> QED
        BY <1>3, <2>1, <3>1 DEF Paired
    <2>2. ASSUME NEW x \in Entrants, Invites'[x] = "ACCEPT",
                 \A z \in Sessions : ~Asks(z, "respond_invitation", x)
          PROVE  \E y \in TeamNames : Paired(x, y)'
      <3>1. x # r
        BY <1>1, <2>2
      <3>2. PICK y \in TeamNames : Paired(x, y)
        BY <1>2, <1>3, <2>2, <3>1 DEF AcceptInv, Same
      <3> QED
        BY <2>1, <3>2 DEF Entrants
    <2>3. ASSUME NEW z \in Sessions, NEW x \in TeamNames, NEW y \in TeamNames,
                 Challenges(x, y), Invites'[y] = "ACCEPT", Asks(z, "respond_invitation", y)
          PROVE  z \in Engaged'
      <3>1. CASE y = r
        BY <1>1, <2>3, <3>1, Owners
      <3>2. CASE y # r
        <4>1. z \in Engaged
          BY <1>2, <1>3, <2>3, <3>2, Apart DEF AcceptInv, Same
        <4> QED
          BY <1>1, <4>1 DEF Others
      <3> QED
        BY <3>1, <3>2
    <2>4. ASSUME NEW z \in Sessions, Phases'[z] = "heard"
          PROVE  \E y \in TeamNames : Paired(Captain[z], y)'
      <3>1. Phases[z] = "heard" /\ Captain'[z] = Captain[z]
        BY <2>4 DEF Others, Enters
      <3>2. PICK y \in TeamNames : Paired(Captain[z], y)
        BY <1>2, <3>1 DEF AcceptInv
      <3>3. PICK x \in TeamNames : x = Captain[z]
        BY <3>2, ChallengerKnown DEF Paired
      <3>4. Paired(x, y)'
        BY <2>1, <3>2, <3>3
      <3> QED
        BY <3>1, <3>3, <3>4 DEF Paired
    <2> QED
      BY <2>2, <2>3, <2>4 DEF AcceptInv
  <1> QED
    BY <1>4, <1>5, <1>6, <1>7 DEF MatchInv

\* Then the challenger's.
LEMMA AcceptsBoth ==
  ASSUME Hypotheses, Captains, Captains', MatchInv, NEW s \in Sessions, Others(s),
         NEW t \in TeamNames, NEW r \in TeamNames,
         Phases[s] = "accept2", Captain[s] = r, Facing[s] = t,
         Enters(s, "accepted", r, t), SetsInvite(t, "ACCEPT")
  PROVE  MatchInv'
  <1>1. /\ Challenges(t, r) /\ t \in Entrants /\ r \in Entrants /\ t # r
        /\ s \in Engaged /\ s \in Engaged' /\ Paired(t, r)
    <2>1. Paired(t, r)
      BY DEF MatchInv, AnsweringInv, AnsweringAt
    <2>2. s \in Engaged /\ s \in Engaged'
      BY DEF Captains, Accepting, Enters
    <2> QED
      BY <2>1, <2>2, Apart DEF Paired
  <1>2. RivalsInv /\ AcceptInv /\ Rivals[r] = t /\ Rivals[t] = r
    BY <1>1 DEF MatchInv, Paired
  <1>3. /\ \A x \in Entrants : Rivals'[x] = Rivals[x] /\ (x # t => Same(x))
        /\ Invites'[t] = "ACCEPT"
    BY <1>1 DEF SetsInvite, Same
  <1>4. /\ InvitingInv' /\ (AnsweringAt(s)' => AnsweringInv')
        /\ \A a, b \in TeamNames : Challenges(a, b) /\ a # t => RivalsAt(a, b)'
    BY <1>1, <1>3, AnswerFrame DEF Enters, Answering, Accepting
  <1>5. ASSUME NEW a \in TeamNames, NEW b \in TeamNames, Paired(a, b) PROVE Paired(a, b)'
    <2>1. a \in Entrants /\ b \in Entrants /\ b # t
      BY <1>1, <1>5, Apart DEF Paired
    <2> QED
      BY <1>3, <1>5, <2>1 DEF Paired, Same
  <1>6. AnsweringAt(s)'
    BY <1>1, <1>5 DEF AnsweringAt, Enters, Paired
  <1>7. RivalsInv'
    <2>1. ASSUME NEW b \in TeamNames, Challenges(t, b) PROVE RivalsAt(t, b)'
      <3>1. b \in Entrants /\ RivalsAt(t, b)
        BY <1>2, <2>1, Apart DEF RivalsInv
      <3> QED
        BY <1>1, <1>2, <1>3, <3>1 DEF RivalsAt
    <2> QED
      BY <1>4, <2>1 DEF RivalsInv
  <1>8. AcceptInv'
    <2>1. ASSUME NEW x \in Entrants, Invites'[x] = "ACCEPT",
                 \A z \in Sessions : ~Asks(z, "respond_invitation", x)
          PROVE  \E y \in TeamNames : Paired(x, y)'
      <3>1. CASE x = t
        BY <1>1, <1>5, <3>1
      <3>2. CASE x # t
        <4>1. PICK y \in TeamNames : Paired(x, y)
          BY <1>2, <1>3, <2>1, <3>2 DEF AcceptInv, Same
        <4> QED
          BY <1>5, <4>1 DEF Entrants
      <3> QED
        BY <3>1, <3>2
    <2>2. ASSUME NEW z \in Sessions, NEW x \in TeamNames, NEW y \in TeamNames,
                 Challenges(x, y), Invites'[y] = "ACCEPT", Asks(z, "respond_invitation", y)
          PROVE  z \in Engaged'
      <3>1. y # t /\ y \in Entrants
        BY <1>1, <2>2, Apart
      <3>2. z \in Engaged
        BY <1>2, <1>3, <2>2, <3>1 DEF AcceptInv, Same
      <3> QED
        BY <1>1, <3>2 DEF Others
    <2>3. ASSUME NEW z \in Sessions, Phases'[z] = "heard"
          PROVE  \E y \in TeamNames : Paired(Captain[z], y)'
      <3>1. Phases[z] = "heard" /\ Captain'[z] = Captain[z]
        BY <2>3 DEF Others, Enters
      <3>2. PICK y \in TeamNames : Paired(Captain[z], y)
        BY <1>2, <3>1 DEF AcceptInv
      <3>3. PICK x \in TeamNames : x = Captain[z]
        BY <3>2, ChallengerKnown DEF Paired
      <3>4. Paired(x, y)'
        BY <1>5, <3>2, <3>3
      <3> QED
        BY <3>1, <3>3, <3>4 DEF Paired
    <2> QED
      BY <2>1, <2>2, <2>3 DEF AcceptInv
  <1> QED
    BY <1>4, <1>6, <1>7, <1>8 DEF MatchInv

\* A refusal: the refusing team has no rival, then the challenger, then the challenger
\* may invite again.
LEMMA RefusesOwn ==
  ASSUME Hypotheses, Captains, Captains', MatchInv, NEW s \in Sessions, Others(s),
         NEW t \in TeamNames, NEW r \in TeamNames,
         Phases[s] = "refuse1", Captain[s] = r, Facing[s] = t,
         Enters(s, "refuse2", r, t), SetsRival(r, "NULL")
  PROVE  MatchInv'
  <1>1. /\ Challenges(t, r) /\ t \in Entrants /\ r \in Entrants /\ t # r
        /\ t # "NULL" /\ r # "NULL"
        /\ Asks(s, "respond_invitation", r) /\ s \notin Engaged
    <2>1. Challenges(t, r)
      BY DEF MatchInv, AnsweringInv, AnsweringAt, Answering, Refusing
    <2>2. Asks(s, "respond_invitation", r) /\ s \notin Engaged
      BY DEF Captains, Answering, Accepting, Refusing
    <2> QED
      BY <2>1, <2>2, Apart
  <1>2. RivalsInv /\ AcceptInv /\ Rivals[r] = t /\ Rivals[t] = r
    <2>1. RivalsInv /\ AcceptInv /\ Rivals[r] = t
      BY DEF MatchInv, AnsweringInv, AnsweringAt
    <2> QED
      BY <1>1, <2>1 DEF RivalsInv, RivalsAt
  <1>3. /\ \A x \in Entrants : Invites'[x] = Invites[x] /\ (x # r => Same(x))
        /\ Rivals'[r] = "NULL" /\ Rivals'[t] = r
    BY <1>1, <1>2 DEF SetsRival, Same
  <1>4. /\ InvitingInv' /\ (AnsweringAt(s)' => AnsweringInv')
        /\ \A a, b \in TeamNames : Challenges(a, b) /\ a # t => RivalsAt(a, b)'
    BY <1>1, <1>2, <1>3, AnswerFrame DEF Enters, Answering, Refusing
  <1>5. AnsweringAt(s)'
    BY <1>1, <1>3 DEF AnsweringAt, Enters
  <1>6. RivalsInv'
    <2>1. ASSUME NEW b \in TeamNames, Challenges(t, b) PROVE RivalsAt(t, b)'
      <3>1. b \in Entrants /\ RivalsAt(t, b) /\ (b # r => Rivals[b] # t)
        BY <1>2, <2>1, Apart DEF RivalsInv, RivalsAt
      <3>2. Rivals'[b] # t
        BY <1>1, <1>3, <3>1 DEF Same
      <3>3. Rivals'[t] = b => Captain'[s] = b /\ Facing'[s] = t /\ Phases'[s] = "refuse2"
        BY <1>3 DEF Enters
      <3>4. ~Free(t)
        BY DEF Free, Unheard, Answering, Refusing
      <3>5. ASSUME NEW z \in Sessions, Phases[z] \in {"invite2", "invite3"}, Captain[z] = t
            PROVE  Phases'[z] = Phases[z] /\ Captain'[z] = t
        BY <3>5 DEF Others
      <3> QED
        BY <1>1, <1>3, <3>1, <3>2, <3>3, <3>4, <3>5 DEF RivalsAt
    <2> QED
      BY <1>4, <2>1 DEF RivalsInv
  <1>7. AcceptInv'
    <2>1. ASSUME NEW a \in TeamNames, NEW b \in TeamNames, Paired(a, b) PROVE Paired(a, b)'
      <3>1. a \in Entrants /\ b \in Entrants /\ a # r /\ Challenges(a, b) /\ Invites[b] = "ACCEPT"
        BY <1>1, <2>1, Apart DEF Paired
      <3>2. b # r
        BY <1>1, <1>2, <3>1 DEF AcceptInv
      <3> QED
        BY <1>3, <2>1, <3>1, <3>2 DEF Paired, Same
    <2> QED
      BY <1>1, <1>2, <1>3, <2>1, AcceptKept DEF Enters
  <1> QED
    BY <1>4, <1>5, <1>6, <1>7 DEF MatchInv

LEMMA RefusesBoth ==
  ASSUME Hypotheses, Captains, Captains', MatchInv, NEW s \in Sessions, Others(s),
         NEW t \in TeamNames, NEW r \in TeamNames,
         Phases[s] = "refuse2", Captain[s] = r, Facing[s] = t,
         Enters(s, "refuse3", r, t), SetsRival(t, "NULL")
  PROVE  MatchInv'
  <1>1. /\ Challenges(t, r) /\ t \in Entrants /\ r \in Entrants /\ t # r
        /\ t # "NULL" /\ r # "NULL" /\ s \notin Engaged
    <2>1. Challenges(t, r)
      BY DEF MatchInv, AnsweringInv, AnsweringAt, Answering, Refusing
    <2>2. s \notin Engaged
      BY DEF Captains, Answering, Accepting, Refusing
    <2> QED
      BY <2>1, <2>2, Apart
  <1>2. RivalsInv /\ AcceptInv /\ Rivals[r] = "NULL" /\ Rivals[t] = r
    BY DEF MatchInv, AnsweringInv, AnsweringAt
  <1>3. /\ \A x \in Entrants : Invites'[x] = Invites[x] /\ (x # t => Same(x))
        /\ Rivals'[t] = "NULL"
    BY <1>1, <1>2 DEF SetsRival, Same
  <1>4. /\ InvitingInv' /\ (AnsweringAt(s)' => AnsweringInv')
        /\ \A a, b \in TeamNames : Challenges(a, b) /\ a # t => RivalsAt(a, b)'
    BY <1>1, <1>2, <1>3, AnswerFrame DEF Enters, Answering, Refusing, Same
  <1>5. AnsweringAt(s)'
    BY <1>1, <1>3 DEF AnsweringAt, Enters
  <1>6. RivalsInv'
    <2>1. ASSUME NEW b \in TeamNames, Challenges(t, b) PROVE RivalsAt(t, b)'
      <3>1. b \in Entrants /\ b # "NULL" /\ b # t /\ RivalsAt(t, b) /\ Rivals[b] # t
        BY <1>1, <1>2, <2>1, Apart DEF RivalsInv, RivalsAt
      <3>2. Rivals'[b] # t /\ Rivals'[t] # b
        BY <1>3, <3>1 DEF Same
      <3>4. ~Free(t)
        BY DEF Free, Unheard, Answering, Refusing
      <3>5. ASSUME NEW z \in Sessions, Phases[z] \in {"invite2", "invite3"}, Captain[z] = t
            PROVE  Phases'[z] = Phases[z] /\ Captain'[z] = t
        BY <3>5 DEF Others
      <3> QED
        BY <1>1, <1>3, <3>1, <3>2, <3>4, <3>5 DEF RivalsAt
    <2> QED
      BY <1>4, <2>1 DEF RivalsInv
  <1>7. AcceptInv'
    <2>1. ASSUME NEW a \in TeamNames, NEW b \in TeamNames, Paired(a, b) PROVE Paired(a, b)'
      <3>1. a \in Entrants /\ b \in Entrants /\ b # t /\ Challenges(a, b)
        BY <1>1, <2>1, Apart DEF Paired
      <3>2. a # t
        BY <1>1, <1>2, <2>1 DEF Paired
      <3> QED
        BY <1>3, <2>1, <3>1, <3>2 DEF Paired, Same
    <2> QED
      BY <1>1, <1>2, <1>3, <2>1, AcceptKept DEF Enters
  <1> QED
    BY <1>4, <1>5, <1>6, <1>7 DEF MatchInv

LEMMA Releases ==
  ASSUME Hypotheses, Captains, Captains', MatchInv, NEW s \in Sessions, Others(s),
         NEW t \in TeamNames, NEW r \in TeamNames,
         Phases[s] = "refuse3", Captain[s] = r, Facing[s] = t,
         Phases'[s] = "away", SetsInvite(t, "EMPTY")
  PROVE  MatchInv'
  <1>1. /\ Challenges(t, r) /\ t \in Entrants /\ r \in Entrants /\ t # r
        /\ t # "NULL" /\ r # "NULL" /\ s \notin Engaged
    <2>1. Challenges(t, r)
      BY DEF MatchInv, AnsweringInv, AnsweringAt, Answering, Refusing
    <2>2. s \notin Engaged
      BY DEF Captains, Answering, Accepting, Refusing
    <2> QED
      BY <2>1, <2>2, Apart
  <1>2. RivalsInv /\ AnsweringInv /\ AcceptInv /\ Rivals[t] = "NULL"
    BY DEF MatchInv, AnsweringInv, AnsweringAt
  <1>3. \A x \in Entrants : Rivals'[x] = Rivals[x] /\ (x # t => Same(x))
    BY DEF SetsInvite, Same
  <1>4. /\ InvitingInv' /\ (AnsweringAt(s)' => AnsweringInv')
        /\ \A a, b \in TeamNames : Challenges(a, b) /\ a # t => RivalsAt(a, b)'
    BY <1>1, <1>3, AnswerFrame DEF Answering, Accepting, Refusing
  <1>5. AnsweringAt(s)'
    BY DEF AnsweringAt, Answering, Accepting, Refusing
  <1>6. RivalsInv'
    <2>1. ASSUME NEW b \in TeamNames, Challenges(t, b)
          PROVE  Rivals'[b] # t /\ Rivals'[t] = "NULL" /\ b # "NULL"
      <3>1. b \in Entrants /\ b # "NULL" /\ RivalsAt(t, b)
        BY <1>1, <1>2, <2>1, Apart DEF RivalsInv
      <3> QED
        BY <1>1, <1>2, <1>3, <3>1 DEF RivalsAt
    <2>2. ASSUME NEW z \in Sessions, Phases'[z] \in Answering
          PROVE  Facing'[z] # t
      <3>1. z # s /\ Phases[z] \in Answering /\ Facing'[z] = Facing[z]
        BY <2>2 DEF Others, Answering, Accepting, Refusing
      <3>2. Phases[s] \in Answering
        BY DEF Answering, Refusing
      <3> QED
        BY <1>2, <3>1, <3>2 DEF AnsweringInv
    <2>3. Free(t)'
      BY <1>1, <2>1, <2>2 DEF Free, Unheard
    <2>4. ASSUME NEW b \in TeamNames, Challenges(t, b) PROVE RivalsAt(t, b)'
      BY <2>1, <2>3, <2>4 DEF RivalsAt
    <2> QED
      BY <1>4, <2>4 DEF RivalsInv
  <1>7. AcceptInv'
    <2>1. ASSUME NEW a \in TeamNames, NEW b \in TeamNames, Paired(a, b) PROVE Paired(a, b)'
      <3>1. a \in Entrants /\ b \in Entrants /\ b # t
        BY <1>1, <2>1, Apart DEF Paired
      <3> QED
        BY <1>3, <2>1, <3>1 DEF Paired, Same
    <2> QED
      BY <1>1, <1>2, <2>1, AcceptKept DEF SetsInvite
  <1> QED
    BY <1>4, <1>5, <1>6, <1>7 DEF MatchInv

\* A step that writes to no row that counts: somebody reads one, sends a request or
\* goes away.
LEMMA QuietFrame ==
  ASSUME Hypotheses, Captains, MatchInv, NEW s \in Sessions, Others(s), SetsNothing,
         Phases[s] \in {"away", "free", "heard", "named", "accepted"},
         s \in Engaged => s \in Engaged',
         \A x \in TeamNames : StaysUnheard(s, x),
         InvitingAt(s)', AnsweringAt(s)',
         Phases'[s] \in Answering =>
           \/ Phases[s] \in Answering /\ Facing'[s] = Facing[s]
           \/ \A z \in Sessions : (z # s /\ Phases[z] \in Answering) => Facing[z] # Facing'[s],
         Phases'[s] = "heard" => \E r \in TeamNames : Paired(Captain[s], r)'
  PROVE  MatchInv'
  <1>1. RivalsInv /\ InvitingInv /\ AnsweringInv /\ AcceptInv
    BY DEF MatchInv
  <1>2. \A x \in Entrants : Same(x)
    BY DEF SetsNothing, Same
  <1>3. RivalsInv'
    <2>1. ASSUME NEW a \in TeamNames, NEW b \in TeamNames, Challenges(a, b)
          PROVE  RivalsAt(a, b)'
      <3>1. a \in Entrants /\ b \in Entrants
        BY <2>1, Apart
      <3> QED
        BY <1>1, <1>2, <2>1, <3>1, RivalsKept DEF Same
    <2> QED
      BY <2>1 DEF RivalsInv
  <1>4. InvitingInv'
    <2>1. \A z \in Sessions : z # s => InvitingAt(z)'
      BY <1>1, <1>2, InvitingKept DEF Entrants
    <2> QED
      BY <2>1 DEF InvitingInv
  <1>5. AnsweringInv'
    <2>1. ASSUME NEW z \in Sessions, z # s PROVE AnsweringAt(z)'
      <3>1. Phases[z] \in Answering =>
              Same(Captain[z]) /\ Rivals'[Facing[z]] = Rivals[Facing[z]]
        <4> SUFFICES ASSUME Phases[z] \in Answering
                     PROVE  Same(Captain[z]) /\ Rivals'[Facing[z]] = Rivals[Facing[z]]
          OBVIOUS
        <4>1. Challenges(Facing[z], Captain[z])
          BY <1>1 DEF AnsweringInv, AnsweringAt
        <4>2. Facing[z] \in Entrants /\ Captain[z] \in Entrants
          BY <4>1, ChallengerKnown DEF Entrants
        <4> QED
          BY <1>2, <4>2 DEF Same
      <3> QED
        BY <1>1, <2>1, <3>1, AnsweringKept
    <2> QED
      BY <1>1, <2>1, FacingKept
  <1>6. AcceptInv'
    <2>1. ASSUME NEW a \in TeamNames, NEW b \in TeamNames, Paired(a, b) PROVE Paired(a, b)'
      <3>1. a \in Entrants /\ b \in Entrants
        BY <2>1, Apart DEF Paired
      <3> QED
        BY <1>2, <2>1, <3>1 DEF Paired, Same
    <2>2. \A x \in Entrants : Invites'[x] = "ACCEPT" => Invites[x] = "ACCEPT"
      BY <1>2 DEF Same
    <2> QED
      BY <1>1, <2>1, <2>2, AcceptKept
  <1> QED
    BY <1>3, <1>4, <1>5, <1>6 DEF MatchInv

\* Somebody is or goes where the exchange does not touch it.
LEMMA Leaves ==
  ASSUME Hypotheses, Captains, Captains', MatchInv, NEW s \in Sessions, Others(s), SetsNothing,
         Phases[s] \in {"away", "free", "heard", "named", "accepted"},
         s \in Engaged => s \in Engaged', Phases'[s] = "away"
  PROVE  MatchInv'
  <1>1. \A x \in TeamNames : StaysUnheard(s, x)
    <2>1. \A x \in TeamNames, b \in TeamNames : Challenges(x, b) => b \in Entrants
      BY Apart
    <2> QED
      BY <2>1 DEF SetsNothing, StaysUnheard, Answering, Accepting, Refusing
  <1>2. InvitingAt(s)' /\ AnsweringAt(s)'
    BY DEF InvitingAt, AnsweringAt, Answering, Accepting, Refusing
  <1> QED
    BY <1>1, <1>2, QuietFrame DEF Answering, Accepting, Refusing

\* listen_invitation says EMPTY to a captain who may invite.
LEMMA IsFree ==
  ASSUME Hypotheses, Captains, Captains', MatchInv, NEW s \in Sessions, Others(s), SetsNothing,
         Phases[s] = "away", Phases'[s] = "free", s \in Engaged => s \in Engaged',
         NEW t \in Entrants, Captain'[s] = t, Invites[t] = "EMPTY"
  PROVE  MatchInv'
  <1>1. \A x \in TeamNames : StaysUnheard(s, x)
    <2>1. \A x \in TeamNames, b \in TeamNames : Challenges(x, b) => b \in Entrants
      BY Apart
    <2> QED
      BY <2>1 DEF SetsNothing, StaysUnheard, Answering, Accepting, Refusing
  <1>2. InvitingAt(s)' /\ AnsweringAt(s)'
    BY DEF InvitingAt, AnsweringAt, Answering, Accepting, Refusing, SetsNothing
  <1> QED
    BY <1>1, <1>2, QuietFrame DEF Answering, Accepting, Refusing

\* listen_invitation says ACCEPT.
LEMMA Hears ==
  ASSUME Hypotheses, Captains, Captains', MatchInv, NEW s \in Sessions, Others(s), SetsNothing,
         Phases[s] = "away", Phases'[s] = "heard", s \in Engaged => s \in Engaged',
         NEW t \in Entrants, Captain'[s] = t, Invites[t] = "ACCEPT"
  PROVE  MatchInv'
  <1>1. \A x \in TeamNames : StaysUnheard(s, x)
    <2>1. \A x \in TeamNames, b \in TeamNames : Challenges(x, b) => b \in Entrants
      BY Apart
    <2> QED
      BY <2>1 DEF SetsNothing, StaysUnheard, Answering, Accepting, Refusing
  <1>2. InvitingAt(s)' /\ AnsweringAt(s)'
    BY DEF InvitingAt, AnsweringAt, Answering, Accepting, Refusing
  <1>3. Asks(s, "listen_invitation", t)
    BY DEF Captains
  <1>4. \A z \in Sessions : ~Asks(z, "respond_invitation", t)
    BY <1>3, Owners DEF Entrants
  <1>5. PICK r \in TeamNames : Paired(t, r)
    BY <1>4 DEF MatchInv, AcceptInv
  <1>6. t \in Entrants /\ r \in Entrants
    BY <1>5, Apart DEF Entrants, Paired
  <1>7. Paired(Captain[s], r)'
    BY <1>5, <1>6 DEF Paired, SetsNothing
  <1> QED
    BY <1>1, <1>2, <1>7, QuietFrame DEF Answering, Accepting, Refusing

\* has_invitation names the challenger.
LEMMA IsNamed ==
  ASSUME Hypotheses, Captains, Captains', MatchInv, NEW s \in Sessions, Others(s), SetsNothing,
         Phases[s] = "away", s \in Engaged => s \in Engaged',
         NEW t \in TeamNames, NEW r \in TeamNames, Enters(s, "named", r, t),
         Challenges(t, r), Rivals[r] = t
  PROVE  MatchInv'
  <1>1. Rivals[t] = r /\ t \in Entrants /\ r \in Entrants /\ t # r /\ r # "NULL" /\ t # "NULL"
    BY Apart DEF MatchInv, RivalsInv, RivalsAt
  <1>2. \A x \in TeamNames : StaysUnheard(s, x)
    <2>1. \A x \in TeamNames, b \in TeamNames : Challenges(x, b) => b \in Entrants
      BY Apart
    <2>2. ~Unheard(t)
      BY DEF Unheard
    <2> QED
      BY <2>1, <2>2 DEF SetsNothing, StaysUnheard, Enters
  <1>3. InvitingAt(s)' /\ AnsweringAt(s)'
    BY <1>1 DEF InvitingAt, AnsweringAt, Enters, SetsNothing
  <1>4. ASSUME NEW z \in Sessions, z # s, Phases[z] \in Answering PROVE Facing[z] # t
    <2> SUFFICES ASSUME Facing[z] = t PROVE FALSE
      OBVIOUS
    <2>1. AnsweringAt(z) /\ Challenges(t, Captain[z])
      BY <1>4 DEF MatchInv, AnsweringInv, AnsweringAt
    <2>2. PICK x \in TeamNames : x = Captain[z]
      BY <2>1, ChallengerKnown
    <2>3. RivalsAt(t, x)
      BY <2>1, <2>2 DEF MatchInv, RivalsInv
    <2>4. x = r
      <3>1. CASE Phases[z] \in {"named", "accept1", "refuse1", "accept2", "accepted", "refuse2"}
        BY <1>1, <2>1, <2>2, <2>3, <3>1 DEF AnsweringAt, RivalsAt, Paired
      <3>2. CASE Phases[z] = "refuse3"
        BY <1>1, <2>1, <3>2 DEF AnsweringAt
      <3> QED
        BY <1>4, <3>1, <3>2 DEF Answering, Accepting, Refusing
    <2>5. Asks(z, "respond_invitation", r) /\ Asks(s, "respond_invitation", r)
      BY <1>4, <2>2, <2>4 DEF Captains, Answering, Accepting, Refusing, Enters
    <2> QED
      BY <1>4, <2>5, Owners
  <1> QED
    BY <1>2, <1>3, <1>4, QuietFrame DEF Enters

\* The two requests of the exchange are received.
LEMMA BeginsInvite ==
  ASSUME Hypotheses, Captains, Captains', MatchInv, NEW s \in Sessions, Others(s), SetsNothing,
         NEW t \in TeamNames, NEW r \in TeamNames, Phases[s] = "free", Captain[s] = t,
         Enters(s, "invite1", t, r)
  PROVE  MatchInv'
  <1>1. Challenges(t, r) /\ Asks(s, "send_invitation", t) /\ s \notin Engaged
    BY DEF Captains, Enters, Inviting, Accepting
  <1>2. t \in Entrants /\ Invites[t] = "EMPTY"
    BY <1>1, Apart DEF MatchInv, InvitingInv, InvitingAt
  <1>3. Free(t)
    <2>1. ASSUME NEW w \in Sessions, Phases[w] \in {"invite2", "invite3"},
                 Captain[w] = t
          PROVE  FALSE
      <3>1. Asks(w, "send_invitation", t)
        BY <2>1 DEF Captains, Inviting
      <3> QED
        BY <1>1, <2>1, <3>1, Owners
    <2> QED
      BY <1>1, <1>2, <2>1 DEF MatchInv, RivalsInv, RivalsAt
  <1>4. \A x \in TeamNames : StaysUnheard(s, x)
    <2>1. \A x \in TeamNames, b \in TeamNames : Challenges(x, b) => b \in Entrants
      BY Apart
    <2> QED
      BY <2>1 DEF SetsNothing, StaysUnheard, Enters, Answering, Accepting, Refusing
  <1>5. Free(t)' /\ Invites'[t] = "EMPTY"
    BY <1>2, <1>3, <1>4, StillUnheard DEF Free, SetsNothing
  <1>6. InvitingAt(s)' /\ AnsweringAt(s)'
    BY <1>5 DEF InvitingAt, AnsweringAt, Enters, Free, Unheard, Answering, Accepting, Refusing
  <1> QED
    BY <1>1, <1>4, <1>6, QuietFrame DEF Enters, Answering, Accepting, Refusing

LEMMA BeginsAnswer ==
  ASSUME Hypotheses, Captains, Captains', MatchInv, NEW s \in Sessions, Others(s), SetsNothing,
         NEW t \in TeamNames, NEW r \in TeamNames,
         Phases[s] = "named", Captain[s] = r, Facing[s] = t,
         Phases'[s] \in {"accept1", "refuse1"}, Captain'[s] = r, Facing'[s] = t
  PROVE  MatchInv'
  <1>1. Challenges(t, r) /\ Rivals[r] = t /\ s \notin Engaged
    BY DEF MatchInv, AnsweringInv, AnsweringAt, Captains, Answering, Accepting
  <1>2. t \in Entrants /\ r \in Entrants
    BY <1>1, Apart
  <1>3. \A x \in TeamNames : StaysUnheard(s, x)
    <2>1. \A x \in TeamNames, b \in TeamNames : Challenges(x, b) => b \in Entrants
      BY Apart
    <2> QED
      BY <2>1 DEF SetsNothing, StaysUnheard, Answering
  <1>4. InvitingAt(s)' /\ AnsweringAt(s)'
    BY <1>1, <1>2 DEF InvitingAt, AnsweringAt, SetsNothing
  <1> QED
    BY <1>1, <1>3, <1>4, QuietFrame DEF Answering

------------------------------------------------------------------------------
(* The statements of the server that write a rival or an invitation.        *)

Pairs(q) == q.op \in {"set_rival_fields", "set_invitation_fields"}

LEMMA PairFields ==
  ASSUME NEW t, NEW u, NEW v
  PROVE  /\ set_rival_fields(t, v).op = "set_rival_fields"
         /\ set_rival_fields(t, v).team = t /\ set_rival_fields(t, v).val = v
         /\ set_invitation_fields(t, v).op = "set_invitation_fields"
         /\ set_invitation_fields(t, v).team = t /\ set_invitation_fields(t, v).val = v
         /\ Pairs(set_rival_fields(t, v)) /\ Pairs(set_invitation_fields(t, v))
         /\ ~Pairs(retrieve_members_name(t)) /\ ~Pairs(retrieve_status(t, u))
         /\ ~Pairs(pack_user_data(t, u)) /\ ~Pairs(set_bullet_status(t, u, v))
         /\ ~Pairs(set_position(t, u, v)) /\ ~Pairs(set_attr(t, u))
         /\ ~Pairs(user_exists(t, u, v)) /\ ~Pairs(retrieve_field(t))
         /\ ~Pairs(retrieve_teams(t)) /\ ~Pairs(no_such_team(t))
         /\ ~Pairs(insert_team(t)) /\ ~Pairs(insert_user(t, u))
         /\ ~Pairs(retrieve_times(t, u)) /\ ~Pairs(set_times(t, u, v))
         /\ ~Pairs(set_team_status(t, v)) /\ ~Pairs(set_user_status(t, u, v))
  BY DEF Pairs, set_user_status, set_team_status,
     retrieve_members_name, retrieve_status, pack_user_data, set_bullet_status,
     set_position, set_attr, user_exists, retrieve_field, retrieve_teams, set_rival_fields,
     set_invitation_fields, no_such_team, insert_team, insert_user, retrieve_times, set_times

\* The handlers of the two invitation services.
LEMMA InviteScripts ==
  ASSUME NEW f, NEW nm
  PROVE  /\ f.svc = "send_invitation" =>
              /\ Len(Script(f, nm)) = 3
              /\ Script(f, nm)[1] = set_rival_fields(f.team, f.rival)
              /\ Script(f, nm)[2] = set_rival_fields(f.rival, f.team)
              /\ Script(f, nm)[3] = set_invitation_fields(f.team, "WAIT")
         /\ (f.svc = "respond_invitation" /\ f.word = "ACCEPT") =>
              /\ Len(Script(f, nm)) = 2
              /\ Script(f, nm)[1] = set_invitation_fields(f.team, "ACCEPT")
              /\ Script(f, nm)[2] = set_invitation_fields(f.rival, "ACCEPT")
         /\ (f.svc = "respond_invitation" /\ f.word # "ACCEPT") =>
              /\ Len(Script(f, nm)) = 3
              /\ Script(f, nm)[1] = set_rival_fields(f.team, "NULL")
              /\ Script(f, nm)[2] = set_rival_fields(f.rival, "NULL")
              /\ Script(f, nm)[3] = set_invitation_fields(f.rival, "EMPTY")
  BY DEF Script, set_rival, set_invitation_status

\* The other handlers write neither, but for a recorded result.
LEMMA OtherPairs ==
  ASSUME NEW f \in Request, NEW nm \in Namings, NEW k \in 1..Len(Script(f, nm)),
         NEW q, q = Script(f, nm)[k], Pairs(q), f.svc \notin InviteServices
  PROVE  /\ f.svc = "record_battle_result" /\ q.team = f.team
         /\ q.op = "set_rival_fields" => q.val = "NULL"
         /\ q.op = "set_invitation_fields" => q.val = "EMPTY"
  <1>1. f.svc \in Services /\ f.team \in TeamNames /\ f.rival \in TeamNames
    BY DEF Request
  <1>2. CASE f.svc \in NamingServices
    <2>1. CASE f.svc = "login"
      BY <2>1, PairFields DEF Script, set_user_online
    <2>2. CASE f.svc = "logout"
      BY <2>2, PairFields DEF Script, set_user_offline
    <2>3. CASE f.svc = "update_xy"
      BY <2>3, PairFields DEF Script, set_xy
    <2>4. CASE f.svc = "update_bullet"
      BY <2>4, PairFields DEF Script, load_bullet
    <2>5. CASE f.svc = "update_combatants_attr"
      BY <2>5, PairFields DEF Script, set_combatants_attr
    <2> QED
      BY <1>2, <2>1, <2>2, <2>3, <2>4, <2>5 DEF NamingServices
  <1>3. CASE f.svc = "check_members_status"
    <2>1. k \in 1..NMembers + 2 /\ q = CheckAt(f, nm, k)
      BY <1>3, CheckScript
    <2>2. ~Pairs(CheckAt(f, nm, k))
      BY PairFields, SMTT(30) DEF CheckAt
    <2> QED
      BY <2>1, <2>2
  <1>4. CASE f.svc = "summon"
    <2>1. k \in 1..2 * NMembers + 2 /\ q = SummonAt(f, nm, k)
      BY <1>4, SummonScript
    <2> QED
      BY <2>1, PairFields DEF SummonAt
  <1>5. CASE f.svc = "get_battle_data"
    <2> DEFINE n == 2 * NMembers + 1
    <2>1. /\ \A j \in 1..n : /\ Script(f, nm)[j] = PackAt(f.team, nm, j)
                             /\ Script(f, nm)[n + j] = PackAt(f.rival, nm, j)
          /\ n \in Nat /\ k \in 1..n + n
      BY <1>5, BattleDataScript, NMembersAssumption
    <2>2. \A t, j : ~Pairs(PackAt(t, nm, j))
      BY PairFields DEF PackAt
    <2>3. k \in 1..n \/ (k - n \in 1..n /\ n + (k - n) = k)
      BY <2>1
    <2> QED
      BY <2>1, <2>2, <2>3
  <1>6. CASE f.svc = "get_combatants_attr"
    <2> DEFINE n == NMembers + 1
    <2>1. /\ \A j \in 1..n : /\ Script(f, nm)[j] = AttrAt(f.team, nm, j)
                             /\ Script(f, nm)[n + j] = AttrAt(f.rival, nm, j)
          /\ n \in Nat /\ k \in 1..n + n
      BY <1>6, AttrScript, NMembersAssumption
    <2>2. \A t, j : ~Pairs(AttrAt(t, nm, j))
      BY PairFields DEF AttrAt
    <2>3. k \in 1..n \/ (k - n \in 1..n /\ n + (k - n) = k)
      BY <2>1
    <2> QED
      BY <2>1, <2>2, <2>3
  <1>7. CASE f.svc = "register"
    <2>1. k \in 1..NMembers + 2 /\ (k = 1 \/ k = 2 \/ k - 2 \in 1..NMembers)
      BY <1>7, RegisterScript, NMembersAssumption
    <2>2. \A i \in 1..NMembers : Script(f, nm)[i + 2] = insert_user(f, i)
      BY <1>7, RegisterScript
    <2>3. k - 2 \in 1..NMembers => q = insert_user(f, k - 2)
      <3>1. k - 2 + 2 = k
        BY <2>1
      <3> QED
        BY <2>2, <3>1
    <2>4. q \in {no_such_team(f.team), insert_team(f)} \/ q = insert_user(f, k - 2)
      BY <1>7, <2>1, <2>3, RegisterScript
    <2> QED
      BY <2>4 DEF Pairs, no_such_team, insert_team, insert_user
  <1>8. CASE f.svc = "record_battle_result"
    <2>1. k \in 1..7
      BY <1>8, RecordScript
    <2>2. q \in {set_rival_fields(f.team, "NULL"), set_invitation_fields(f.team, "EMPTY")}
      BY <1>8, <2>1, PairFields DEF Script, update_battle_result
    <2> QED
      BY <1>8, <2>2, PairFields
  <1>9. CASE f.svc \in {"get_team_list", "has_battle", "get_rival_name", "has_invitation",
                        "listen_invitation"}
    <2>1. CASE f.svc = "get_team_list"
      BY <2>1, PairFields DEF Script, query_team_list
    <2>2. CASE f.svc \in {"get_rival_name", "has_invitation", "listen_invitation", "has_battle"}
      <3>1. Script(f, nm) \in {<<retrieve_field(f.team)>>, <<retrieve_status(f.team, f.who)>>}
        BY <2>2 DEF Script
      <3>2. q \in {retrieve_field(f.team), retrieve_status(f.team, f.who)}
        BY <3>1
      <3> QED
        BY <3>2, PairFields
    <2> QED
      BY <1>9, <2>1, <2>2
  <1> QED
    BY <1>1, <1>2, <1>3, <1>4, <1>5, <1>6, <1>7, <1>8, <1>9
       DEF Services, NamingServices, InviteServices

\* What a statement leaves in the two columns of a row.
RivalAfter(q, row) ==
  IF q.op = "set_rival_fields" /\ q.team = row.name THEN q.val ELSE row.rival
InvitationAfter(q, row) ==
  IF q.op = "set_invitation_fields" /\ q.team = row.name THEN q.val ELSE row.invitation

LEMMA InviteColumns ==
  ASSUME TypeInv, NEW s \in Sessions, Work(s), linked[s], NEW i \in DOMAIN teams
  PROVE  /\ i \in DOMAIN teams'
         /\ teams'[i].rival = RivalAfter(Statement(s), teams[i])
         /\ teams'[i].invitation = InvitationAfter(Statement(s), teams[i])
  <1>1. teams \in Seq(TeamRow) /\ \A j \in DOMAIN teams : teams[j] \in TeamRow
    BY TableTypes
  <1>2. i \in DOMAIN teams'
    BY TeamsRemain
  <1> DEFINE q == Statement(s)
  <1>3. CASE WriteTeam(s)
    <2>1. CASE q.op = "set_team_status"
                 /\ UpdateTeams(q.team, LAMBDA r : [r EXCEPT !.status = q.val])
      <3>1. teams' = [j \in DOMAIN teams |->
              IF TeamNamed(j, q.team) THEN [teams[j] EXCEPT !.status = q.val] ELSE teams[j]]
        BY <2>1 DEF UpdateTeams
      <3> QED
        BY <1>1, <1>2, <2>1, <3>1 DEF TeamRow, RivalAfter, InvitationAfter
    <2>2. CASE q.op = "set_rival_fields"
                 /\ UpdateTeams(q.team, LAMBDA r : [r EXCEPT !.rival = q.val])
      <3>1. teams' = [j \in DOMAIN teams |->
              IF TeamNamed(j, q.team) THEN [teams[j] EXCEPT !.rival = q.val] ELSE teams[j]]
        BY <2>2 DEF UpdateTeams
      <3> QED
        BY <1>1, <1>2, <2>2, <3>1 DEF TeamRow, TeamNamed, RivalAfter, InvitationAfter
    <2>3. CASE q.op = "set_invitation_fields"
                 /\ UpdateTeams(q.team, LAMBDA r : [r EXCEPT !.invitation = q.val])
      <3>1. teams' = [j \in DOMAIN teams |->
              IF TeamNamed(j, q.team) THEN [teams[j] EXCEPT !.invitation = q.val] ELSE teams[j]]
        BY <2>3 DEF UpdateTeams
      <3> QED
        BY <1>1, <1>2, <2>3, <3>1 DEF TeamRow, TeamNamed, RivalAfter, InvitationAfter
    <2> QED
      BY <1>3, <2>1, <2>2, <2>3 DEF WriteTeam
  <1>4. CASE ~WriteTeam(s)
    <2>1. q.op \notin {"set_rival_fields", "set_invitation_fields"}
      BY <1>4 DEF Work, QueryFails, RowMissing, NoSuchTeam, UserExists, RetrieveMembersName,
         RetrieveStatus, RetrieveField, RetrieveTeams, RetrieveTimes, PackUserData,
         InsertTeam, InsertUser, WriteUser, SetTimes, Issues
    <2>2. teams'[i].rival = teams[i].rival /\ teams'[i].invitation = teams[i].invitation
      <3>1. CASE SetTimes(s)
        <4> DEFINE n == times[s] + q.more
        <4>1. CASE UpdateTeams(q.team, LAMBDA r : [r EXCEPT !.vs_times = n])
          <5>1. teams' = [j \in DOMAIN teams |->
                  IF TeamNamed(j, q.team) THEN [teams[j] EXCEPT !.vs_times = n] ELSE teams[j]]
            BY <4>1 DEF UpdateTeams
          <5> HIDE DEF n
          <5> QED
            BY <1>1, <1>2, <5>1 DEF TeamRow
        <4>2. CASE UpdateTeams(q.team, LAMBDA r : [r EXCEPT !.win_times = n])
          <5>1. teams' = [j \in DOMAIN teams |->
                  IF TeamNamed(j, q.team) THEN [teams[j] EXCEPT !.win_times = n] ELSE teams[j]]
            BY <4>2 DEF UpdateTeams
          <5> HIDE DEF n
          <5> QED
            BY <1>1, <1>2, <5>1 DEF TeamRow
        <4> QED
          BY <3>1, <4>1, <4>2 DEF SetTimes
      <3>2. CASE InsertTeam(s)
        BY <1>1, <3>2, InsertTeamFounds DEF Founds
      <3>3. CASE ~(SetTimes(s) \/ InsertTeam(s))
        <4>1. teams' = teams
          BY <1>4, <3>3 DEF Work, QueryFails, RowMissing, NoSuchTeam, UserExists,
             RetrieveMembersName, RetrieveStatus, RetrieveField, RetrieveTeams, RetrieveTimes,
             PackUserData, InsertUser, WriteUser, tables
        <4> QED
          BY <4>1
      <3> QED
        BY <3>1, <3>2, <3>3
    <2> QED
      BY <1>2, <2>1, <2>2 DEF RivalAfter, InvitationAfter
  <1> QED
    BY <1>3, <1>4

------------------------------------------------------------------------------
(* Where the sessions of the server are in the exchange.                    *)

\* A phase, of a session that serves an invitation and of one that waits.
LEMMA ServingPhase ==
  ASSUME TypeInv, NEW s \in Sessions, Serving(s)
  PROVE  /\ req[s].svc = "send_invitation" =>
              step[s] \in 1..3 /\ PhaseOf(s) = <<"invite1", "invite2", "invite3">>[step[s]]
         /\ Accepts(req[s]) =>
              step[s] \in 1..2 /\ PhaseOf(s) = <<"accept1", "accept2">>[step[s]]
         /\ (req[s].svc = "respond_invitation" /\ ~Accepts(req[s])) =>
              step[s] \in 1..3 /\ PhaseOf(s) = <<"refuse1", "refuse2", "refuse3">>[step[s]]
         /\ req[s].svc \notin InviteServices => PhaseOf(s) = "away"
  <1>1. step[s] \in 1..Len(Script(req[s], names[s]))
    BY DEF TypeInv, Control, Current
  <1>2. pc[s] # "recv"
    BY DEF Serving
  <1>3. CASE req[s].svc = "send_invitation"
    <2>1. step[s] \in 1..3
      BY <1>1, <1>3, InviteScripts
    <2> QED
      BY <1>2, <1>3, <2>1 DEF PhaseOf, Accepts, InviteServices
  <1>4. CASE Accepts(req[s])
    <2>1. req[s].svc = "respond_invitation" /\ req[s].word = "ACCEPT"
      BY <1>4 DEF Accepts
    <2>2. Len(Script(req[s], names[s])) = 2
      BY <2>1, InviteScripts
    <2>3. step[s] \in 1..2
      BY <1>1, <2>2
    <2>4. PhaseOf(s) = <<"accept1", "accept2">>[step[s]]
      BY <1>2, <1>4, <2>1 DEF PhaseOf
    <2> QED
      BY <1>4, <2>1, <2>3, <2>4 DEF InviteServices
  <1>5. CASE req[s].svc = "respond_invitation" /\ ~Accepts(req[s])
    <2>1. req[s].word # "ACCEPT"
      BY <1>5 DEF Accepts
    <2>2. Len(Script(req[s], names[s])) = 3
      BY <1>5, <2>1, InviteScripts
    <2>3. step[s] \in 1..3
      BY <1>1, <2>2
    <2>4. PhaseOf(s) = <<"refuse1", "refuse2", "refuse3">>[step[s]]
      BY <1>2, <1>5, <2>1 DEF PhaseOf
    <2> QED
      BY <1>5, <2>3, <2>4 DEF InviteServices
  <1>6. CASE req[s].svc \notin InviteServices
    BY <1>2, <1>6 DEF PhaseOf, Accepts, InviteServices
  <1> QED
    BY <1>3, <1>4, <1>5, <1>6 DEF Accepts, InviteServices

LEMMA WaitingPhase ==
  ASSUME NEW s \in Sessions, ~Serving(s)
  PROVE  /\ pc[s] # "recv" => PhaseOf(s) = "away"
         /\ (pc[s] = "recv" /\ Accepts(req[s])) => PhaseOf(s) = "accepted"
         /\ (pc[s] = "recv" /\ Heard(s, "listen_invitation", "EMPTY")) =>
              PhaseOf(s) = IF Asks(s, "send_invitation", req[s].team) THEN "free" ELSE "away"
         /\ (pc[s] = "recv" /\ Heard(s, "listen_invitation", "ACCEPT")) => PhaseOf(s) = "heard"
         /\ (pc[s] = "recv" /\ req[s].svc = "has_invitation") =>
              PhaseOf(s) = IF /\ Heard(s, "has_invitation", reply[s].word)
                              /\ reply[s].word \in TeamNames
                              /\ Asks(s, "respond_invitation", req[s].team)
                           THEN "named" ELSE "away"
         /\ (req[s].svc \notin {"listen_invitation", "has_invitation"} /\ ~Accepts(req[s])) =>
              PhaseOf(s) = "away"
         /\ (req[s].svc = "listen_invitation" /\ ~Heard(s, "listen_invitation", "EMPTY")
               /\ ~Heard(s, "listen_invitation", "ACCEPT")) => PhaseOf(s) = "away"
  BY DEF PhaseOf, Accepts, Heard

LEMMA CaptainsKnown ==
  ASSUME TypeInv, ClientInv
  PROVE  Captains
  <1> SUFFICES ASSUME NEW s \in Sessions, PhaseOf(s) # "away"
      PROVE  /\ PhaseOf(s) \in Inviting \cup Answering \cup {"free", "heard"}
             /\ Captain[s] \in TeamNames
             /\ PhaseOf(s) \in Inviting =>
                  Facing[s] \in TeamNames /\ Challenges(Captain[s], Facing[s])
             /\ PhaseOf(s) \in Inviting \cup {"free"} =>
                  Captain[s] \in Entrants /\ Asks(s, "send_invitation", Captain[s])
             /\ PhaseOf(s) \in Answering =>
                  Facing[s] \in TeamNames /\ Asks(s, "respond_invitation", Captain[s])
             /\ PhaseOf(s) = "heard" => Asks(s, "listen_invitation", Captain[s])
             /\ s \in Engaged <=> PhaseOf(s) \in Accepting
    BY DEF Captains, Phases
  <1>1. Captain[s] = req[s].team
    BY DEF Captain
  <1>2. PhaseOf(s) # "named" => Facing[s] = req[s].rival
    BY DEF Facing
  <1>3. s \in Engaged <=> Accepts(req[s]) \/ req[s].svc \in BattleServices
    BY DEF Engaged, Settled
  <1>4. req[s].svc \in InviteServices \cup {"listen_invitation", "has_invitation"}
    BY ServingPhase, WaitingPhase DEF Accepts, InviteServices
  <1>5. /\ req[s] \in Requests[s] /\ req[s] \in Request
        /\ req[s].team \in TeamNames /\ req[s].rival \in TeamNames
        /\ Asks(s, req[s].svc, req[s].team)
    <2>1. req[s] \in Requests[s]
      BY <1>4 DEF ClientInv, NoRequest, InviteServices
    <2> QED
      BY <2>1, RequestsAssumption DEF Request, Asks
  <1>6. req[s].svc = "send_invitation" => Challenges(req[s].team, req[s].rival)
    BY <1>5 DEF Challenges
  <1>7. \A t : Asks(s, "send_invitation", t) => t \in Entrants
    <2> SUFFICES ASSUME NEW t, Asks(s, "send_invitation", t) PROVE t \in Entrants
      OBVIOUS
    <2>1. PICK r : Challenges(t, r)
      BY DEF Asks, Challenges
    <2> QED
      BY <2>1, ChallengerKnown DEF Entrants
  <1>8. CASE Serving(s)
    <2>1. CASE req[s].svc = "send_invitation"
      <3>1. PhaseOf(s) \in Inviting /\ PhaseOf(s) \notin Answering \cup {"free", "heard"}
        BY <1>8, <2>1, ServingPhase DEF Inviting, Answering, Accepting, Refusing
      <3>2. s \notin Engaged
        BY <1>3, <2>1 DEF Accepts, BattleServices
      <3> QED
        BY <1>1, <1>2, <1>5, <1>6, <1>7, <2>1, <3>1, <3>2 DEF Answering
    <2>2. CASE Accepts(req[s])
      <3>1. PhaseOf(s) \in {"accept1", "accept2"}
        BY <1>8, <2>2, ServingPhase
      <3>2. PhaseOf(s) \in Answering /\ PhaseOf(s) \in Accepting /\ PhaseOf(s) # "named"
            /\ PhaseOf(s) \notin Inviting \cup {"free", "heard"}
        BY <3>1 DEF Inviting, Answering, Accepting, Refusing
      <3>3. s \in Engaged /\ req[s].svc = "respond_invitation"
        BY <1>3, <2>2 DEF Accepts
      <3> QED
        BY <1>1, <1>2, <1>5, <3>2, <3>3
    <2>3. CASE req[s].svc = "respond_invitation" /\ ~Accepts(req[s])
      <3>1. PhaseOf(s) \in Refusing
        BY <1>8, <2>3, ServingPhase DEF Refusing
      <3>2. PhaseOf(s) \in Answering /\ PhaseOf(s) \notin Accepting /\ PhaseOf(s) # "named"
            /\ PhaseOf(s) \notin Inviting \cup {"free", "heard"}
        BY <3>1 DEF Inviting, Answering, Accepting, Refusing
      <3>3. s \notin Engaged
        BY <1>3, <2>3 DEF BattleServices
      <3> QED
        BY <1>1, <1>2, <1>5, <2>3, <3>2, <3>3
    <2> QED
      BY <1>8, <2>1, <2>2, <2>3, ServingPhase DEF InviteServices
  <1>9. CASE ~Serving(s)
    <2>1. CASE Accepts(req[s])
      <3>1. PhaseOf(s) = "accepted"
        BY <1>9, <2>1, WaitingPhase
      <3>2. PhaseOf(s) \in Answering /\ PhaseOf(s) \in Accepting /\ PhaseOf(s) # "named"
            /\ PhaseOf(s) \notin Inviting \cup {"free", "heard"}
        BY <3>1 DEF Inviting, Answering, Accepting, Refusing
      <3>3. s \in Engaged /\ req[s].svc = "respond_invitation"
        BY <1>3, <2>1 DEF Accepts
      <3> QED
        BY <1>1, <1>2, <1>5, <3>2, <3>3
    <2>2. CASE ~Accepts(req[s])
      <3>1. \/ /\ PhaseOf(s) = "free" /\ req[s].svc = "listen_invitation"
               /\ Asks(s, "send_invitation", req[s].team)
            \/ PhaseOf(s) = "heard" /\ req[s].svc = "listen_invitation"
            \/ /\ PhaseOf(s) = "named" /\ reply[s].word \in TeamNames
               /\ Asks(s, "respond_invitation", req[s].team) /\ req[s].svc = "has_invitation"
        BY <1>9, <2>2, WaitingPhase DEF Heard
      <3>2. s \notin Engaged
        BY <1>3, <2>2, <3>1 DEF BattleServices
      <3>3. PhaseOf(s) = "named" => Facing[s] = reply[s].word
        BY DEF Facing
      <3> QED
        BY <1>1, <1>5, <1>7, <3>1, <3>2, <3>3 DEF Inviting, Answering, Accepting, Refusing
    <2> QED
      BY <2>1, <2>2
  <1> QED
    BY <1>8, <1>9

------------------------------------------------------------------------------
(* The rows of the teams that take part.                                    *)

LEMMA EntrantRow ==
  ASSUME Hypotheses, NEW t \in Entrants
  PROVE  /\ Row(t) \in DOMAIN Teams0 /\ Teams0[Row(t)].name = t
         /\ \A j \in DOMAIN Teams0 : Teams0[j].name = t => j = Row(t)
  <1>1. \E i \in DOMAIN Teams0 : Teams0[i].name = t
    BY DEF Entrants, Hypotheses, ChallengesApart
  <1> QED
    BY <1>1, TablesAssumption DEF Row

LEMMA EntrantFirst ==
  ASSUME Hypotheses, TypeInv, RowsInv, NEW t \in Entrants
  PROVE  /\ Row(t) \in DOMAIN teams /\ teams[Row(t)].name = t /\ FirstTeam(Row(t), t)
         /\ \A i : FirstTeam(i, t) => i = Row(t)
  <1>1. /\ Row(t) \in DOMAIN Teams0 /\ Teams0[Row(t)].name = t
        /\ \A j \in DOMAIN Teams0 : Teams0[j].name = t => j = Row(t)
    BY EntrantRow
  <1>2. Row(t) \in DOMAIN teams /\ teams[Row(t)].name = t
    BY <1>1 DEF RowsInv
  <1>3. /\ DOMAIN Teams0 = 1..Len(Teams0) /\ Len(Teams0) \in Nat
        /\ DOMAIN teams = 1..Len(teams) /\ Len(teams) \in Nat
    BY TablesAssumption, TableTypes
  <1>4. ASSUME NEW j \in DOMAIN teams, teams[j].name = t PROVE Row(t) <= j
    <2>1. CASE j \in DOMAIN Teams0
      BY <1>1, <1>3, <1>4, <2>1 DEF RowsInv
    <2>2. CASE j \notin DOMAIN Teams0
      BY <1>1, <1>3, <2>2
    <2> QED
      BY <2>1, <2>2
  <1>5. FirstTeam(Row(t), t)
    BY <1>2, <1>4 DEF FirstTeam, TeamNamed
  <1> QED
    BY <1>2, <1>5, FirstUnique

\* What a statement leaves of the entrants' rivals and invitations.
LEMMA EntrantColumns ==
  ASSUME Hypotheses, TypeInv, RowsInv, NEW s \in Sessions, Work(s), linked[s],
         NEW q, q = Statement(s), NEW t \in Entrants
  PROVE  /\ Rivals'[t] = IF q.op = "set_rival_fields" /\ q.team = t THEN q.val ELSE Rivals[t]
         /\ Invites'[t] = IF q.op = "set_invitation_fields" /\ q.team = t
                          THEN q.val ELSE Invites[t]
  <1>1. PICK i \in DOMAIN teams : i = Row(t) /\ teams[i].name = t
    BY EntrantFirst
  <1>2. Rivals[t] = teams[i].rival /\ Invites[t] = teams[i].invitation
    BY <1>1 DEF Rivals, Invites
  <1>3. Rivals'[t] = teams'[i].rival /\ Invites'[t] = teams'[i].invitation
    BY <1>1 DEF Rivals, Invites
  <1> QED
    BY <1>1, <1>2, <1>3, InviteColumns DEF RivalAfter, InvitationAfter

\* The statements of the other services concern no entrant.
LEMMA OthersSetNothing ==
  ASSUME Hypotheses, TypeInv, ClientInv, RowsInv, NEW s \in Sessions, Work(s),
         req[s].svc \notin InviteServices
  PROVE  SetsNothing
  <1>1. linked[s] /\ Serving(s)
    BY WorkMoves DEF ClientInv
  <1>2. req[s] \in Request /\ names[s] \in Namings
    BY <1>1, StatementType
  <1>3. req[s] \in Requests[s]
    BY <1>2 DEF ClientInv, Request, NoRequest, Services
  <1>4. /\ step[s] \in 1..Len(Script(req[s], names[s]))
        /\ Statement(s) = Script(req[s], names[s])[step[s]]
    BY <1>1 DEF TypeInv, Control, Current, Statement
  <1>5. ASSUME NEW t \in Entrants
        PROVE  Rivals'[t] = Rivals[t] /\ Invites'[t] = Invites[t]
    <2>1. ~Asks(s, "record_battle_result", t)
      BY DEF Entrants, Hypotheses, ChallengesApart
    <2>2. Pairs(Statement(s)) => Statement(s).team # t
      BY <1>2, <1>3, <1>4, <2>1, OtherPairs DEF Asks
    <2> QED
      BY <1>1, <2>2, EntrantColumns DEF Pairs
  <1> QED
    BY <1>5 DEF SetsNothing

------------------------------------------------------------------------------
(* The statements of send_invitation and respond_invitation.                *)

\* A session that does nothing stays where it is in the exchange.
LEMMA SamePlace ==
  ASSUME NEW z \in Sessions, pc'[z] = pc[z], step'[z] = step[z], req'[z] = req[z],
         reply'[z] = reply[z]
  PROVE  /\ Phases'[z] = Phases[z] /\ Captain'[z] = Captain[z] /\ Facing'[z] = Facing[z]
         /\ z \in Engaged' <=> z \in Engaged
  <1>1. PhaseOf(z)' = PhaseOf(z)
    BY DEF PhaseOf, Serving, Accepts, Heard, Asks
  <1> QED
    BY <1>1 DEF Phases, Captain, Facing, Engaged, Settled, Accepts

LEMMA WorkOthers ==
  ASSUME TypeInv, NEW s \in Sessions, Work(s)
  PROVE  Others(s)
  <1>1. ASSUME NEW z \in Sessions, z # s
        PROVE  /\ Phases'[z] = Phases[z] /\ Captain'[z] = Captain[z] /\ Facing'[z] = Facing[z]
               /\ z \in Engaged' <=> z \in Engaged
    <2>1. reply'[z] = reply[z]
      BY <1>1, WorkMoves DEF Moves
    <2> QED
      BY <1>1, <2>1, OthersKept, SamePlace
  <1> QED
    BY <1>1 DEF Others

\* They succeed, one after the other, and the client is answered.
LEMMA InviteWork ==
  ASSUME TypeInv, ClientInv, NEW s \in Sessions, Work(s), req[s].svc \in InviteServices
  PROVE  /\ Serving(s) /\ linked[s] /\ req'[s] = req[s]
         /\ step[s] < Len(Current(s)) => pc'[s] = "query" /\ step'[s] = step[s] + 1
         /\ ~(step[s] < Len(Current(s))) => pc'[s] = "recv"
  <1>1. Serving(s) /\ linked[s] /\ req'[s] = req[s]
    BY WorkMoves DEF ClientInv, Moves, SameSession
  <1>2. /\ step[s] \in 1..Len(Script(req[s], names[s]))
        /\ Statement(s) = Script(req[s], names[s])[step[s]]
    BY <1>1 DEF TypeInv, Control, Current, Statement
  <1>3. Pairs(Statement(s))
    <2>1. CASE req[s].svc = "send_invitation"
      <3>1. step[s] \in 1..3
        BY <1>2, <2>1, InviteScripts
      <3>2. Statement(s) \in {set_rival_fields(req[s].team, req[s].rival),
                             set_rival_fields(req[s].rival, req[s].team),
                             set_invitation_fields(req[s].team, "WAIT")}
        BY <1>2, <2>1, <3>1, InviteScripts
      <3> QED
        BY <3>2, PairFields
    <2>2. CASE req[s].svc = "respond_invitation" /\ req[s].word = "ACCEPT"
      <3>1. step[s] \in 1..2
        BY <1>2, <2>2, InviteScripts
      <3>2. Statement(s) \in {set_invitation_fields(req[s].team, "ACCEPT"),
                             set_invitation_fields(req[s].rival, "ACCEPT")}
        BY <1>2, <2>2, <3>1, InviteScripts
      <3> QED
        BY <3>2, PairFields
    <2>3. CASE req[s].svc = "respond_invitation" /\ req[s].word # "ACCEPT"
      <3>1. step[s] \in 1..3
        BY <1>2, <2>3, InviteScripts
      <3>2. Statement(s) \in {set_rival_fields(req[s].team, "NULL"),
                             set_rival_fields(req[s].rival, "NULL"),
                             set_invitation_fields(req[s].rival, "EMPTY")}
        BY <1>2, <2>3, <3>1, InviteScripts
      <3> QED
        BY <3>2, PairFields
    <2> QED
      BY <2>1, <2>2, <2>3 DEF InviteServices
  <1>4. WriteTeam(s)
    BY <1>1, <1>3 DEF Work, QueryFails, RowMissing, NoSuchTeam, UserExists, RetrieveMembersName,
       RetrieveStatus, RetrieveField, RetrieveTeams, RetrieveTimes, PackUserData,
       InsertTeam, InsertUser, WriteUser, SetTimes, Issues, Pairs
  <1>5. Advance(s) /\ DOMAIN pc = Sessions /\ DOMAIN step = Sessions
    BY <1>4 DEF WriteTeam, TypeInv, TypeOK
  <1>6. step[s] < Len(Current(s)) => pc'[s] = "query" /\ step'[s] = step[s] + 1
    BY <1>1, <1>5 DEF Advance, Serving
  <1>7. ASSUME ~(step[s] < Len(Current(s))) PROVE pc'[s] = "recv"
    <2>1. req[s].svc \notin Listing /\ req[s].svc # "logout"
      BY DEF InviteServices, Listing
    <2>2. Answer(s, "200", "", {})
      BY <1>5, <1>7, <2>1 DEF Advance, Succeed
    <2> QED
      BY <1>5, <2>1, <2>2 DEF Answer
  <1> QED
    BY <1>1, <1>6, <1>7

\* What they write of the entrants.
LEMMA WritesRival ==
  ASSUME Hypotheses, TypeInv, RowsInv, NEW s \in Sessions, Work(s), linked[s],
         NEW t, NEW v, Statement(s) = set_rival_fields(t, v)
  PROVE  SetsRival(t, v)
  <1>1. /\ Statement(s).op = "set_rival_fields" /\ Statement(s).team = t /\ Statement(s).val = v
    BY DEF set_rival_fields
  <1> QED
    BY <1>1, EntrantColumns DEF SetsRival

LEMMA WritesInvite ==
  ASSUME Hypotheses, TypeInv, RowsInv, NEW s \in Sessions, Work(s), linked[s],
         NEW t, NEW v, Statement(s) = set_invitation_fields(t, v)
  PROVE  SetsInvite(t, v)
  <1>1. /\ Statement(s).op = "set_invitation_fields" /\ Statement(s).team = t
        /\ Statement(s).val = v
    BY DEF set_invitation_fields
  <1> QED
    BY <1>1, EntrantColumns DEF SetsInvite

\* Where a session that serves an invitation stands.
LEMMA ServingPlace ==
  ASSUME NEW s \in Sessions, NEW p, PhaseOf(s) = p, p # "away", p # "named"
  PROVE  Phases[s] = p /\ Captain[s] = req[s].team /\ Facing[s] = req[s].rival
  BY DEF Phases, Captain, Facing

LEMMA SendStep ==
  ASSUME Hypotheses, TypeInv, TypeInv', ClientInv, RowsInv, Captains, Captains', MatchInv,
         NEW s \in Sessions, Work(s), req[s].svc = "send_invitation"
  PROVE  MatchInv'
  <1>1. /\ Serving(s) /\ linked[s] /\ req'[s] = req[s] /\ Others(s)
        /\ step[s] < Len(Current(s)) => pc'[s] = "query" /\ step'[s] = step[s] + 1
        /\ ~(step[s] < Len(Current(s))) => pc'[s] = "recv"
    BY InviteWork, WorkOthers DEF InviteServices
  <1>2. /\ Len(Current(s)) = 3 /\ Current(s)[1] = set_rival_fields(req[s].team, req[s].rival)
        /\ Current(s)[2] = set_rival_fields(req[s].rival, req[s].team)
        /\ Current(s)[3] = set_invitation_fields(req[s].team, "WAIT")
    BY InviteScripts DEF Current
  <1>3. /\ step[s] \in 1..3 /\ PhaseOf(s) = <<"invite1", "invite2", "invite3">>[step[s]]
        /\ Statement(s) = Current(s)[step[s]]
    BY <1>1, ServingPhase DEF Statement
  <1>4. PICK t \in TeamNames, r \in TeamNames : t = req[s].team /\ r = req[s].rival
    BY <1>1, StatementType DEF Request
  <1>5. Captain[s] = t /\ Facing[s] = r /\ Phases[s] = PhaseOf(s)
    BY <1>3, <1>4, ServingPlace
  <1>6. ASSUME step[s] < 3
        PROVE  /\ Phases'[s] = <<"invite1", "invite2", "invite3">>[step[s] + 1]
               /\ Captain'[s] = t /\ Facing'[s] = r
    <2>1. /\ Serving(s)' /\ req'[s].svc = "send_invitation"
          /\ step'[s] = step[s] + 1
      BY <1>1, <1>2, <1>6 DEF Serving
    <2>2. PhaseOf(s)' = <<"invite1", "invite2", "invite3">>[step'[s]]
      BY <2>1 DEF PhaseOf, Serving, Accepts
    <2> QED
      BY <1>1, <1>3, <1>4, <1>6, <2>1, <2>2 DEF Phases, Captain, Facing
  <1>7. CASE step[s] = 1
    <2>1. SetsRival(t, r)
      BY <1>1, <1>2, <1>3, <1>4, <1>7, WritesRival
    <2> QED
      BY <1>1, <1>3, <1>5, <1>6, <1>7, <2>1, NamesRival DEF Enters
  <1>8. CASE step[s] = 2
    <2>1. SetsRival(r, t)
      BY <1>1, <1>2, <1>3, <1>4, <1>8, WritesRival
    <2> QED
      BY <1>1, <1>3, <1>5, <1>6, <1>8, <2>1, NamesBack DEF Enters
  <1>9. CASE step[s] = 3
    <2>1. SetsInvite(t, "WAIT")
      BY <1>1, <1>2, <1>3, <1>4, <1>9, WritesInvite
    <2>2. Phases'[s] = "away"
      <3>1. pc'[s] = "recv" /\ req'[s].svc = "send_invitation"
        BY <1>1, <1>2, <1>9
      <3> QED
        BY <3>1 DEF PhaseOf, Phases, Serving, Accepts, Heard
    <2> QED
      BY <1>1, <1>3, <1>5, <1>9, <2>1, <2>2, Waits
  <1> QED
    BY <1>3, <1>7, <1>8, <1>9

\* Where the answer of a captain goes on, and where it ends.
LEMMA AnswerGoesOn ==
  ASSUME TypeInv, NEW s \in Sessions, req'[s] = req[s],
         req[s].svc = "respond_invitation"
  PROVE  /\ (Accepts(req[s]) /\ pc'[s] = "query") =>
              /\ PhaseOf(s)' = <<"accept1", "accept2">>[step'[s]]
         /\ (~Accepts(req[s]) /\ pc'[s] = "query") =>
              /\ PhaseOf(s)' = <<"refuse1", "refuse2", "refuse3">>[step'[s]]
         /\ (Accepts(req[s]) /\ pc'[s] = "recv") => PhaseOf(s)' = "accepted"
         /\ (~Accepts(req[s]) /\ pc'[s] = "recv") => PhaseOf(s)' = "away"
         /\ PhaseOf(s)' \notin {"away", "named"} =>
              /\ Phases'[s] = PhaseOf(s)' /\ Captain'[s] = req[s].team
              /\ Facing'[s] = req[s].rival
  BY DEF PhaseOf, Phases, Captain, Facing, Serving, Accepts, Heard

LEMMA AcceptStep ==
  ASSUME Hypotheses, TypeInv, TypeInv', ClientInv, RowsInv, Captains, Captains', MatchInv,
         NEW s \in Sessions, Work(s), req[s].svc = "respond_invitation", Accepts(req[s])
  PROVE  MatchInv'
  <1>1. /\ Serving(s) /\ linked[s] /\ req'[s] = req[s] /\ Others(s)
        /\ step[s] < Len(Current(s)) => pc'[s] = "query" /\ step'[s] = step[s] + 1
        /\ ~(step[s] < Len(Current(s))) => pc'[s] = "recv"
    BY InviteWork, WorkOthers DEF InviteServices
  <1>2. /\ Len(Current(s)) = 2 /\ Current(s)[1] = set_invitation_fields(req[s].team, "ACCEPT")
        /\ Current(s)[2] = set_invitation_fields(req[s].rival, "ACCEPT")
    <2>1. req[s].svc = "respond_invitation" /\ req[s].word = "ACCEPT"
      BY DEF Accepts
    <2> QED
      BY <2>1, InviteScripts DEF Current
  <1>3. /\ step[s] \in 1..2 /\ PhaseOf(s) = <<"accept1", "accept2">>[step[s]]
        /\ Statement(s) = Current(s)[step[s]]
    BY <1>1, ServingPhase DEF Statement
  <1>4. PICK t \in TeamNames, r \in TeamNames : r = req[s].team /\ t = req[s].rival
    BY <1>1, StatementType DEF Request
  <1>5. Captain[s] = r /\ Facing[s] = t /\ Phases[s] = PhaseOf(s)
    BY <1>3, <1>4, ServingPlace
  <1>6. CASE step[s] = 1
    <2>1. PhaseOf(s)' = "accept2"
      BY <1>1, <1>2, <1>6, AnswerGoesOn
    <2>2. Phases'[s] = "accept2" /\ Captain'[s] = r /\ Facing'[s] = t
      BY <1>1, <1>4, <2>1, AnswerGoesOn
    <2>3. SetsInvite(r, "ACCEPT")
      BY <1>1, <1>2, <1>3, <1>4, <1>6, WritesInvite
    <2> QED
      BY <1>1, <1>3, <1>5, <1>6, <2>2, <2>3, AcceptsOwn DEF Enters
  <1>7. CASE step[s] = 2
    <2>1. PhaseOf(s)' = "accepted"
      BY <1>1, <1>2, <1>7, AnswerGoesOn
    <2>2. Phases'[s] = "accepted" /\ Captain'[s] = r /\ Facing'[s] = t
      BY <1>1, <1>4, <2>1, AnswerGoesOn
    <2>3. SetsInvite(t, "ACCEPT")
      BY <1>1, <1>2, <1>3, <1>4, <1>7, WritesInvite
    <2> QED
      BY <1>1, <1>3, <1>5, <1>7, <2>2, <2>3, AcceptsBoth DEF Enters
  <1> QED
    BY <1>3, <1>6, <1>7

LEMMA RefuseStep ==
  ASSUME Hypotheses, TypeInv, TypeInv', ClientInv, RowsInv, Captains, Captains', MatchInv,
         NEW s \in Sessions, Work(s), req[s].svc = "respond_invitation", ~Accepts(req[s])
  PROVE  MatchInv'
  <1>1. /\ Serving(s) /\ linked[s] /\ req'[s] = req[s] /\ Others(s)
        /\ step[s] < Len(Current(s)) => pc'[s] = "query" /\ step'[s] = step[s] + 1
        /\ ~(step[s] < Len(Current(s))) => pc'[s] = "recv"
    BY InviteWork, WorkOthers DEF InviteServices
  <1>2. /\ Len(Current(s)) = 3 /\ Current(s)[1] = set_rival_fields(req[s].team, "NULL")
        /\ Current(s)[2] = set_rival_fields(req[s].rival, "NULL")
        /\ Current(s)[3] = set_invitation_fields(req[s].rival, "EMPTY")
    <2>1. req[s].svc = "respond_invitation" /\ req[s].word # "ACCEPT"
      BY DEF Accepts
    <2> QED
      BY <2>1, InviteScripts DEF Current
  <1>3. /\ step[s] \in 1..3 /\ PhaseOf(s) = <<"refuse1", "refuse2", "refuse3">>[step[s]]
        /\ Statement(s) = Current(s)[step[s]]
    BY <1>1, ServingPhase DEF Statement
  <1>4. PICK t \in TeamNames, r \in TeamNames : r = req[s].team /\ t = req[s].rival
    BY <1>1, StatementType DEF Request
  <1>5. Captain[s] = r /\ Facing[s] = t /\ Phases[s] = PhaseOf(s)
    BY <1>3, <1>4, ServingPlace
  <1>6. CASE step[s] = 1
    <2>1. PhaseOf(s)' = "refuse2"
      BY <1>1, <1>2, <1>6, AnswerGoesOn
    <2>2. Phases'[s] = "refuse2" /\ Captain'[s] = r /\ Facing'[s] = t
      BY <1>1, <1>4, <2>1, AnswerGoesOn
    <2>3. SetsRival(r, "NULL")
      BY <1>1, <1>2, <1>3, <1>4, <1>6, WritesRival
    <2> QED
      BY <1>1, <1>3, <1>5, <1>6, <2>2, <2>3, RefusesOwn DEF Enters
  <1>7. CASE step[s] = 2
    <2>1. PhaseOf(s)' = "refuse3"
      BY <1>1, <1>2, <1>7, AnswerGoesOn
    <2>2. Phases'[s] = "refuse3" /\ Captain'[s] = r /\ Facing'[s] = t
      BY <1>1, <1>4, <2>1, AnswerGoesOn
    <2>3. SetsRival(t, "NULL")
      BY <1>1, <1>2, <1>3, <1>4, <1>7, WritesRival
    <2> QED
      BY <1>1, <1>3, <1>5, <1>7, <2>2, <2>3, RefusesBoth DEF Enters
  <1>8. CASE step[s] = 3
    <2>1. PhaseOf(s)' = "away"
      BY <1>1, <1>2, <1>8, AnswerGoesOn
    <2>2. SetsInvite(t, "EMPTY")
      BY <1>1, <1>2, <1>3, <1>4, <1>8, WritesInvite
    <2> QED
      BY <1>1, <1>3, <1>5, <1>8, <2>1, <2>2, Releases DEF Phases
  <1> QED
    BY <1>3, <1>6, <1>7, <1>8

------------------------------------------------------------------------------
(* The statements of the other services.                                    *)

\* What a captain is told when it polls.
LEMMA FieldRead ==
  ASSUME TypeInv, ClientInv, NEW s \in Sessions, Work(s),
         req[s].svc \in {"listen_invitation", "has_invitation"}
  PROVE  \/ pc'[s] = "exit"
         \/ /\ pc'[s] = "recv" /\ reply'[s].code = "data"
            /\ \E i \in DOMAIN teams :
                 /\ FirstTeam(i, req[s].team)
                 /\ reply'[s].word = IF req[s].svc = "listen_invitation"
                                     THEN teams[i].invitation ELSE teams[i].rival
  <1>1. /\ Serving(s) /\ linked[s] /\ DOMAIN pc = Sessions /\ DOMAIN reply = Sessions
        /\ step[s] \in 1..Len(Script(req[s], names[s]))
        /\ Statement(s) = Script(req[s], names[s])[step[s]]
    BY WorkMoves DEF ClientInv, TypeInv, TypeOK, Control, Current, Statement
  <1>2. Statement(s) = retrieve_field(req[s].team)
    BY <1>1, SMTT(30) DEF Script
  <1>3. Statement(s).op = "retrieve_field" /\ Statement(s).team = req[s].team
    BY <1>2 DEF retrieve_field
  <1>4. RetrieveField(s) \/ RowMissing(s)
    BY <1>1, <1>3 DEF Work, QueryFails, NoSuchTeam, UserExists, RetrieveMembersName,
       RetrieveStatus, RetrieveTeams, RetrieveTimes, PackUserData,
       InsertTeam, InsertUser, WriteTeam, SetTimes, WriteUser, Issues
  <1>5. CASE RowMissing(s)
    BY <1>1, <1>5 DEF RowMissing, Crash
  <1>6. CASE RetrieveField(s)
    <2>1. PICK i \in DOMAIN teams :
            /\ FirstTeam(i, req[s].team)
            /\ Answer(s, "data", IF req[s].svc = "listen_invitation"
                                 THEN teams[i].invitation ELSE teams[i].rival, {})
      BY <1>3, <1>6 DEF RetrieveField
    <2>2. /\ pc'[s] = "recv" /\ reply'[s].code = "data"
          /\ reply'[s].word = IF req[s].svc = "listen_invitation"
                              THEN teams[i].invitation ELSE teams[i].rival
      BY <1>1, <2>1 DEF Answer
    <2> QED
      BY <2>1, <2>2
  <1> QED
    BY <1>4, <1>5, <1>6

LEMMA ListenStep ==
  ASSUME Hypotheses, TypeInv, ClientInv, RowsInv, Captains, Captains', MatchInv,
         NEW s \in Sessions, Work(s), req[s].svc = "listen_invitation"
  PROVE  MatchInv'
  <1>1. /\ Serving(s) /\ req'[s] = req[s] /\ Others(s) /\ SetsNothing
        /\ s \in Engaged => s \in Engaged'
    BY WorkMoves, WorkOthers, OthersSetNothing
       DEF Moves, SameSession, InviteServices, Engaged, Settled, Accepts
  <1>2. Phases[s] = "away"
    BY <1>1, ServingPhase DEF InviteServices, Phases
  <1>3. CASE PhaseOf(s)' = "away"
    BY <1>1, <1>2, <1>3, Leaves DEF Phases
  <1>4. CASE PhaseOf(s)' # "away"
    <2>1. /\ pc'[s] = "recv"
          /\ \E i \in DOMAIN teams : /\ FirstTeam(i, req[s].team)
                                     /\ reply'[s].word = teams[i].invitation
      BY <1>4, FieldRead DEF PhaseOf, Serving
    <2>2. PICK i \in DOMAIN teams : /\ FirstTeam(i, req[s].team)
                                     /\ reply'[s].word = teams[i].invitation
      BY <2>1
    <2>3. \/ /\ PhaseOf(s)' = "free" /\ reply'[s].word = "EMPTY"
             /\ Asks(s, "send_invitation", req[s].team)
          \/ PhaseOf(s)' = "heard" /\ reply'[s].word = "ACCEPT"
      BY <1>1, <1>4, <2>1 DEF PhaseOf, Serving, Accepts, Heard, Asks
    <2>4. Captain'[s] = req[s].team /\ Phases'[s] = PhaseOf(s)'
      BY <1>1, <1>4 DEF Captain, Phases
    <2>5. PICK t : t = req[s].team
      OBVIOUS
    <2>6. t \in Entrants
      <3>1. CASE PhaseOf(s)' = "free"
        BY <2>3, <2>4, <2>5, <3>1 DEF Captains
      <3>2. CASE PhaseOf(s)' = "heard"
        BY <2>2, <2>3, <2>5, <3>2 DEF RowsInv, FirstTeam, TeamNamed
      <3> QED
        BY <2>3, <3>1, <3>2
    <2>7. Invites[t] = reply'[s].word
      <3>1. i = Row(t)
        BY <2>2, <2>5, <2>6, EntrantFirst
      <3> QED
        BY <2>2, <2>6, <3>1 DEF Invites
    <2>8. CASE PhaseOf(s)' = "free"
      BY <1>1, <1>2, <2>3, <2>4, <2>5, <2>6, <2>7, <2>8, IsFree
    <2>9. CASE PhaseOf(s)' = "heard"
      BY <1>1, <1>2, <2>3, <2>4, <2>5, <2>6, <2>7, <2>9, Hears
    <2> QED
      BY <2>3, <2>8, <2>9
  <1> QED
    BY <1>3, <1>4

LEMMA HasStep ==
  ASSUME Hypotheses, TypeInv, ClientInv, RowsInv, Captains, Captains', MatchInv,
         NEW s \in Sessions, Work(s), req[s].svc = "has_invitation"
  PROVE  MatchInv'
  <1>1. /\ Serving(s) /\ req'[s] = req[s] /\ Others(s) /\ SetsNothing
        /\ s \in Engaged => s \in Engaged'
    BY WorkMoves, WorkOthers, OthersSetNothing
       DEF Moves, SameSession, InviteServices, Engaged, Settled, Accepts
  <1>2. Phases[s] = "away"
    BY <1>1, ServingPhase DEF InviteServices, Phases
  <1>3. CASE PhaseOf(s)' = "away"
    BY <1>1, <1>2, <1>3, Leaves DEF Phases
  <1>4. CASE PhaseOf(s)' # "away"
    <2>1. /\ pc'[s] = "recv"
          /\ \E i \in DOMAIN teams : /\ FirstTeam(i, req[s].team)
                                     /\ reply'[s].word = teams[i].rival
      BY <1>4, FieldRead DEF PhaseOf, Serving
    <2>2. PICK i \in DOMAIN teams : FirstTeam(i, req[s].team) /\ reply'[s].word = teams[i].rival
      BY <2>1
    <2>3. /\ PhaseOf(s)' = "named" /\ reply'[s].word \in TeamNames
          /\ Asks(s, "respond_invitation", req[s].team)
      BY <1>1, <1>4, <2>1 DEF PhaseOf, Serving, Accepts, Heard, Asks
    <2>4. /\ Captain'[s] = req[s].team /\ Phases'[s] = PhaseOf(s)'
          /\ Facing'[s] = reply'[s].word
      BY <1>1, <1>4, <2>3 DEF Captain, Phases, Facing
    <2>5. PICK r \in TeamNames, t \in TeamNames : r = req[s].team /\ t = reply'[s].word
      BY <2>3, <1>1, StatementType DEF Request
    <2>6. Challenges(t, r)
      <3>1. teams[i].name = r /\ teams[i].rival = t /\ t # "NULL"
        BY <2>2, <2>5 DEF FirstTeam, TeamNamed, Hypotheses, Unpaired
      <3>2. Challenges(r, t) \/ Challenges(t, r)
        BY <3>1 DEF RowsInv
      <3>3. ~Challenges(r, t)
        <4>1. \A z \in Sessions : ~Asks(z, "send_invitation", r)
          BY <2>3, <2>5, Owners
        <4> QED
          BY <4>1 DEF Challenges, Asks
      <3> QED
        BY <3>2, <3>3
    <2>7. Rivals[r] = t
      <3>1. r \in Entrants
        BY <2>6, Apart
      <3>2. i = Row(r)
        BY <2>2, <2>5, <3>1, EntrantFirst
      <3> QED
        BY <2>2, <2>5, <3>1, <3>2 DEF Rivals
    <2>8. Enters(s, "named", r, t)
      BY <2>3, <2>4, <2>5 DEF Enters
    <2> QED
      BY <1>1, <1>2, <2>6, <2>7, <2>8, IsNamed
  <1> QED
    BY <1>3, <1>4

LEMMA QuietStep ==
  ASSUME Hypotheses, TypeInv, ClientInv, RowsInv, Captains, Captains', MatchInv,
         NEW s \in Sessions, Work(s),
         req[s].svc \notin InviteServices \cup {"listen_invitation", "has_invitation"}
  PROVE  MatchInv'
  <1>1. /\ Serving(s) /\ req'[s] = req[s] /\ Others(s) /\ SetsNothing
        /\ s \in Engaged => s \in Engaged'
    BY WorkMoves, WorkOthers, OthersSetNothing
       DEF Moves, SameSession, Engaged, Settled, Accepts
  <1>2. Phases[s] = "away"
    BY <1>1, ServingPhase DEF Phases
  <1>3. Phases'[s] = "away"
    BY <1>1 DEF Phases, PhaseOf, Accepts, Heard, InviteServices
  <1> QED
    BY <1>1, <1>2, <1>3, Leaves

\* Every statement of a handler.
LEMMA MatchWork ==
  ASSUME Hypotheses, TypeInv, TypeInv', ClientInv, RowsInv, Captains, Captains', MatchInv,
         NEW s \in Sessions, Work(s)
  PROVE  MatchInv'
  BY SendStep, AcceptStep, RefuseStep, ListenStep, HasStep, QuietStep DEF InviteServices

\* The rows go on naming challengers and challenged only.
LEMMA RowsWork ==
  ASSUME Hypotheses, TypeInv, ClientInv, RowsInv, Captains, MatchInv, NEW s \in Sessions, Work(s)
  PROVE  RowsInv'
  <1>1. /\ Serving(s) /\ linked[s] /\ req[s] \in Request /\ names[s] \in Namings
        /\ step[s] \in 1..Len(Script(req[s], names[s]))
        /\ Statement(s) = Script(req[s], names[s])[step[s]]
    BY WorkMoves, StatementType DEF ClientInv, TypeInv, Control, Current, Statement
  <1>2. req[s] \in Requests[s]
    BY <1>1 DEF ClientInv, Request, NoRequest, Services
  <1> DEFINE q == Statement(s)
  <1>3. /\ q.op = "set_rival_fields" =>
             q.val = "NULL" \/ Challenges(q.team, q.val) \/ Challenges(q.val, q.team)
        /\ q.op = "set_invitation_fields" /\ q.val = "ACCEPT" => q.team \in Entrants
    <2>1. CASE req[s].svc = "send_invitation"
      <3>1. Challenges(req[s].team, req[s].rival)
        BY <1>2, <2>1 DEF Challenges
      <3>2. step[s] \in 1..3
        BY <1>1, <2>1, ServingPhase
      <3>3. q \in {set_rival_fields(req[s].team, req[s].rival),
                   set_rival_fields(req[s].rival, req[s].team),
                   set_invitation_fields(req[s].team, "WAIT")}
        BY <1>1, <2>1, <3>2, InviteScripts
      <3> QED
        BY <3>1, <3>3, PairFields
    <2>2. CASE Accepts(req[s])
      <3>1. req[s].svc = "respond_invitation" /\ req[s].word = "ACCEPT"
        BY <2>2 DEF Accepts
      <3>2. step[s] \in 1..2 /\ PhaseOf(s) = <<"accept1", "accept2">>[step[s]]
        BY <1>1, <2>2, ServingPhase
      <3>3. q \in {set_invitation_fields(req[s].team, "ACCEPT"),
                   set_invitation_fields(req[s].rival, "ACCEPT")}
        BY <1>1, <3>1, <3>2, InviteScripts
      <3>4. Challenges(req[s].rival, req[s].team)
        <4>1. PhaseOf(s) \in {"accept1", "accept2"}
          BY <3>2
        <4>2. Phases[s] \in Answering /\ Captain[s] = req[s].team /\ Facing[s] = req[s].rival
          BY <4>1, ServingPlace DEF Answering, Accepting
        <4> QED
          BY <4>2 DEF MatchInv, AnsweringInv, AnsweringAt
      <3> QED
        BY <3>3, <3>4, PairFields, Apart, ChallengerKnown
    <2>3. CASE req[s].svc = "respond_invitation" /\ ~Accepts(req[s])
      <3>1. req[s].word # "ACCEPT"
        BY <2>3 DEF Accepts
      <3>2. step[s] \in 1..3
        BY <1>1, <2>3, ServingPhase
      <3>3. q \in {set_rival_fields(req[s].team, "NULL"), set_rival_fields(req[s].rival, "NULL"),
                   set_invitation_fields(req[s].rival, "EMPTY")}
        BY <1>1, <2>3, <3>1, <3>2, InviteScripts
      <3> QED
        BY <3>3, PairFields
    <2>4. CASE req[s].svc \notin InviteServices
      BY <1>1, <2>4, OtherPairs DEF Pairs
    <2> QED
      BY <2>1, <2>2, <2>3, <2>4 DEF InviteServices
  <1> HIDE DEF q
  <1>4. ASSUME NEW i \in DOMAIN teams'
        PROVE  /\ teams'[i].rival # "NULL" => \/ Challenges(teams'[i].name, teams'[i].rival)
                                              \/ Challenges(teams'[i].rival, teams'[i].name)
               /\ teams'[i].invitation = "ACCEPT" => teams'[i].name \in Entrants
    <2>1. CASE i \in DOMAIN teams
      <3>1. /\ teams'[i].rival = RivalAfter(q, teams[i])
            /\ teams'[i].invitation = InvitationAfter(q, teams[i])
            /\ teams'[i].name = teams[i].name
        BY <1>1, <2>1, InviteColumns, TeamsRemain DEF q
      <3> QED
        BY <1>3, <2>1, <3>1 DEF RowsInv, RivalAfter, InvitationAfter
    <2>2. CASE i \notin DOMAIN teams
      BY <2>2, NewTeamRow DEF NewTeam
    <2> QED
      BY <2>1, <2>2
  <1>5. \A j \in DOMAIN Teams0 : j \in DOMAIN teams' /\ teams'[j].name = Teams0[j].name
    BY TeamsRemain DEF RowsInv
  <1> QED
    BY <1>4, <1>5 DEF RowsInv, Challenges, Entrants

LEMMA ClientWork ==
  ASSUME TypeInv, ClientInv, NEW s \in Sessions, Work(s)
  PROVE  ClientInv'
  <1>1. Moves(s) /\ Serving(s) /\ DOMAIN pc = Sessions
    BY WorkMoves DEF TypeInv, TypeOK
  <1>2. \A z \in Sessions : pc'[z] = "listen" => pc[z] = "listen"
    BY <1>1 DEF Moves, Steps, Halts
  <1> QED
    BY <1>1, <1>2 DEF ClientInv, Moves, SameSession

------------------------------------------------------------------------------
(* Connections and requests.                                                *)

LEMMA EnvironmentOthers ==
  ASSUME TypeInv, NEW s \in Sessions,
         Connect(s) \/ Disconnect(s) \/ \E f \in Requests[s] : Receive(s, f)
  PROVE  Others(s) /\ SetsNothing /\ teams' = teams
  <1>1. /\ DOMAIN pc = Sessions /\ DOMAIN step = Sessions /\ DOMAIN req = Sessions
        /\ DOMAIN reply = Sessions
    BY DEF TypeInv, TypeOK
  <1>2. ASSUME NEW z \in Sessions, z # s
        PROVE  pc'[z] = pc[z] /\ step'[z] = step[z] /\ req'[z] = req[z] /\ reply'[z] = reply[z]
    BY <1>1, <1>2 DEF Connect, Disconnect, Receive, Crash, SameSession
  <1>3. teams' = teams
    BY DEF Connect, Disconnect, Receive, tables
  <1> QED
    BY <1>2, <1>3, SamePlace DEF Others, SetsNothing, Rivals, Invites

LEMMA WaitingPhases ==
  ASSUME TypeInv, ClientInv, NEW s \in Sessions, pc[s] # "query"
  PROVE  /\ Phases[s] \in {"away", "free", "heard", "named", "accepted"}
         /\ pc[s] # "recv" => Phases[s] = "away"
  BY DEF Phases, PhaseOf, Serving

LEMMA MatchConnects ==
  ASSUME Hypotheses, TypeInv, ClientInv, Captains, Captains', MatchInv,
         NEW s \in Sessions, Connect(s)
  PROVE  MatchInv'
  <1>1. /\ Others(s) /\ SetsNothing /\ Phases[s] = "away" /\ req' = req /\ req[s] = NoRequest
    BY EnvironmentOthers, WaitingPhases DEF Connect, ClientInv
  <1>2. Phases'[s] = "away" /\ (s \in Engaged => s \in Engaged')
    BY <1>1 DEF Phases, PhaseOf, NoRequest, Accepts, Heard, Engaged, Settled
  <1> QED
    BY <1>1, <1>2, Leaves

LEMMA MatchDisconnects ==
  ASSUME Hypotheses, TypeInv, ClientInv, Captains, Captains', MatchInv,
         NEW s \in Sessions, Disconnect(s)
  PROVE  MatchInv'
  <1>1. /\ Others(s) /\ SetsNothing /\ req' = req /\ pc'[s] = "exit"
        /\ Phases[s] \in {"away", "free", "heard", "named", "accepted"}
    BY EnvironmentOthers, WaitingPhases DEF Disconnect, Crash, SameSession, TypeInv, TypeOK
  <1>2. Phases'[s] = "away" /\ (s \in Engaged => s \in Engaged')
    BY <1>1 DEF Phases, PhaseOf, Serving, Accepts, Engaged, Settled
  <1> QED
    BY <1>1, <1>2, Leaves

\* A captain sends what its client may send next.
LEMMA MatchReceives ==
  ASSUME Hypotheses, TypeInv, ClientInv, Captains, Captains', MatchInv,
         NEW s \in Sessions, NEW f \in Requests[s], MaySend(s, f), Receive(s, f)
  PROVE  MatchInv'
  <1>1. /\ Others(s) /\ SetsNothing
        /\ Phases[s] \in {"away", "free", "heard", "named", "accepted"}
    BY EnvironmentOthers, WaitingPhases DEF Receive, Sends
  <1>2. /\ pc[s] = "recv" /\ ~Serving(s) /\ pc'[s] = "query" /\ req'[s] = f /\ step'[s] = 1
    BY DEF Receive, Sends, Serving, TypeInv, TypeOK
  <1>3. f.team \in TeamNames /\ f.rival \in TeamNames /\ Asks(s, f.svc, f.team)
    BY RequestsAssumption DEF Request, Asks
  <1>4. PICK t, r : t = f.team /\ r = f.rival
    OBVIOUS
  <1>5. ASSUME req[s].svc \in CaptainServices, f.svc \in CaptainServices
        PROVE  req[s].team = t
    <2>1. req[s] \in Requests[s]
      BY <1>5 DEF ClientInv, NoRequest, CaptainServices
    <2>2. PICK u \in TeamNames : u = req[s].team /\ Asks(s, req[s].svc, u)
      BY <2>1, RequestsAssumption DEF Request, Asks
    <2> QED
      BY <1>3, <1>4, <1>5, <2>2 DEF Hypotheses, OneCaptain
  <1>6. CASE f.svc = "send_invitation"
    <2>1. Heard(s, "listen_invitation", "EMPTY") /\ req[s].svc = "listen_invitation"
      BY <1>6 DEF MaySend, Heard
    <2>2. req[s].team = t
      BY <1>5, <1>6, <2>1 DEF CaptainServices
    <2>3. PhaseOf(s) = "free"
      BY <1>2, <1>3, <1>4, <1>6, <2>1, <2>2, WaitingPhase
    <2>4. Phases[s] = "free" /\ Captain[s] = t
      BY <2>2, <2>3 DEF Phases, Captain
    <2>5. PhaseOf(s)' = "invite1"
      BY <1>2, <1>6 DEF PhaseOf, Serving, Accepts
    <2>6. Enters(s, "invite1", t, r)
      BY <1>2, <1>4, <2>5 DEF Enters, Phases, Captain, Facing
    <2> QED
      BY <1>1, <1>3, <1>4, <2>4, <2>6, BeginsInvite
  <1>7. CASE f.svc = "respond_invitation"
    <2>1. Heard(s, "has_invitation", r) /\ req[s].svc = "has_invitation" /\ reply[s].word = r
      BY <1>4, <1>7 DEF MaySend, Heard
    <2>2. req[s].team = t
      BY <1>5, <1>7, <2>1 DEF CaptainServices
    <2>3. PhaseOf(s) = "named"
      BY <1>2, <1>3, <1>4, <1>7, <2>1, <2>2, WaitingPhase
    <2>4. Phases[s] = "named" /\ Captain[s] = t /\ Facing[s] = r
      BY <2>1, <2>2, <2>3 DEF Phases, Captain, Facing
    <2>5. PhaseOf(s)' \in {"accept1", "refuse1"}
      BY <1>2, <1>7 DEF PhaseOf, Serving, Accepts
    <2>6. Phases'[s] \in {"accept1", "refuse1"} /\ Captain'[s] = t /\ Facing'[s] = r
      BY <1>2, <1>4, <2>5 DEF Phases, Captain, Facing
    <2> QED
      BY <1>1, <1>3, <1>4, <2>4, <2>6, BeginsAnswer
  <1>8. CASE f.svc \notin InviteServices
    <2>1. Phases'[s] = "away"
      BY <1>2, <1>8 DEF Phases, PhaseOf, Serving, Accepts, InviteServices
    <2>2. s \in Engaged => s \in Engaged'
      BY <1>2 DEF MaySend, Engaged, Settled
    <2> QED
      BY <1>1, <2>1, <2>2, Leaves
  <1> QED
    BY <1>6, <1>7, <1>8 DEF InviteServices

LEMMA ClientEnvironment ==
  ASSUME Unpaired, TypeInv, ClientInv, NEW s \in Sessions,
         Connect(s) \/ Disconnect(s) \/ \E f \in Requests[s] : Receive(s, f)
  PROVE  ClientInv'
  <1>0. /\ DOMAIN pc = Sessions /\ DOMAIN req = Sessions /\ DOMAIN linked = Sessions
    BY DEF TypeInv, TypeOK
  <1>1. CASE Connect(s)
    BY <1>0, <1>1 DEF Connect, ClientInv, Unpaired
  <1>2. CASE Disconnect(s)
    BY <1>0, <1>2 DEF Disconnect, Crash, SameSession, ClientInv
  <1>3. ASSUME NEW f \in Requests[s], Receive(s, f) PROVE ClientInv'
    BY <1>0, <1>3 DEF Receive, ClientInv
  <1> QED
    BY <1>1, <1>2, <1>3

------------------------------------------------------------------------------
(* What the captains can rely on.                                           *)

LEMMA MatchInit == ASSUME Hypotheses, Init PROVE ClientInv /\ RowsInv /\ MatchInv
  <1>1. /\ teams = Teams0 /\ \A s \in Sessions : /\ pc[s] = "listen" /\ req[s] = NoRequest
                                                 /\ linked[s]
    BY DEF Init
  <1>2. \A s \in Sessions : Phases[s] = "away" /\ s \notin Engaged
    BY <1>1 DEF Phases, PhaseOf, Serving, NoRequest, Engaged, Settled, Accepts, BattleServices
  <1>3. \A i \in DOMAIN Teams0 : Teams0[i].rival = "NULL" /\ Teams0[i].invitation = "EMPTY"
    BY DEF Hypotheses, Unpaired
  <1>4. \A t \in Entrants : Rivals[t] = "NULL" /\ Invites[t] = "EMPTY"
    BY <1>1, <1>3, EntrantRow DEF Rivals, Invites
  <1>5. ClientInv
    BY <1>1 DEF ClientInv
  <1>6. RowsInv
    BY <1>1, <1>3 DEF RowsInv
  <1>7. RivalsInv
    <2>1. ASSUME NEW t \in TeamNames, NEW r \in TeamNames, Challenges(t, r)
          PROVE  RivalsAt(t, r)
      <3>1. t \in Entrants /\ r \in Entrants /\ t # "NULL" /\ r # "NULL"
        BY <2>1, Apart
      <3>2. Free(t)
        BY <1>2, <1>4, <2>1, <3>1, Apart DEF Free, Unheard, Answering, Accepting, Refusing
      <3> QED
        BY <1>4, <3>1, <3>2 DEF RivalsAt
    <2> QED
      BY <2>1 DEF RivalsInv
  <1>8. InvitingInv /\ AnsweringInv
    BY <1>2 DEF InvitingInv, InvitingAt, AnsweringInv, AnsweringAt, Answering, Accepting, Refusing
  <1>9. AcceptInv
    <2>1. \A t, r \in TeamNames : Challenges(t, r) => r \in Entrants
      BY Apart
    <2> QED
      BY <1>2, <1>4, <2>1 DEF AcceptInv
  <1> QED
    BY <1>5, <1>6, <1>7, <1>8, <1>9 DEF MatchInv

LEMMA MatchStep ==
  ASSUME Hypotheses, TypeInv, TypeInv', ClientInv, RowsInv, Captains, MatchInv,
         ClientInv' => Captains', [MatchNext]_vars
  PROVE  ClientInv' /\ RowsInv' /\ MatchInv'
  <1>1. ASSUME NEW s \in Sessions, Work(s) PROVE ClientInv' /\ RowsInv' /\ MatchInv'
    BY <1>1, ClientWork, RowsWork, MatchWork
  <1>2. ASSUME NEW s \in Sessions,
               Connect(s) \/ Disconnect(s) \/ \E f \in Requests[s] : MaySend(s, f) /\ Receive(s, f)
        PROVE  ClientInv' /\ RowsInv' /\ MatchInv'
    <2>1. ClientInv' /\ teams' = teams
      BY <1>2, ClientEnvironment, EnvironmentOthers DEF Hypotheses
    <2>2. RowsInv'
      BY <2>1 DEF RowsInv, Challenges, Entrants
    <2>3. MatchInv'
      BY <1>2, <2>1, MatchConnects, MatchDisconnects, MatchReceives
    <2> QED
      BY <2>1, <2>2, <2>3
  <1>3. CASE MatchNext
    BY <1>1, <1>2, <1>3 DEF MatchNext
  <1>4. CASE UNCHANGED vars
    <2>1. /\ teams' = teams /\ pc' = pc /\ req' = req /\ step' = step /\ reply' = reply
          /\ linked' = linked
      BY <1>4 DEF vars
    <2>2. /\ Rivals' = Rivals /\ Invites' = Invites
          /\ \A s \in Sessions : /\ Phases'[s] = Phases[s] /\ Captain'[s] = Captain[s]
                                 /\ Facing'[s] = Facing[s] /\ (s \in Engaged' <=> s \in Engaged)
      BY <2>1, SamePlace DEF Rivals, Invites
    <2>3. Phases' = Phases /\ Captain' = Captain /\ Facing' = Facing /\ Engaged' = Engaged
      BY <2>2 DEF Phases, Captain, Facing, Engaged
    <2>4. MatchInv'
      BY <2>2, <2>3 DEF MatchInv, RivalsInv, RivalsAt, InvitingInv, InvitingAt, AnsweringInv,
         AnsweringAt, AcceptInv, Free, Unheard, Paired, Challenges, Asks, Entrants
    <2> QED
      BY <2>1, <2>4 DEF ClientInv, RowsInv, Challenges, Entrants
  <1> QED
    BY <1>3, <1>4

LEMMA MatchInductive ==
  ASSUME ChallengesApart, OneCaptain, Unpaired
  PROVE  MatchSpec => [](TypeInv /\ ClientInv /\ RowsInv /\ Captains /\ MatchInv)
  <1>1. Init => TypeInv /\ ClientInv /\ RowsInv /\ MatchInv
    BY TypeInit, MatchInit DEF Hypotheses
  <1>2. TypeInv /\ [MatchNext]_vars => TypeInv'
    <2>1. [MatchNext]_vars => [Next]_vars
      BY DEF MatchNext, Next, Environment
    <2> QED
      BY <2>1, TypeStep
  <1>3. TypeInv /\ ClientInv => Captains
    BY CaptainsKnown
  <1>4. (TypeInv /\ ClientInv => Captains)'
    BY <1>3, PTL
  <1>5. /\ TypeInv /\ TypeInv' /\ ClientInv /\ RowsInv /\ Captains /\ MatchInv
        /\ [MatchNext]_vars
        => ClientInv' /\ RowsInv' /\ MatchInv'
    BY <1>4, MatchStep DEF Hypotheses
  <1> QED
    BY <1>1, <1>2, <1>3, <1>5, PTL DEF MatchSpec

\* A rival that a first row names, and an invitation it shows.
LEMMA RivalShown ==
  ASSUME Hypotheses, TypeInv, RowsInv, NEW t \in Entrants, NEW v
  PROVE  /\ RivalOf(t, v) <=> Rivals[t] = v
         /\ InvitationOf(t, v) <=> Invites[t] = v
  <1>1. FirstTeam(Row(t), t) /\ Row(t) \in DOMAIN teams /\ \A i : FirstTeam(i, t) => i = Row(t)
    BY EntrantFirst
  <1>2. Rivals[t] = teams[Row(t)].rival /\ Invites[t] = teams[Row(t)].invitation
    BY DEF Rivals, Invites
  <1> QED
    BY <1>1, <1>2 DEF RivalOf, InvitationOf

LEMMA MutualAtRest ==
  ASSUME Hypotheses, TypeInv, RowsInv, MatchInv
  PROVE  RivalsMutualAtRest
  <1> SUFFICES ASSUME Resting, NEW t \in TeamNames, NEW r \in TeamNames, RivalOf(t, r)
      PROVE  RivalOf(r, t)
    BY DEF RivalsMutualAtRest
  <1>1. Challenges(t, r) \/ Challenges(r, t)
    <2>1. PICK i \in DOMAIN teams : teams[i].name = t /\ teams[i].rival = r
      BY DEF RivalOf, FirstTeam, TeamNamed
    <2> QED
      BY <2>1 DEF RowsInv, Hypotheses, Unpaired
  <1>2. t \in Entrants /\ r \in Entrants
    BY <1>1, Apart
  <1>3. Rivals[t] = r
    BY <1>2, RivalShown
  <1>4. \A s \in Sessions : Phases[s] \notin {"invite2", "refuse2"}
    <2> SUFFICES ASSUME NEW s \in Sessions, PhaseOf(s) \in {"invite2", "refuse2"} PROVE FALSE
      BY DEF Phases
    <2>1. Serving(s)
      BY WaitingPhase DEF PhaseOf
    <2> QED
      BY <2>1, ServingPhase DEF Resting
  <1>5. Rivals[r] = t
    BY <1>1, <1>3, <1>4 DEF MatchInv, RivalsInv, RivalsAt
  <1> QED
    BY <1>2, <1>5, RivalShown

LEMMA PairedAtAccept ==
  ASSUME Hypotheses, TypeInv, RowsInv, MatchInv
  PROVE  AcceptMeansPaired
  <1> SUFFICES ASSUME NEW s \in Sessions, pc[s] = "recv"
      PROVE  /\ Heard(s, "listen_invitation", "ACCEPT") =>
                  \E r \in TeamNames :
                    /\ RivalOf(req[s].team, r) /\ RivalOf(r, req[s].team)
                    /\ InvitationOf(r, "ACCEPT")
             /\ Accepts(req[s]) =>
                  RivalOf(req[s].team, req[s].rival) /\ InvitationOf(req[s].team, "ACCEPT")
    BY DEF AcceptMeansPaired
  <1>1. ASSUME NEW t, NEW r, Paired(t, r)
        PROVE  /\ t \in TeamNames /\ r \in TeamNames /\ RivalOf(t, r) /\ RivalOf(r, t)
               /\ InvitationOf(r, "ACCEPT")
    <2>1. t \in Entrants /\ r \in Entrants /\ t \in TeamNames /\ r \in TeamNames
      BY <1>1, ChallengerKnown, Apart DEF Paired
    <2> QED
      BY <1>1, <2>1, RivalShown DEF Paired
  <1>2. ~Serving(s)
    BY DEF Serving
  <1>3. ASSUME Heard(s, "listen_invitation", "ACCEPT")
        PROVE  \E r \in TeamNames : /\ RivalOf(req[s].team, r) /\ RivalOf(r, req[s].team)
                                    /\ InvitationOf(r, "ACCEPT")
    <2>1. PhaseOf(s) = "heard"
      BY <1>2, <1>3, WaitingPhase
    <2>2. \E r \in TeamNames : Paired(req[s].team, r)
      BY <2>1 DEF Phases, Captain, MatchInv, AcceptInv
    <2> QED
      BY <1>1, <2>2
  <1>4. ASSUME Accepts(req[s])
        PROVE  RivalOf(req[s].team, req[s].rival) /\ InvitationOf(req[s].team, "ACCEPT")
    <2>1. PhaseOf(s) = "accepted"
      BY <1>2, <1>4, WaitingPhase
    <2>2. Paired(req[s].rival, req[s].team)
      BY <2>1 DEF Phases, Captain, Facing, MatchInv, AnsweringInv, AnsweringAt
    <2> QED
      BY <1>1, <2>2
  <1> QED
    BY <1>3, <1>4

\* However many teams challenge and answer, over however many connections: where the
\* challengers and the challenged are apart and each team has one captain
\* (ChallengesApart, OneCaptain) and starts without a rival (Unpaired), a team whose
\* row names a rival is named by it whenever no invitation is under way, though
\* set_rival and set_invitation_status write the two rows one after the other.
THEOREM RivalsAgree ==
  ASSUME ChallengesApart, OneCaptain, Unpaired
  PROVE  MatchSpec => []RivalsMutualAtRest
  <1>1. TypeInv /\ RowsInv /\ MatchInv => RivalsMutualAtRest
    BY MutualAtRest DEF Hypotheses
  <1> QED
    BY <1>1, MatchInductive, PTL

\* Under the same hypotheses an ACCEPT that a challenger reads or a captain was granted
\* is a pairing, and remains one: both rows name each other and the answering team's
\* shows ACCEPT, whatever polls, refusals and late answers of the others fall in between.
THEOREM AcceptPairs ==
  ASSUME ChallengesApart, OneCaptain, Unpaired
  PROVE  MatchSpec => []AcceptMeansPaired
  <1>1. TypeInv /\ RowsInv /\ MatchInv => AcceptMeansPaired
    BY PairedAtAccept DEF Hypotheses
  <1> QED
    BY <1>1, MatchInductive, PTL
=============================================================================
