------------------------------ MODULE Listener -------------------------------
(***************************************************************************)
(* The listener of the tank game server: main accepts and forks, and a     *)
(* child serves each client (what it does is TankServer's).  The parent    *)
(* closes no accepted descriptor and waits for no child, and each child    *)
(* inherits a copy of every descriptor the parent has.                     *)
(***************************************************************************)
EXTENDS Integers, FiniteSets

CONSTANTS
  Callers,    \* connections
  MaxFds,     \* descriptors of the parent, less those open before accept
  MaxProcs    \* processes the parent may have at once, ended ones included

Main == "main"
Nobody == "nobody"

ASSUME LimitsAssumption == MaxFds \in Nat /\ MaxProcs \in Nat /\ IsFiniteSet(Callers)
ASSUME NamesAssumption == Main \notin Callers

VARIABLES
  parent,     \* main: "accept", "fork" or "end"
  client,     \* what accept returned
  calling,    \* connections accept has not taken
  accepted,   \* history: those it has
  child,      \* of each connection: "none", "serving", "zombie" or "reaped"
  holders     \* the processes that have the connection open

listenerVars == <<parent, client, calling, accepted, child, holders>>

HeldBy(p) == {c \in Callers : p \in holders[c]}

Call(c) ==
  /\ parent # "end" /\ c \notin calling \cup accepted
  /\ calling' = calling \cup {c}
  /\ UNCHANGED <<parent, client, accepted, child, holders>>

AcceptCall(c) ==
  /\ parent = "accept" /\ c \in calling
  /\ Cardinality(HeldBy(Main)) < MaxFds
  /\ parent' = "fork" /\ client' = c
  /\ calling' = calling \ {c} /\ accepted' = accepted \cup {c}
  /\ holders' = [holders EXCEPT ![c] = {Main}]
  /\ UNCHANGED child

\* For want of a descriptor, or for any other reason: main leaves its loop and
\* returns, which closes its descriptors and leaves its children to init.
AcceptCallFails ==
  /\ parent = "accept" /\ parent' = "end"
  /\ holders' = [c \in Callers |-> holders[c] \ {Main}]
  /\ child' = [c \in Callers |-> IF child[c] = "zombie" THEN "reaped" ELSE child[c]]
  /\ UNCHANGED <<client, calling, accepted>>

Processes == {c \in Callers : child[c] \in {"serving", "zombie"}}

\* Slip: main waits for the child it has before it takes another one.
ForkChild_Waits ==
  /\ parent = "fork" /\ Cardinality(Processes) < MaxProcs
  /\ \A c \in Callers : child[c] # "serving"
  /\ parent' = "accept"
  /\ child' = [child EXCEPT ![client] = "serving"]
  /\ holders' = [c \in Callers |->
                  IF Main \in holders[c] THEN holders[c] \cup {client} ELSE holders[c]]
  /\ UNCHANGED <<client, calling, accepted>>
\* Slip: the child closes the client where it should close the server.
ForkChild_Client ==
  /\ parent = "fork" /\ Cardinality(Processes) < MaxProcs
  /\ parent' = "accept"
  /\ child' = [child EXCEPT ![client] = "serving"]
  /\ holders' = [c \in Callers |->
                  IF Main \in holders[c] /\ c # client
                  THEN holders[c] \cup {client} ELSE holders[c]]
  /\ UNCHANGED <<client, calling, accepted>>
ForkChild ==
  /\ parent = "fork" /\ Cardinality(Processes) < MaxProcs
  /\ parent' = "accept"
  /\ child' = [child EXCEPT ![client] = "serving"]
  /\ holders' = [c \in Callers |->
                  IF Main \in holders[c] THEN holders[c] \cup {client} ELSE holders[c]]
  /\ UNCHANGED <<client, calling, accepted>>
\* The connection stays open and nobody reads from it.
ForkFails ==
  /\ parent = "fork" /\ Cardinality(Processes) >= MaxProcs
  /\ parent' = "accept"
  /\ UNCHANGED <<client, calling, accepted, child, holders>>

\* After logout, or by a fault.
ChildEnds(c) ==
  /\ child[c] = "serving"
  /\ child' = [child EXCEPT ![c] = IF parent = "end" THEN "reaped" ELSE "zombie"]
  /\ holders' = [d \in Callers |-> holders[d] \ {c}]
  /\ UNCHANGED <<parent, client, calling, accepted>>

ListenerInit ==
  /\ parent = "accept" /\ client = Nobody
  /\ calling = {} /\ accepted = {}
  /\ child = [c \in Callers |-> "none"] /\ holders = [c \in Callers |-> {}]
ListenerNext ==
  \/ AcceptCallFails \/ ForkChild \/ ForkFails
  \/ \E c \in Callers : Call(c) \/ AcceptCall(c) \/ ChildEnds(c)
ListenerSpec == ListenerInit /\ [][ListenerNext]_listenerVars

\* What main does of itself; without a caller accept only waits.
ListenerMain ==
  \/ calling # {} /\ AcceptCallFails
  \/ ForkChild \/ ForkFails
  \/ \E c \in Callers : AcceptCall(c)

------------------------------------------------------------------------------
(* Properties.                                                              *)

ListenerTypeOK ==
  /\ parent \in {"accept", "fork", "end"} /\ client \in Callers \cup {Nobody}
  /\ calling \subseteq Callers /\ accepted \subseteq Callers
  /\ child \in [Callers -> {"none", "serving", "zombie", "reaped"}]
  /\ holders \in [Callers -> SUBSET (Callers \cup {Main})]

Forked == {c \in Callers : child[c] # "none"}   \* whoever has or had a child

\* Each child inherits the connections of all clients before it, so that a connection
\* may stay open when its own child has gone.  But a client being served never loses
\* its connection to what main and other children do, ended ones included; a
\* connection is open only in processes that run; and a client taken and not
\* given a child is turned down because the processes were used up, and for nothing
\* else (server.c:449-469).
ServedWhileOpen ==
  \A c \in accepted :
    /\ child[c] = "serving" => c \in holders[c]
    /\ \A q \in holders[c] : IF q = Main THEN parent # "end" ELSE child[q] = "serving"
    /\ child[c] = "none" /\ (parent = "fork" => c # client) => Cardinality(Forked) >= MaxProcs

\* No client waits for another one to leave: each that calls gets a child, however
\* long the clients before it stay, unless the listener has stopped or has no
\* process left (server.c:449-469).
ClientsAreServed ==
  \A c \in Callers :
    (c \in calling) ~> (c \in Forked \/ parent = "end" \/ Cardinality(Forked) >= MaxProcs)
=============================================================================
