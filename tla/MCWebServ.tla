----------------------------- MODULE MCWebServ ------------------------------
(* Instances of WebServ for TLC. *)
EXTENDS WebServ, TLC

CONSTANTS c1, c2, c3

OnePage == [c \in Conns |-> "page"]
\* A page that is there, one that is not, and a request the parser refuses.
Mixed == (c1 :> "page" @@ c2 :> "missing" @@ c3 :> "mime")
=============================================================================
