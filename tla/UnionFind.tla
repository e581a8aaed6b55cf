------------------------------ MODULE UnionFind ------------------------------
(***************************************************************************)
(* algorithm/unionfind: the members of a group form a tree by grpid, whose *)
(* root is its own grpid; a union hangs the root of the smaller group      *)
(* below that of the larger.                                               *)
(***************************************************************************)
EXTENDS Integers, FiniteSets

CONSTANT nmembs

ASSUME NmembsAssumption == nmembs \in Nat   \* MAX_MEM_N at most, which is not checked

Membs == 0..nmembs - 1

VARIABLES
  grpid, gsz, ngrps,
  groups   \* history: the groups that the unions called for make

ufVars == <<grpid, gsz, ngrps, groups>>

\* The members met from p on; the loop ends at the first that is its own grpid.
Walk(p) ==
  LET up[k \in 0..nmembs] == IF k = 0 THEN p ELSE grpid[up[k - 1]] IN up
UF_find(p) == Walk(p)[nmembs]
UF_connected(p, q) == UF_find(p) = UF_find(q)

UF_init ==
  /\ grpid = [p \in Membs |-> p] /\ gsz = [p \in Membs |-> 1] /\ ngrps = nmembs
  /\ groups = {{p} : p \in Membs}

Group(p) == CHOOSE g \in groups : p \in g
Join(p, q) ==
  groups' = (groups \ {Group(p), Group(q)}) \cup {Group(p) \cup Group(q)}

\* Slip: the group grows by the one member that was hung, not by all it brings along.
Hang_Member(r, s) ==
  /\ grpid' = [grpid EXCEPT ![r] = s]
  /\ gsz' = [gsz EXCEPT ![s] = @ + 1]
Hang(r, s) ==
  /\ grpid' = [grpid EXCEPT ![r] = s]
  /\ gsz' = [gsz EXCEPT ![s] = @ + gsz[r]]

UF_union(p, q) ==
  LET pgid == UF_find(p)
      qgid == UF_find(q)
  IN  /\ pgid # qgid
      /\ IF gsz[pgid] < gsz[qgid] THEN Hang(pgid, qgid) ELSE Hang(qgid, pgid)
      /\ ngrps' = ngrps - 1
      /\ Join(p, q)

\* A union of two members of one group changes nothing.
UFNext == \E p, q \in Membs : UF_union(p, q)
UFSpec == UF_init /\ [][UFNext]_ufVars

------------------------------------------------------------------------------
\* Powers of two.
Power2[k \in 0..nmembs] == IF k = 0 THEN 1 ELSE 2 * Power2[k - 1]

\* After any unions two members are connected exactly if a chain of the unions
\* joins them, UF_grpsn counts the groups, and a root knows the size of its group
\* (wquickunion.c:22-37).  A find takes at most log2 of the group's size steps,
\* because the smaller group goes below the larger: no order of unions makes a tree
\* deep (wquickunion.c:29-35).
UnionsExact ==
  /\ \A p, q \in Membs : UF_connected(p, q) <=> Group(p) = Group(q)
  /\ ngrps = Cardinality(groups)
  /\ \A p \in Membs :
       /\ gsz[UF_find(p)] = Cardinality(Group(p))
       /\ \A k \in 0..nmembs - 1 :
            Walk(p)[k] # UF_find(p) => Power2[k + 1] <= Cardinality(Group(p))
=============================================================================
