---------------------------- MODULE MCResumesHistory ----------------------------
(***************************************************************************)
(* Resumes with a history of the inactive skills that left a résumé.       *)
(***************************************************************************)
EXTENDS MCResumes

VARIABLE withdrawn  \* per candidate: skills unlinked while inactive, not reactivated since

WithdrawnInit == Init /\ withdrawn = [c \in Candidates |-> {}]

WithdrawnNext ==
    /\ Next
    /\ withdrawn' = [c \in Candidates |->
          {s \in Skills : /\ ~skill'[s].active
                          /\ \/ s \in withdrawn[c]
                             \/ s \in Linked(c) /\ s \notin Linked(c)' /\ ~skill[s].active}]

WithdrawnSpec == WithdrawnInit /\ [][WithdrawnNext]_<<vars, withdrawn>>

\* docs/SKILL_CATALOG.md, of an inactive skill: "once removed from a résumé, it returns
\* only after reactivation".
ReturnsOnlyReactivated == \A c \in Candidates : Linked(c) \cap withdrawn[c] = {}
===============================================================================
