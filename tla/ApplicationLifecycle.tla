------------------------- MODULE ApplicationLifecycle -------------------------
(***************************************************************************)
(* What the platform promises about applications to the two people they    *)
(* concern, with no word about requests, locks or rounds: an application   *)
(* appears once, moves forward one stage at a time, ends once, and every   *)
(* move made by somebody is told to the other side in the same instant.    *)
(* Applications shows that the code does this.                              *)
(***************************************************************************)
EXTENDS Sequences

CONSTANT Pairs          \* the (candidate, job) pairs an application may link

VARIABLES application,  \* the application of each pair
          told          \* what was notified about it, oldest first

lifecycle == <<application, told>>

Absent == [status |-> "none", type |-> "none", closed |-> FALSE, reason |-> FALSE]

Ongoing == {"under_review", "in_selection_process"}

\* An application at a stage: closed once it is over, with a reason exactly when
\* it was turned down.
AtStage(stage, type) ==
    [status |-> stage, type |-> type,
     closed |-> stage \notin Ongoing, reason |-> stage = "not_selected"]

\* The stages a company may move an ongoing application between.
Forward == {<<"under_review", "in_selection_process">>,
            <<"under_review", "not_selected">>,
            <<"in_selection_process", "not_selected">>,
            <<"in_selection_process", "hired">>}

LInit == /\ application = [p \in Pairs |-> Absent]
         /\ told = [p \in Pairs |-> <<>>]

\* The candidate applies, and the company hears of it.
Apply(p) ==
    /\ application[p] = Absent
    /\ application' = [application EXCEPT ![p] = AtStage("under_review", "active")]
    /\ told' = [told EXCEPT ![p] = Append(@, "received")]

\* The platform applies on behalf of several candidates, and nobody is told.
ApplyForThem(P) ==
    /\ P # {}
    /\ \A p \in P : application[p] = Absent
    /\ application' = [p \in Pairs |-> IF p \in P THEN AtStage("under_review", "automatic")
                                       ELSE application[p]]
    /\ UNCHANGED told

\* The company decides, and the candidate hears the new stage.
Decide(p, stage) ==
    /\ <<application[p].status, stage>> \in Forward
    /\ application' = [application EXCEPT ![p] = AtStage(stage, application[p].type)]
    /\ told' = [told EXCEPT ![p] = Append(@, stage)]

\* The candidate leaves an ongoing process for good; nobody is told.
Leave(p) ==
    /\ application[p].status \in Ongoing
    /\ application' = [application EXCEPT ![p] = AtStage("withdrawn", application[p].type)]
    /\ UNCHANGED told

LNext == \/ \E p \in Pairs : Apply(p) \/ Leave(p)
         \/ \E P \in SUBSET Pairs : ApplyForThem(P)
         \/ \E p \in Pairs, stage \in {"in_selection_process", "not_selected", "hired"} :
               Decide(p, stage)

LSpec == LInit /\ [][LNext]_lifecycle
===============================================================================
