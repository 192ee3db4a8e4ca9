------------------------------ MODULE SkillCatalog ------------------------------
(***************************************************************************)
(* The catalogue of skills: companies that post a job type names, which    *)
(* find or create entries; administrators create, rename, deactivate and   *)
(* reactivate them.                                                        *)
(*                                                                         *)
(* Every request is a PostgreSQL transaction at READ COMMITTED.  An insert *)
(* waits while another transaction has the same normalized name in an      *)
(* uncommitted row, or is renaming the row that has it; a link to a skill  *)
(* waits while its row is locked FOR UPDATE.                               *)
(***************************************************************************)
EXTENDS Naturals, FiniteSets

CONSTANTS Skills,     \* the row ids an instance can use
          Names,      \* normalized names, in the order the code sorts them
          Requests,   \* threads serving requests
          None        \* no name, no lock holder

ASSUME NamesAssumption == Names \subseteq Nat
ASSUME RequestsAssumption == IsFiniteSet(Requests)  \* the server's thread pool
ASSUME NoneAssumption == None \notin Names /\ None \notin Requests

VARIABLES skill,      \* the committed rows of the catalogue
          lock,       \* the request that holds each skill's row FOR UPDATE
          request     \* what each thread is doing

catalog == <<skill, lock>>

Absent == [name |-> None, active |-> FALSE]
Entries == [name : Names, active : BOOLEAN]
Inserted == [id : Skills, name : Names]

Idle == [op |-> "idle"]
PostStates ==
    [op : {"post"}, pc : {"insert", "read", "link"}, names : SUBSET Names,
     left : SUBSET Names, made : SUBSET Inserted, skills : SUBSET Skills]
UpdateStates ==
    [op : {"update"}, pc : {"write", "index"}, id : Skills, name : Names, active : BOOLEAN]

CatalogInit ==
    /\ skill = [s \in Skills |-> Absent]
    /\ lock = [s \in Skills |-> None]
    /\ request = [r \in Requests |-> Idle]

-------------------------------------------------------------------------------
\* Transactions and the unique index on the normalized name.

At(r, op, pc) == request[r].op = op /\ request[r].pc = pc
Goto(r, state) == request' = [request EXCEPT ![r] = state]
EndCatalog(r) ==
    /\ Goto(r, Idle)
    /\ lock' = [s \in Skills |-> IF lock[s] = r THEN None ELSE lock[s]]
RefuseCatalog(r) == EndCatalog(r) /\ UNCHANGED skill

Taken(n) == \E s \in Skills : skill[s].name = n
Made(r) == IF request[r].op = "post" THEN request[r].made ELSE {}
Fresh(s) == skill[s] = Absent /\ \A o \in Requests : \A row \in Made(o) : row.id # s

\* What other transactions have not committed yet and may still take back.
Holds(o, n) ==
    \/ \E row \in Made(o) : row.name = n
    \/ At(o, "update", "index") /\ skill[request[o].id].name = n
Held(r, n) == \E o \in Requests \ {r} : Holds(o, n)

-------------------------------------------------------------------------------
\* Posting a job: find_or_create_skills in the transaction of publish_job or update_job.

\* A new job, or one whose row update_job has locked: no two requests post the same.
BeginPost(r) == \E names \in (SUBSET Names) \ {{}} :
    /\ request[r] = Idle
    /\ Goto(r, [op |-> "post", pc |-> "insert", names |-> names,
                left |-> names, made |-> {}, skills |-> {}])
    /\ UNCHANGED catalog

\* The statement lists the names in order, whatever order they were typed in.
IsNext(r, n) == n \in request[r].left /\ \A m \in request[r].left : n <= m

\* The rows of the statement are inserted one after the other; ON CONFLICT DO
\* NOTHING skips a name that is there.
InsertAs(r, n) ==
    LET q == request[r]
        left == q.left \ {n}
        pc == IF left = {} THEN "read" ELSE "insert"
    IN \/ /\ Taken(n)
          /\ Goto(r, [q EXCEPT !.left = left, !.pc = pc])
       \/ /\ ~Taken(n)
          /\ \E s \in Skills :
                /\ Fresh(s)
                /\ Goto(r, [q EXCEPT !.left = left, !.pc = pc,
                                     !.made = @ \cup {[id |-> s, name |-> n]}])

\* Mutants of InsertName: in the order typed; without a unique index to wait for.
InsertInAnyOrder(r) ==
    /\ At(r, "post", "insert")
    /\ \E n \in request[r].left : ~Held(r, n) /\ InsertAs(r, n)
    /\ UNCHANGED catalog

InsertWithoutWaiting(r) ==
    /\ At(r, "post", "insert")
    /\ \E n \in Names : IsNext(r, n) /\ InsertAs(r, n)
    /\ UNCHANGED catalog

InsertName(r) ==
    /\ At(r, "post", "insert")
    /\ \E n \in Names : IsNext(r, n) /\ ~Held(r, n) /\ InsertAs(r, n)
    /\ UNCHANGED catalog

\* Every name is looked up among the committed rows and the request's own.  One that
\* was there and has been renamed since is missing: KeyError.
ResolveNames(r) ==
    /\ At(r, "post", "read")
    /\ LET q == request[r]
           found == {s \in Skills : skill[s].name \in q.names}
           named == {skill[s].name : s \in found} \cup {row.name : row \in q.made}
       IN \/ /\ named = q.names
             /\ Goto(r, [q EXCEPT !.pc = "link",
                                  !.skills = found \cup {row.id : row \in q.made}])
             /\ UNCHANGED catalog
          \/ named # q.names /\ RefuseCatalog(r)

\* The catalogue once a request's new rows are committed; they begin active.
WithRows(made) ==
    [s \in Skills |-> IF \E row \in made : row.id = s
                      THEN [name |-> (CHOOSE row \in made : row.id = s).name, active |-> TRUE]
                      ELSE skill[s]]

\* The job's links replace the ones it had (nothing here reads them), each waiting for
\* its skill's row, and all of it commits.
LinkJob(r) ==
    /\ At(r, "post", "link")
    /\ \A s \in request[r].skills : lock[s] = None
    /\ skill' = WithRows(request[r].made)
    /\ EndCatalog(r)

-------------------------------------------------------------------------------
\* Administration.

\* One statement and its commit; a name that is there is a conflict.
CreateSkill == \E s \in Skills, n \in Names :
    /\ \A o \in Requests : ~Holds(o, n)
    /\ ~Taken(n) /\ Fresh(s)
    /\ skill' = [skill EXCEPT ![s] = [name |-> n, active |-> TRUE]]
    /\ UNCHANGED <<lock, request>>

\* The row is locked; what the request leaves out stays as it is.
LockSkill(r) == \E s \in Skills, n \in Names, active \in BOOLEAN :
    /\ request[r] = Idle
    /\ skill[s] # Absent /\ lock[s] = None
    /\ lock' = [lock EXCEPT ![s] = r]
    /\ Goto(r, [op |-> "update", pc |-> "write", id |-> s, name |-> n, active |-> active])
    /\ UNCHANGED skill

\* Mutant of UpdateSkill: a name the request leaves out is written as null.
UpdateSkillClearing(r) ==
    /\ At(r, "update", "write")
    /\ skill' = [skill EXCEPT ![request[r].id] = [name |-> None, active |-> request[r].active]]
    /\ EndCatalog(r)

\* A new name goes through the unique index; anything else commits at once.
UpdateSkill(r) ==
    /\ At(r, "update", "write")
    /\ LET q == request[r] IN
       \/ /\ q.name = skill[q.id].name
          /\ skill' = [skill EXCEPT ![q.id].active = q.active]
          /\ EndCatalog(r)
       \/ /\ q.name # skill[q.id].name
          /\ Goto(r, [q EXCEPT !.pc = "index"])
          /\ UNCHANGED <<skill, lock>>

RenameSkill(r) ==
    /\ At(r, "update", "index")
    /\ LET q == request[r] IN
       /\ ~Held(r, q.name)
       /\ \/ Taken(q.name) /\ RefuseCatalog(r)
          \/ /\ ~Taken(q.name)
             /\ skill' = [skill EXCEPT ![q.id] = [name |-> q.name, active |-> q.active]]
             /\ EndCatalog(r)

\* Any statement may fail; PostgreSQL also ends one request of a deadlock this way.
AbortCatalog(r) == request[r].op \in {"post", "update"} /\ RefuseCatalog(r)

CatalogStep ==
    \/ CreateSkill
    \/ \E r \in Requests :
          \/ BeginPost(r) \/ InsertName(r) \/ ResolveNames(r) \/ LinkJob(r)
          \/ LockSkill(r) \/ UpdateSkill(r) \/ RenameSkill(r) \/ AbortCatalog(r)

-------------------------------------------------------------------------------
\* Properties.

\* A name is in the catalogue once, however many requests create it or rename other
\* skills to it at the same time (docs/SKILL_CATALOG.md, "Identity of a skill").
NamesAreUnique ==
    \A s, t \in Skills : skill[s] # Absent /\ skill[s].name = skill[t].name => s = t

Waits(r, o) ==
    /\ r # o
    /\ \/ At(r, "post", "insert") /\ \E n \in Names : IsNext(r, n) /\ Holds(o, n)
       \/ At(r, "post", "link") /\ \E s \in request[r].skills : lock[s] = o
       \/ At(r, "update", "index") /\ Holds(o, request[r].name)

\* Requests that create the same skills wait for one another but never in a circle
\* (find_or_create_skills.py:48): a circle has an administrator's rename in it.
CreatorsNeverDeadlock ==
    \A circle \in (SUBSET Requests) \ {{}} :
       (\A r \in circle : \E o \in circle : Waits(r, o))
          => \E r \in circle : At(r, "update", "index")
===============================================================================
