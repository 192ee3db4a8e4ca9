------------------------------ MODULE ResumesProofs ------------------------------
(***************************************************************************)
(* Proofs about Resumes, for any number of requests, candidates, skills,   *)
(* names, records and dates.                                               *)
(***************************************************************************)
EXTENDS Resumes, FiniteSetTheorems, WellFoundedInduction, TLAPS

-------------------------------------------------------------------------------
\* Types.

LEMMA InitialTypes == Init => TypeOK
  BY DEF Init, CatalogInit, TypeOK, RequestStates

\* What a request carries follows from its operation.
LEMMA Shape ==
    ASSUME NEW q \in RequestStates
    PROVE  /\ q.op = "idle" => q = Idle
           /\ q.op = "post" => q \in PostStates
           /\ q.op = "update" => q \in UpdateStates
           /\ q.op = "add" => q \in AddStates
           /\ q.op = "replace" => q \in ReplaceStates
           /\ q.op = "remove" => q \in RemoveStates
           /\ q.op = "edit" => q \in EditStates
           /\ q.op \in {"idle", "post", "update", "add", "replace", "remove", "edit"}
  BY DEF RequestStates, Idle, PostStates, UpdateStates, AddStates, ReplaceStates,
     RemoveStates, EditStates

LEMMA GotoType ==
    ASSUME TypeOK, NEW r \in Requests, NEW state \in RequestStates, Goto(r, state)
    PROVE  /\ request' \in [Requests -> RequestStates]
           /\ request'[r] = state
           /\ \A o \in Requests \ {r} : request'[o] = request[o]
  BY DEF TypeOK, Goto

LEMMA GotoIdle ==
    ASSUME TypeOK, NEW r \in Requests, Goto(r, Idle)
    PROVE  /\ request' \in [Requests -> RequestStates]
           /\ request'[r] = Idle
           /\ \A o \in Requests \ {r} : request'[o] = request[o]
  BY GotoType DEF RequestStates

LEMMA EndCatalogType ==
    ASSUME TypeOK, NEW r \in Requests, EndCatalog(r)
    PROVE  /\ request' \in [Requests -> RequestStates]
           /\ request'[r] = Idle
           /\ \A o \in Requests \ {r} : request'[o] = request[o]
           /\ lock' \in [Skills -> Requests \cup {None}]
           /\ \A s \in Skills : lock'[s] = IF lock[s] = r THEN None ELSE lock[s]
<1>1. Goto(r, Idle) /\ lock' = [s \in Skills |-> IF lock[s] = r THEN None ELSE lock[s]]
  BY DEF EndCatalog
<1>. QED
  BY <1>1, GotoIdle DEF TypeOK

\* A removal keeps its operation whatever others delete.
LEMMA CommitDeletingType ==
    ASSUME TypeOK, NEW r \in Requests, NEW c \in Candidates, NEW deleted \in SUBSET Links,
           CommitDeleting(r, c, deleted)
    PROVE  /\ request' \in [Requests -> RequestStates]
           /\ request'[r] = Idle
           /\ \A o \in Requests \ {r} :
                 \/ request'[o] = request[o]
                 \/ /\ request[o].op = "remove" /\ request'[o].op = "remove"
                    /\ request'[o] \in RemoveStates
<1>1. ASSUME NEW o \in Requests, request[o].op = "remove"
      PROVE  /\ [request[o] EXCEPT !.gone = TRUE] \in RemoveStates
             /\ [request[o] EXCEPT !.gone = TRUE].op = "remove"
  <2>1. request[o] \in RemoveStates
    BY <1>1, Shape DEF TypeOK
  <2>. QED
    BY <2>1 DEF RemoveStates
<1>2. ASSUME NEW o \in Requests \ {r}
      PROVE  /\ request'[o] \in RequestStates
             /\ \/ request'[o] = request[o]
                \/ /\ request[o].op = "remove" /\ request'[o].op = "remove"
                   /\ request'[o] \in RemoveStates
  BY <1>1 DEF CommitDeleting, TypeOK, RequestStates
<1>3. request'[r] = Idle
  BY DEF CommitDeleting
<1>. QED
  BY <1>2, <1>3 DEF CommitDeleting, RequestStates

LEMMA InsertType ==
    ASSUME TypeOK, NEW r \in Requests, InsertName(r), UNCHANGED rows
    PROVE  TypeOK'
<1>. DEFINE q == request[r]
<1>1. q \in PostStates
  BY Shape DEF TypeOK, InsertName, At
<1>2. PICK n \in Names : InsertAs(r, n)
  BY DEF InsertName
<1>3. ASSUME NEW pc \in {"insert", "read"}, NEW made \in SUBSET Inserted
      PROVE  /\ [q EXCEPT !.left = q.left \ {n}, !.pc = pc] \in RequestStates
             /\ [q EXCEPT !.left = q.left \ {n}, !.pc = pc, !.made = made] \in RequestStates
  BY <1>1 DEF PostStates, RequestStates
<1>4. ASSUME NEW s \in Skills
      PROVE  q.made \cup {[id |-> s, name |-> n]} \in SUBSET Inserted
  BY <1>1 DEF PostStates, Inserted
<1>5. \E state \in RequestStates : Goto(r, state)
  BY <1>2, <1>3, <1>4 DEF InsertAs
<1>. QED
  BY <1>5, GotoType DEF InsertName, TypeOK, catalog, rows

LEMMA PostType ==
    ASSUME TypeOK, NEW r \in Requests, BeginPost(r) \/ ResolveNames(r)
    PROVE  /\ request' \in [Requests -> RequestStates]
           /\ lock' \in [Skills -> Requests \cup {None}]
           /\ skill' = skill
<1>1. CASE BeginPost(r)
  <2>1. PICK names \in SUBSET Names :
           Goto(r, [op |-> "post", pc |-> "insert", names |-> names,
                    left |-> names, made |-> {}, skills |-> {}])
    BY <1>1 DEF BeginPost
  <2>. QED
    BY <1>1, <2>1, GotoType DEF BeginPost, RequestStates, PostStates, TypeOK, catalog
<1>2. CASE ResolveNames(r)
  <2>. DEFINE q == request[r]
              found == {s \in Skills : skill[s].name \in q.names}
              skills == found \cup {row.id : row \in q.made}
  <2>1. q \in PostStates
    BY <1>2, Shape DEF TypeOK, ResolveNames, At
  <2>2. skills \in SUBSET Skills
    BY <2>1 DEF PostStates, Inserted
  <2>3. [q EXCEPT !.pc = "link", !.skills = skills] \in RequestStates
    BY <2>1, <2>2 DEF PostStates, RequestStates
  <2>4. CASE Goto(r, [q EXCEPT !.pc = "link", !.skills = skills]) /\ UNCHANGED catalog
    BY <2>3, <2>4, GotoType DEF TypeOK, catalog
  <2>5. CASE RefuseCatalog(r)
    BY <2>5, EndCatalogType DEF RefuseCatalog
  <2>. QED
    BY <1>2, <2>4, <2>5 DEF ResolveNames
<1>. QED
  BY <1>1, <1>2

\* The rows a post commits are active entries.
LEMMA WithRowsType ==
    ASSUME TypeOK, NEW made \in SUBSET Inserted
    PROVE  /\ WithRows(made) \in [Skills -> Entries \cup {Absent}]
           /\ \A s \in Skills :
                 \/ \E row \in made : row.id = s /\ WithRows(made)[s] = [name |-> row.name, active |-> TRUE]
                 \/ (\A row \in made : row.id # s) /\ WithRows(made)[s] = skill[s]
<1>1. ASSUME NEW s \in Skills, \E row \in made : row.id = s
      PROVE  \E row \in made : row.id = s /\ WithRows(made)[s] = [name |-> row.name, active |-> TRUE]
  <2>. DEFINE row == CHOOSE row \in made : row.id = s
  <2>1. row \in made /\ row.id = s
    BY <1>1
  <2>2. WithRows(made)[s] = [name |-> row.name, active |-> TRUE]
    BY <1>1 DEF WithRows
  <2>. QED
    BY <2>1, <2>2
<1>2. ASSUME NEW s \in Skills, ~\E row \in made : row.id = s
      PROVE  WithRows(made)[s] = skill[s]
  BY <1>2 DEF WithRows
<1>3. ASSUME NEW row \in made
      PROVE  [name |-> row.name, active |-> TRUE] \in Entries
  BY DEF Inserted, Entries
<1>4. ASSUME NEW s \in Skills
      PROVE  WithRows(made)[s] \in Entries \cup {Absent}
  <2>1. CASE \E row \in made : row.id = s
    <3>1. PICK row \in made : WithRows(made)[s] = [name |-> row.name, active |-> TRUE]
      BY <1>1, <2>1
    <3>. QED
      BY <1>3, <3>1
  <2>2. CASE ~\E row \in made : row.id = s
    BY <1>2, <2>2 DEF TypeOK
  <2>. QED
    BY <2>1, <2>2
<1>5. WithRows(made) = [s \in Skills |-> WithRows(made)[s]]
  BY DEF WithRows
<1>6. WithRows(made) \in [Skills -> Entries \cup {Absent}]
  BY <1>4, <1>5
<1>. QED
  BY <1>1, <1>2, <1>6

LEMMA CatalogType ==
    ASSUME TypeOK, NEW r \in Requests,
           LinkJob(r) \/ LockSkill(r) \/ UpdateSkill(r) \/ RenameSkill(r) \/ AbortCatalog(r)
    PROVE  /\ request' \in [Requests -> RequestStates]
           /\ lock' \in [Skills -> Requests \cup {None}]
           /\ skill' \in [Skills -> Entries \cup {Absent}]
<1>. DEFINE q == request[r]
<1>1. CASE LinkJob(r)
  <2>1. q \in PostStates
    BY <1>1, Shape DEF TypeOK, LinkJob, At
  <2>2. q.made \in SUBSET Inserted
    BY <2>1 DEF PostStates
  <2>. QED
    BY <1>1, <2>2, WithRowsType, EndCatalogType DEF LinkJob
<1>2. CASE LockSkill(r)
  <2>1. PICK s \in Skills, n \in Names, active \in BOOLEAN :
          /\ lock' = [lock EXCEPT ![s] = r]
          /\ Goto(r, [op |-> "update", pc |-> "write", id |-> s, name |-> n, active |-> active])
    BY <1>2 DEF LockSkill
  <2>2. [op |-> "update", pc |-> "write", id |-> s, name |-> n, active |-> active] \in RequestStates
    BY DEF RequestStates, UpdateStates
  <2>. QED
    BY <1>2, <2>1, <2>2, GotoType DEF LockSkill, TypeOK
<1>3. CASE UpdateSkill(r)
  <2>1. q \in UpdateStates
    BY <1>3, Shape DEF TypeOK, UpdateSkill, At
  <2>2. q.id \in Skills /\ q.active \in BOOLEAN /\ q.name \in Names
    BY <2>1 DEF UpdateStates
  <2>3. CASE skill' = [skill EXCEPT ![q.id].active = q.active] /\ EndCatalog(r) /\ q.name = skill[q.id].name
    <3>1. skill[q.id] \in Entries
      BY <2>2, <2>3, NoneAssumption DEF TypeOK, Absent
    <3>2. [skill[q.id] EXCEPT !.active = q.active] \in Entries
      BY <2>2, <3>1 DEF Entries
    <3>3. skill' = [skill EXCEPT ![q.id] = [skill[q.id] EXCEPT !.active = q.active]]
      BY <2>3
    <3>. QED
      BY <2>2, <2>3, <3>2, <3>3, EndCatalogType DEF TypeOK
  <2>4. CASE Goto(r, [q EXCEPT !.pc = "index"]) /\ UNCHANGED <<skill, lock>>
    <3>1. [q EXCEPT !.pc = "index"] \in RequestStates
      BY <2>1 DEF UpdateStates, RequestStates
    <3>. QED
      BY <2>4, <3>1, GotoType DEF TypeOK
  <2>. QED
    BY <1>3, <2>3, <2>4 DEF UpdateSkill
<1>4. CASE RenameSkill(r)
  <2>1. q \in UpdateStates
    BY <1>4, Shape DEF TypeOK, RenameSkill, At
  <2>2. q.id \in Skills /\ [name |-> q.name, active |-> q.active] \in Entries
    BY <2>1 DEF UpdateStates, Entries
  <2>3. CASE RefuseCatalog(r)
    BY <2>3, EndCatalogType DEF RefuseCatalog, TypeOK
  <2>4. CASE /\ skill' = [skill EXCEPT ![q.id] = [name |-> q.name, active |-> q.active]]
             /\ EndCatalog(r)
    BY <2>2, <2>4, EndCatalogType DEF TypeOK
  <2>. QED
    BY <1>4, <2>3, <2>4 DEF RenameSkill
<1>5. CASE AbortCatalog(r)
  BY <1>5, EndCatalogType DEF AbortCatalog, RefuseCatalog, TypeOK
<1>. QED
  BY <1>1, <1>2, <1>3, <1>4, <1>5

LEMMA CatalogTypes == TypeOK /\ CatalogStep /\ UNCHANGED rows => TypeOK'
<1>. SUFFICES ASSUME TypeOK, CatalogStep, UNCHANGED rows
              PROVE  TypeOK'
  OBVIOUS
<1>1. CASE CreateSkill
  BY <1>1 DEF CreateSkill, TypeOK, rows, Entries
<1>2. ASSUME NEW r \in Requests, InsertName(r)
      PROVE  TypeOK'
  BY <1>2, InsertType
<1>3. ASSUME NEW r \in Requests, BeginPost(r) \/ ResolveNames(r)
      PROVE  TypeOK'
  BY <1>3, PostType DEF TypeOK, rows
<1>4. ASSUME NEW r \in Requests,
             LinkJob(r) \/ LockSkill(r) \/ UpdateSkill(r) \/ RenameSkill(r) \/ AbortCatalog(r)
      PROVE  TypeOK'
  BY <1>4, CatalogType DEF TypeOK, rows
<1>. QED
  BY <1>1, <1>2, <1>3, <1>4 DEF CatalogStep

LEMMA BeginTypes ==
    ASSUME TypeOK, NEW r \in Requests,
           \/ AddSkill(r) \/ AddRecord(r) \/ AddSummary(r)
           \/ ReadSkills(r) \/ FindLink(r) \/ ReadRecord(r)
    PROVE  TypeOK'
<1>1. ASSUME NEW c \in Candidates, NEW item \in Skills \cup Records \cup {None}, Begin(r, c, item)
      PROVE  TypeOK'
  <2>1. [op |-> "add", pc |-> "resume", who |-> c, item |-> item, created |-> FALSE] \in RequestStates
    BY DEF RequestStates, AddStates
  <2>. QED
    BY <1>1, <2>1, GotoType DEF Begin, TypeOK, catalog, rows
<1>2. CASE AddSkill(r) \/ AddRecord(r) \/ AddSummary(r)
  BY <1>1, <1>2 DEF AddSkill, AddRecord, AddSummary
<1>3. CASE ReadSkills(r)
  <2>1. PICK c \in Candidates, wanted \in SUBSET Skills :
           /\ Goto(r, [op |-> "replace", pc |-> "lock", who |-> c, wanted |-> wanted,
                       inactive |-> {s \in wanted : ~skill[s].active},
                       created |-> FALSE, deleted |-> {}])
           /\ UNCHANGED <<catalog, rows>>
    BY <1>3 DEF ReadSkills
  <2>2. [op |-> "replace", pc |-> "lock", who |-> c, wanted |-> wanted,
         inactive |-> {s \in wanted : ~skill[s].active},
         created |-> FALSE, deleted |-> {}] \in RequestStates
    BY DEF RequestStates, ReplaceStates
  <2>. QED
    BY <2>1, <2>2, GotoType DEF TypeOK, catalog, rows
<1>4. CASE FindLink(r)
  <2>1. PICK c \in Candidates, s \in Skills :
           /\ s \in Linked(c)
           /\ Goto(r, [op |-> "remove", who |-> c, skill |-> s, gone |-> FALSE])
           /\ UNCHANGED <<catalog, rows>>
    <3>1. ASSUME NEW c \in Candidates
          PROVE  Linked(c) \subseteq Skills
      BY DEF Linked, TypeOK, Links
    <3>. QED
      BY <1>4, <3>1 DEF FindLink
  <2>2. [op |-> "remove", who |-> c, skill |-> s, gone |-> FALSE] \in RequestStates
    BY DEF RequestStates, RemoveStates
  <2>. QED
    BY <2>1, <2>2, GotoType DEF TypeOK, catalog, rows
<1>5. CASE ReadRecord(r)
  <2>1. PICK d \in Records :
           /\ records[d] # Removed
           /\ Goto(r, [op |-> "edit", record |-> d, read |-> records[d]])
           /\ UNCHANGED <<catalog, rows>>
    BY <1>5 DEF ReadRecord
  <2>2. [op |-> "edit", record |-> d, read |-> records[d]] \in RequestStates
    BY <2>1 DEF RequestStates, EditStates, TypeOK
  <2>. QED
    BY <2>1, <2>2, GotoType DEF TypeOK, catalog, rows
<1>. QED
  BY <1>2, <1>3, <1>4, <1>5

\* Steps that only read, or only take what they wait for.
LEMMA ReadTypes ==
    ASSUME TypeOK, NEW r \in Requests,
           \/ ReadResume(r) \/ CreateResume(r)
           \/ LockCandidate(r) \/ CheckKept(r) \/ DeleteLinks(r) \/ Abort(r)
    PROVE  TypeOK'
<1>. DEFINE q == request[r]
<1>1. ASSUME NEW state \in RequestStates, Goto(r, state), UNCHANGED <<catalog, rows>>
      PROVE  TypeOK'
  BY <1>1, GotoType DEF TypeOK, catalog, rows
<1>2. Idle \in RequestStates
  BY DEF RequestStates
<1>3. CASE ReadResume(r) \/ CreateResume(r)
  <2>1. q \in AddStates
    BY <1>3, Shape DEF TypeOK, ReadResume, CreateResume, At
  <2>2. /\ [q EXCEPT !.pc = "create"] \in RequestStates
        /\ [q EXCEPT !.pc = "save"] \in RequestStates
        /\ [q EXCEPT !.pc = "save", !.created = TRUE] \in RequestStates
    BY <2>1 DEF AddStates, RequestStates
  <2>. QED
    BY <1>1, <1>2, <1>3, <2>2 DEF ReadResume, CreateResume
<1>4. CASE LockCandidate(r) \/ CheckKept(r) \/ DeleteLinks(r)
  <2>1. q \in ReplaceStates
    BY <1>4, Shape DEF TypeOK, LockCandidate, CheckKept, DeleteLinks, At
  <2>2. links[q.who] \in SUBSET Links
    BY <2>1 DEF ReplaceStates, TypeOK
  <2>3. /\ [q EXCEPT !.pc = "check", !.created = q.who \notin resume] \in RequestStates
        /\ [q EXCEPT !.pc = "delete"] \in RequestStates
        /\ [q EXCEPT !.pc = "insert", !.deleted = links[q.who]] \in RequestStates
    BY <2>1, <2>2 DEF ReplaceStates, RequestStates
  <2>. QED
    BY <1>1, <1>2, <1>4, <2>3 DEF LockCandidate, CheckKept, DeleteLinks
<1>5. CASE Abort(r)
  BY <1>1, <1>2, <1>5 DEF Abort, Stop
<1>. QED
  BY <1>3, <1>4, <1>5

LEMMA SaveTypes ==
    ASSUME TypeOK, NEW r \in Requests, SaveSkill(r) \/ SaveRecord(r)
    PROVE  TypeOK'
<1>. DEFINE q == request[r]
<1>1. q \in AddStates
  BY Shape DEF TypeOK, SaveSkill, SaveRecord, At
<1>2. q.who \in Candidates /\ q.item \in Skills \cup Records \cup {None}
  BY <1>1 DEF AddStates
<1>3. request' \in [Requests -> RequestStates]
  BY GotoIdle DEF SaveSkill, SaveRecord
<1>4. CASE SaveSkill(r)
  <2>1. q.item \in Skills /\ UNCHANGED <<catalog, records>>
    BY <1>4 DEF SaveSkill
  <2>2. [skill |-> q.item, by |-> None] \in Links
    BY <2>1 DEF Links
  <2>3. links' \in [Candidates -> SUBSET Links] /\ resume' \subseteq Candidates
    BY <1>2, <1>4, <2>2 DEF SaveSkill, TypeOK
  <2>. QED
    BY <1>3, <2>1, <2>3 DEF TypeOK, catalog
<1>5. CASE SaveRecord(r)
  <2>1. UNCHANGED <<catalog, links>> /\ resume' = resume \cup {q.who}
    BY <1>5 DEF SaveRecord
  <2>2. records' \in [Records -> Periods \cup {Removed}]
    BY <1>5 DEF SaveRecord, TypeOK
  <2>. QED
    BY <1>2, <1>3, <2>1, <2>2 DEF TypeOK, catalog
<1>. QED
  BY <1>4, <1>5

LEMMA LinkTypes ==
    ASSUME TypeOK, NEW r \in Requests, InsertLinks(r) \/ RemoveSkill(r)
    PROVE  TypeOK'
<1>. DEFINE q == request[r]
<1>1. CASE InsertLinks(r)
  <2>. DEFINE others == links[q.who] \ q.deleted
  <2>1. q \in ReplaceStates
    BY <1>1, Shape DEF TypeOK, InsertLinks, At
  <2>2. q.who \in Candidates /\ q.wanted \in SUBSET Skills /\ q.deleted \in SUBSET Links
    BY <2>1 DEF ReplaceStates
  <2>3. others \cup {[skill |-> s, by |-> r] : s \in q.wanted} \in SUBSET Links
    BY <2>2 DEF TypeOK, Links
  <2>4. CASE /\ links' = [links EXCEPT ![q.who] =
                             others \cup {[skill |-> s, by |-> r] : s \in q.wanted}]
             /\ resume' = resume \cup {q.who}
             /\ CommitDeleting(r, q.who, q.deleted)
    <3>1. request' \in [Requests -> RequestStates]
      BY <2>2, <2>4, CommitDeletingType
    <3>2. links' \in [Candidates -> SUBSET Links] /\ resume' \subseteq Candidates
      BY <2>2, <2>3, <2>4 DEF TypeOK
    <3>. QED
      BY <1>1, <3>1, <3>2 DEF InsertLinks, TypeOK, catalog
  <2>5. CASE Goto(r, Idle) /\ UNCHANGED <<links, resume>>
    BY <1>1, <2>5, GotoIdle DEF InsertLinks, TypeOK, catalog
  <2>. QED
    BY <1>1, <2>4, <2>5 DEF InsertLinks
<1>2. CASE RemoveSkill(r)
  <2>. DEFINE found == {l \in links[q.who] : l.skill = q.skill /\ ~q.gone}
  <2>1. q \in RemoveStates
    BY <1>2, Shape DEF TypeOK, RemoveSkill
  <2>2. q.who \in Candidates /\ found \in SUBSET Links
    BY <2>1 DEF RemoveStates, TypeOK
  <2>3. CommitDeleting(r, q.who, found) /\ links' = [links EXCEPT ![q.who] = @ \ found]
    BY <1>2 DEF RemoveSkill
  <2>4. request' \in [Requests -> RequestStates]
    BY <2>2, <2>3, CommitDeletingType
  <2>5. links' \in [Candidates -> SUBSET Links]
    BY <2>2, <2>3 DEF TypeOK
  <2>. QED
    BY <1>2, <2>4, <2>5 DEF RemoveSkill, TypeOK, catalog
<1>. QED
  BY <1>1, <1>2

LEMMA RecordTypes ==
    ASSUME TypeOK, RemoveRecord \/ \E r \in Requests : UpdateRecord(r)
    PROVE  TypeOK'
<1>1. CASE RemoveRecord
  BY <1>1 DEF RemoveRecord, TypeOK, catalog
<1>2. ASSUME NEW r \in Requests, UpdateRecord(r)
      PROVE  TypeOK'
  <2>. DEFINE q == request[r]
  <2>1. q \in EditStates /\ q.record \in Records /\ q.read \in Periods
    <3>1. q \in EditStates
      BY <1>2, Shape DEF TypeOK, UpdateRecord
    <3>. QED
      BY <3>1 DEF EditStates
  <2>2. request' \in [Requests -> RequestStates]
    BY <1>2, GotoIdle DEF UpdateRecord
  <2>3. ASSUME NEW asked \in Periods, records[q.record] # Removed
        PROVE  Written(q.record, q.read, asked) \in Periods
    <3>1. records[q.record] \in Periods
      BY <2>1, <2>3 DEF TypeOK
    <3>. QED
      BY <3>1 DEF Written, Periods
  <2>4. records' \in [Records -> Periods \cup {Removed}]
    BY <1>2, <2>1, <2>3 DEF UpdateRecord, TypeOK
  <2>. QED
    BY <1>2, <2>2, <2>4 DEF UpdateRecord, TypeOK, catalog
<1>. QED
  BY <1>1, <1>2

LEMMA NextTypes == TypeOK /\ [Next]_vars => TypeOK'
<1>1. TypeOK /\ UNCHANGED vars => TypeOK'
  BY DEF TypeOK, vars, catalog, rows
<1>. QED
  BY <1>1, CatalogTypes, BeginTypes, ReadTypes, SaveTypes, LinkTypes, RecordTypes DEF Next

\* Every request, lock, link and period is one the code can produce.
THEOREM TypeCorrect == Spec => []TypeOK
  BY InitialTypes, NextTypes, PTL DEF Spec

-------------------------------------------------------------------------------
\* The catalogue.

\* A skill's row is locked by the update that holds it, and a skill that is updated
\* exists.
LocksAreUpdates ==
    /\ \A s \in Skills : lock[s] # None => request[lock[s]].op = "update"
    /\ \A r \in Requests : request[r].op = "update" => skill[request[r].id] # Absent

\* Uncommitted rows have ids and names of their own, which the catalogue has not.
RowsAreApart ==
    /\ \A r, o \in Requests : \A a \in Made(r), b \in Made(o) :
          a.id = b.id \/ a.name = b.name => r = o /\ a = b
    /\ \A r \in Requests : \A a \in Made(r) : skill[a.id] = Absent /\ ~Taken(a.name)

\* What a request has inserted comes before what it has left.
InsertedInOrder ==
    \A r \in Requests : At(r, "post", "insert") =>
       \A a \in Made(r), n \in request[r].left : a.name < n

CatalogInv == NamesAreUnique /\ LocksAreUpdates /\ RowsAreApart /\ InsertedInOrder

LEMMA InitialCatalog == Init => CatalogInv
  BY DEF Init, CatalogInit, CatalogInv, NamesAreUnique, LocksAreUpdates, RowsAreApart,
     InsertedInOrder, Made, Idle, At

LEMMA MadeType ==
    ASSUME TypeOK, NEW r \in Requests
    PROVE  /\ Made(r) \in SUBSET Inserted
           /\ \A a \in Made(r) : a.id \in Skills /\ a.name \in Names
           /\ request[r].op # "post" => Made(r) = {}
           /\ request[r].op = "post" => Made(r) = request[r].made
<1>1. Made(r) \in SUBSET Inserted
  BY Shape DEF TypeOK, Made, PostStates
<1>. QED
  BY <1>1 DEF Made, Inserted

\* A step that ends or advances requests of other operations, and leaves the
\* catalogue as it is.
LEMMA QuietStep ==
    ASSUME TypeOK, TypeOK', CatalogInv, skill' = skill,
           \A s \in Skills : lock'[s] \in {lock[s], None},
           \A o \in Requests : \/ request'[o] = request[o]
                               \/ /\ request'[o].op \notin {"post", "update"}
                                  /\ \A s \in Skills : lock'[s] # o
    PROVE  CatalogInv'
<1>1. ASSUME NEW o \in Requests
      PROVE  /\ Made(o)' = Made(o) \/ Made(o)' = {}
             /\ At(o, "post", "insert")' => request'[o] = request[o]
             /\ request'[o].op = "update" => request'[o] = request[o]
  BY DEF Made, At
<1>2. NamesAreUnique'
  BY DEF CatalogInv, NamesAreUnique
<1>3. LocksAreUpdates'
  <2>1. ASSUME NEW s \in Skills, lock'[s] # None
        PROVE  request'[lock'[s]].op = "update"
    <3>1. lock'[s] = lock[s] /\ lock[s] \in Requests
      BY <2>1 DEF TypeOK
    <3>. QED
      BY <2>1, <3>1 DEF CatalogInv, LocksAreUpdates
  <2>. QED
    BY <1>1, <2>1 DEF CatalogInv, LocksAreUpdates
<1>4. RowsAreApart'
  BY <1>1 DEF CatalogInv, RowsAreApart, Taken
<1>5. InsertedInOrder'
  BY <1>1 DEF CatalogInv, InsertedInOrder, At, Made
<1>. QED
  BY <1>2, <1>3, <1>4, <1>5 DEF CatalogInv

LEMMA BeginPostInv ==
    ASSUME TypeOK, TypeOK', CatalogInv, NEW r \in Requests, BeginPost(r)
    PROVE  CatalogInv'
<1>1. PICK names \in SUBSET Names :
         Goto(r, [op |-> "post", pc |-> "insert", names |-> names,
                  left |-> names, made |-> {}, skills |-> {}])
  BY DEF BeginPost
<1>2. /\ request'[r].op = "post" /\ Made(r)' = {}
      /\ \A o \in Requests \ {r} : request'[o] = request[o]
      /\ skill' = skill /\ lock' = lock /\ request[r] = Idle
  BY <1>1 DEF BeginPost, Goto, TypeOK, catalog, Made
<1>3. \A o \in Requests : Made(o)' = Made(o) \/ Made(o)' = {}
  BY <1>2 DEF Made
<1>4. NamesAreUnique'
  BY <1>2 DEF CatalogInv, NamesAreUnique
<1>5. LocksAreUpdates'
  <2>1. \A s \in Skills : lock[s] # None => lock[s] \in Requests /\ lock[s] # r
    BY <1>2 DEF CatalogInv, LocksAreUpdates, TypeOK, Idle
  <2>. QED
    BY <1>2, <2>1 DEF CatalogInv, LocksAreUpdates
<1>6. RowsAreApart'
  BY <1>2, <1>3 DEF CatalogInv, RowsAreApart, Taken
<1>7. InsertedInOrder'
  BY <1>2 DEF CatalogInv, InsertedInOrder, At, Made
<1>. QED
  BY <1>4, <1>5, <1>6, <1>7 DEF CatalogInv

LEMMA InsertNameInv ==
    ASSUME TypeOK, TypeOK', CatalogInv, NEW r \in Requests, InsertName(r)
    PROVE  CatalogInv'
<1>. DEFINE q == request[r]
            next == request'[r]
<1>1. PICK n \in Names : IsNext(r, n) /\ ~Held(r, n) /\ InsertAs(r, n)
  BY DEF InsertName
<1>2. q \in PostStates /\ q.op = "post" /\ q.pc = "insert" /\ skill' = skill /\ lock' = lock
  BY Shape DEF TypeOK, InsertName, At, catalog
<1>3. \A o \in Requests \ {r} : request'[o] = request[o]
  BY <1>1 DEF InsertAs, Goto, TypeOK
<1>4. /\ next.op = "post" /\ next.left = q.left \ {n}
      /\ \/ next.made = q.made
         \/ /\ ~Taken(n)
            /\ \E s \in Skills : Fresh(s) /\ next.made = q.made \cup {[id |-> s, name |-> n]}
  <2>1. request \in [Requests -> RequestStates]
    BY DEF TypeOK
  <2>2. ASSUME NEW left, NEW pc, NEW made
        PROVE  /\ [q EXCEPT !.left = left, !.pc = pc].op = "post"
               /\ [q EXCEPT !.left = left, !.pc = pc].left = left
               /\ [q EXCEPT !.left = left, !.pc = pc].made = q.made
               /\ [q EXCEPT !.left = left, !.pc = pc, !.made = made].op = "post"
               /\ [q EXCEPT !.left = left, !.pc = pc, !.made = made].left = left
               /\ [q EXCEPT !.left = left, !.pc = pc, !.made = made].made = made
    BY <1>2 DEF PostStates
  <2>3. ASSUME NEW state, Goto(r, state)
        PROVE  next = state
    BY <2>1, <2>3 DEF Goto
  <2>. DEFINE pc == IF q.left \ {n} = {} THEN "read" ELSE "insert"
  <2>4. \/ Goto(r, [q EXCEPT !.left = q.left \ {n}, !.pc = pc])
        \/ /\ ~Taken(n)
           /\ \E s \in Skills :
                 /\ Fresh(s)
                 /\ Goto(r, [q EXCEPT !.left = q.left \ {n}, !.pc = pc,
                                      !.made = q.made \cup {[id |-> s, name |-> n]}])
    BY <1>1 DEF InsertAs
  <2>5. CASE Goto(r, [q EXCEPT !.left = q.left \ {n}, !.pc = pc])
    <3>1. next = [q EXCEPT !.left = q.left \ {n}, !.pc = pc]
      BY <2>3, <2>5
    <3>. QED
      BY <2>2, <3>1
  <2>6. ASSUME NEW s \in Skills, NEW made, made = q.made \cup {[id |-> s, name |-> n]},
               Goto(r, [q EXCEPT !.left = q.left \ {n}, !.pc = pc, !.made = made])
        PROVE  next.op = "post" /\ next.left = q.left \ {n} /\ next.made = made
    <3>1. next = [q EXCEPT !.left = q.left \ {n}, !.pc = pc, !.made = made]
      BY <2>3, <2>6
    <3>. HIDE DEF pc, next, q
    <3>. QED
      BY <2>2, <3>1
  <2>. HIDE DEF pc, next
  <2>7. CASE /\ ~Taken(n)
             /\ \E s \in Skills :
                   /\ Fresh(s)
                   /\ Goto(r, [q EXCEPT !.left = q.left \ {n}, !.pc = pc,
                                        !.made = q.made \cup {[id |-> s, name |-> n]}])
    BY <2>6, <2>7
  <2>. QED
    BY <2>4, <2>5, <2>7
<1>5. /\ Made(r) = q.made /\ Made(r)' = next.made
      /\ \A o \in Requests \ {r} : Made(o)' = Made(o)
  BY <1>2, <1>3, <1>4 DEF Made
<1>. HIDE DEF next
<1>6. NamesAreUnique'
  BY <1>2 DEF CatalogInv, NamesAreUnique
<1>7. LocksAreUpdates'
  <2>1. \A s \in Skills : lock[s] # None => lock[s] \in Requests /\ lock[s] # r
    BY <1>2 DEF CatalogInv, LocksAreUpdates, TypeOK
  <2>. QED
    BY <1>2, <1>3, <1>4, <2>1 DEF CatalogInv, LocksAreUpdates, next
<1>8. ASSUME NEW a \in Made(r)', a \notin Made(r)
      PROVE  /\ a.name = n /\ ~Taken(n) /\ skill[a.id] = Absent
             /\ \A o \in Requests : \A b \in Made(o) : b.id # a.id
             /\ a = [id |-> a.id, name |-> n]
  <2>1. PICK s \in Skills : Fresh(s) /\ a = [id |-> s, name |-> n]
    BY <1>4, <1>5, <1>8
  <2>. QED
    BY <1>4, <1>5, <1>8, <2>1 DEF Fresh
<1>9. \A o \in Requests \ {r} : \A b \in Made(o) : b.name # n
  BY <1>1 DEF Held, Holds
<1>10. \A a \in Made(r) : a.name # n
  BY <1>1, <1>2, MadeType, NamesAssumption DEF IsNext, CatalogInv, InsertedInOrder, At
<1>11. \A a, b \in Made(r)' : a \notin Made(r) /\ b \notin Made(r) => a = b
  BY <1>4, <1>5
<1>12. RowsAreApart'
  <2>1. ASSUME NEW o \in Requests, NEW p \in Requests, NEW a \in Made(o)', NEW b \in Made(p)',
               a.id = b.id \/ a.name = b.name
        PROVE  o = p /\ a = b
    <3>1. CASE a \in Made(o) /\ b \in Made(p)
      BY <2>1, <3>1 DEF CatalogInv, RowsAreApart
    <3>2. CASE a \notin Made(o) /\ b \in Made(p)
      BY <2>1, <3>2, <1>5, <1>8, <1>9, <1>10
    <3>3. CASE a \in Made(o) /\ b \notin Made(p)
      BY <2>1, <3>3, <1>5, <1>8, <1>9, <1>10
    <3>4. CASE a \notin Made(o) /\ b \notin Made(p)
      BY <3>4, <1>5, <1>11
    <3>. QED
      BY <3>1, <3>2, <3>3, <3>4
  <2>2. ASSUME NEW o \in Requests, NEW a \in Made(o)'
        PROVE  skill'[a.id] = Absent /\ ~Taken(a.name)'
    <3>1. skill[a.id] = Absent /\ ~Taken(a.name)
      <4>1. CASE a \in Made(o)
        BY <4>1 DEF CatalogInv, RowsAreApart
      <4>2. CASE a \notin Made(o)
        BY <4>2, <1>5, <1>8
      <4>. QED
        BY <4>1, <4>2
    <3>. QED
      BY <1>2, <3>1 DEF Taken
  <2>. QED
    BY <2>1, <2>2 DEF RowsAreApart
<1>13. InsertedInOrder'
  <2>1. ASSUME NEW o \in Requests, At(o, "post", "insert")', NEW a \in Made(o)',
               NEW m \in request'[o].left
        PROVE  a.name < m
    <3>1. CASE o # r
      BY <2>1, <3>1, <1>3, <1>5 DEF CatalogInv, InsertedInOrder, At
    <3>2. CASE o = r /\ a \in Made(r)
      BY <2>1, <3>2, <1>2, <1>4 DEF CatalogInv, InsertedInOrder, At, next
    <3>3. CASE o = r /\ a \notin Made(r)
      <4>1. m \in q.left /\ m # n /\ a.name = n
        BY <2>1, <3>3, <1>4, <1>8 DEF next
      <4>2. m \in Nat /\ n \in Nat
        BY <4>1, <1>2, NamesAssumption DEF PostStates
      <4>. QED
        BY <4>1, <4>2, <1>1 DEF IsNext
    <3>. QED
      BY <3>1, <3>2, <3>3
  <2>. QED
    BY <2>1 DEF InsertedInOrder
<1>. QED
  BY <1>6, <1>7, <1>12, <1>13 DEF CatalogInv

LEMMA ResolveInv ==
    ASSUME TypeOK, TypeOK', CatalogInv, NEW r \in Requests, ResolveNames(r)
    PROVE  CatalogInv'
<1>. DEFINE q == request[r]
            skills == {s \in Skills : skill[s].name \in q.names} \cup {row.id : row \in q.made}
<1>1. q \in PostStates
  BY Shape DEF TypeOK, ResolveNames, At
<1>2. CASE RefuseCatalog(r)
  <2>1. skill' = skill
    BY <1>2 DEF RefuseCatalog
  <2>2. /\ \A s \in Skills : lock'[s] \in {lock[s], None} /\ lock'[s] # r
        /\ request'[r] = Idle
        /\ \A o \in Requests \ {r} : request'[o] = request[o]
    BY <1>2, EndCatalogType, NoneAssumption DEF RefuseCatalog
  <2>3. request'[r].op \notin {"post", "update"}
    BY <2>2 DEF Idle
  <2>. QED
    BY <2>1, <2>2, <2>3, QuietStep
<1>3. CASE Goto(r, [q EXCEPT !.pc = "link", !.skills = skills]) /\ UNCHANGED catalog
  <2>1. /\ request'[r] = [q EXCEPT !.pc = "link", !.skills = skills]
        /\ \A o \in Requests \ {r} : request'[o] = request[o]
        /\ skill' = skill /\ lock' = lock
    BY <1>3 DEF Goto, TypeOK, catalog
  <2>. HIDE DEF skills
  <2>2. request'[r].op = "post" /\ request'[r].pc = "link" /\ request'[r].made = q.made /\ q.op = "post"
    BY <1>1, <2>1 DEF PostStates
  <2>3. \A o \in Requests : Made(o)' = Made(o)
    BY <2>1, <2>2 DEF Made
  <2>4. NamesAreUnique' /\ RowsAreApart'
    BY <2>1, <2>3 DEF CatalogInv, NamesAreUnique, RowsAreApart, Taken
  <2>5. LocksAreUpdates'
    <3>1. \A s \in Skills : lock[s] # None => lock[s] \in Requests /\ lock[s] # r
      BY <2>2 DEF CatalogInv, LocksAreUpdates, TypeOK
    <3>. QED
      BY <2>1, <2>2, <3>1 DEF CatalogInv, LocksAreUpdates
  <2>6. InsertedInOrder'
    BY <2>1, <2>2, <2>3 DEF CatalogInv, InsertedInOrder, At
  <2>. QED
    BY <2>4, <2>5, <2>6 DEF CatalogInv
<1>. QED
  BY <1>2, <1>3 DEF ResolveNames

LEMMA LinkJobInv ==
    ASSUME TypeOK, TypeOK', CatalogInv, NEW r \in Requests, LinkJob(r)
    PROVE  CatalogInv'
<1>1. request[r].op = "post" /\ Made(r) = request[r].made
  BY MadeType DEF LinkJob, At
<1>2. skill' = WithRows(Made(r)) /\ EndCatalog(r)
  BY <1>1 DEF LinkJob
<1>3. /\ request'[r] = Idle
      /\ \A o \in Requests \ {r} : request'[o] = request[o]
      /\ \A s \in Skills : lock'[s] = IF lock[s] = r THEN None ELSE lock[s]
  BY <1>2, EndCatalogType
<1>4. /\ Made(r)' = {} /\ request'[r].op = "idle"
      /\ \A o \in Requests \ {r} : Made(o)' = Made(o)
  BY <1>3 DEF Made, Idle
<1>5. ASSUME NEW s \in Skills
      PROVE  \/ \E a \in Made(r) : a.id = s /\ skill'[s] = [name |-> a.name, active |-> TRUE]
             \/ (\A a \in Made(r) : a.id # s) /\ skill'[s] = skill[s]
  BY <1>2, WithRowsType, MadeType
<1>6. ASSUME NEW s \in Skills, NEW n \in Names, skill'[s].name = n
      PROVE  skill[s].name = n \/ \E a \in Made(r) : a.id = s /\ a.name = n
  <2>1. ASSUME NEW a \in Made(r), a.id = s, skill'[s] = [name |-> a.name, active |-> TRUE]
        PROVE  a.name = n
    BY <1>6, <2>1
  <2>2. CASE skill'[s] = skill[s]
    BY <1>6, <2>2
  <2>. QED
    BY <1>5, <2>1, <2>2
<1>7. NamesAreUnique'
  <2>1. ASSUME NEW s \in Skills, NEW t \in Skills,
               skill'[s] # Absent, skill'[s].name = skill'[t].name
        PROVE  s = t
    <3>1. PICK n \in Names : skill'[s].name = n /\ skill'[t].name = n
      BY <2>1 DEF TypeOK, Entries
    <3>2. CASE skill[s].name = n /\ skill[t].name = n
      BY <3>2, NoneAssumption DEF CatalogInv, NamesAreUnique, Absent
    <3>3. ASSUME NEW a \in Made(r), a.id = s, a.name = n
          PROVE  s = t
      <4>1. skill[t].name # n
        BY <3>3 DEF CatalogInv, RowsAreApart, Taken
      <4>. QED
        BY <1>6, <3>1, <3>3, <4>1 DEF CatalogInv, RowsAreApart
    <3>4. ASSUME NEW a \in Made(r), a.id = t, a.name = n
          PROVE  s = t
      <4>1. skill[s].name # n
        BY <3>4 DEF CatalogInv, RowsAreApart, Taken
      <4>. QED
        BY <1>6, <3>1, <3>4, <4>1 DEF CatalogInv, RowsAreApart
    <3>. QED
      BY <1>6, <3>1, <3>2, <3>3, <3>4
  <2>. QED
    BY <2>1 DEF NamesAreUnique
<1>8. LocksAreUpdates'
  <2>1. ASSUME NEW s \in Skills, lock'[s] # None
        PROVE  request'[lock'[s]].op = "update"
    <3>1. lock'[s] = lock[s] /\ lock[s] \in Requests \ {r}
      BY <1>3, <2>1 DEF TypeOK
    <3>. QED
      BY <1>3, <2>1, <3>1 DEF CatalogInv, LocksAreUpdates
  <2>2. ASSUME NEW o \in Requests, request'[o].op = "update"
        PROVE  skill'[request'[o].id] # Absent
    <3>1. o # r /\ request'[o] = request[o]
      BY <1>3, <1>4, <2>2
    <3>2. request[o].id \in Skills /\ skill[request[o].id] # Absent
      BY <2>2, <3>1, Shape DEF CatalogInv, LocksAreUpdates, TypeOK, UpdateStates
    <3>3. \A a \in Made(r) : a.id # request[o].id
      BY <3>2 DEF CatalogInv, RowsAreApart
    <3>. QED
      BY <1>5, <3>1, <3>2, <3>3, ZenonT(40)
  <2>. QED
    BY <2>1, <2>2 DEF LocksAreUpdates
<1>9. RowsAreApart'
  <2>1. ASSUME NEW o \in Requests, NEW a \in Made(o)'
        PROVE  skill'[a.id] = Absent /\ ~Taken(a.name)'
    <3>1. o # r /\ a \in Made(o) /\ a.id \in Skills /\ a.name \in Names
      BY <1>4, <2>1, MadeType
    <3>2. \A b \in Made(r) : b.id # a.id /\ b.name # a.name
      BY <3>1 DEF CatalogInv, RowsAreApart
    <3>3. skill[a.id] = Absent /\ \A s \in Skills : skill[s].name # a.name
      BY <3>1 DEF CatalogInv, RowsAreApart, Taken
    <3>4. skill'[a.id] = Absent
      BY <1>5, <3>1, <3>2, <3>3
    <3>5. ASSUME NEW s \in Skills
          PROVE  skill'[s].name # a.name
      BY <1>6, <3>1, <3>2, <3>3
    <3>. QED
      BY <3>4, <3>5 DEF Taken
  <2>2. \A o \in Requests : Made(o)' \subseteq Made(o)
    BY <1>4
  <2>. QED
    BY <2>1, <2>2 DEF CatalogInv, RowsAreApart
<1>10. InsertedInOrder'
  BY <1>3, <1>4 DEF CatalogInv, InsertedInOrder, At
<1>. QED
  BY <1>7, <1>8, <1>9, <1>10 DEF CatalogInv

LEMMA CreateSkillInv ==
    ASSUME TypeOK, TypeOK', CatalogInv, CreateSkill
    PROVE  CatalogInv'
<1>1. PICK s \in Skills, n \in Names :
         /\ \A o \in Requests : ~Holds(o, n)
         /\ ~Taken(n) /\ Fresh(s)
         /\ skill' = [skill EXCEPT ![s] = [name |-> n, active |-> TRUE]]
         /\ UNCHANGED <<lock, request>>
  BY DEF CreateSkill
<1>2. /\ skill'[s] = [name |-> n, active |-> TRUE] /\ skill[s] = Absent
      /\ \A t \in Skills \ {s} : skill'[t] = skill[t]
      /\ \A t \in Skills : skill[t].name # n
      /\ \A o \in Requests : Made(o)' = Made(o)
      /\ \A o \in Requests : \A a \in Made(o) : a.id # s /\ a.name # n
  BY <1>1 DEF TypeOK, Taken, Fresh, Holds, Made
<1>3. NamesAreUnique'
  BY <1>2 DEF CatalogInv, NamesAreUnique
<1>4. LocksAreUpdates'
  <2>1. ASSUME NEW o \in Requests, request[o].op = "update"
        PROVE  skill'[request[o].id] # Absent
    <3>1. request[o].id \in Skills /\ skill[request[o].id] # Absent
      BY <2>1, Shape DEF CatalogInv, LocksAreUpdates, TypeOK, UpdateStates
    <3>. QED
      BY <1>2, <3>1
  <2>. QED
    BY <1>1, <2>1 DEF CatalogInv, LocksAreUpdates
<1>5. RowsAreApart'
  <2>1. ASSUME NEW o \in Requests, NEW a \in Made(o)
        PROVE  skill'[a.id] = Absent /\ ~Taken(a.name)'
    <3>1. a.id \in Skills /\ skill[a.id] = Absent /\ \A t \in Skills : skill[t].name # a.name
      BY MadeType DEF CatalogInv, RowsAreApart, Taken
    <3>. QED
      BY <1>2, <3>1 DEF Taken
  <2>. QED
    BY <1>2, <2>1 DEF CatalogInv, RowsAreApart
<1>6. InsertedInOrder'
  BY <1>1, <1>2 DEF CatalogInv, InsertedInOrder, At
<1>. QED
  BY <1>3, <1>4, <1>5, <1>6 DEF CatalogInv

LEMMA LockSkillInv ==
    ASSUME TypeOK, TypeOK', CatalogInv, NEW r \in Requests, LockSkill(r)
    PROVE  CatalogInv'
<1>1. PICK s \in Skills, n \in Names, active \in BOOLEAN :
         /\ request[r] = Idle /\ skill[s] # Absent
         /\ lock' = [lock EXCEPT ![s] = r]
         /\ Goto(r, [op |-> "update", pc |-> "write", id |-> s, name |-> n, active |-> active])
         /\ UNCHANGED skill
  BY DEF LockSkill
<1>2. /\ request'[r].op = "update" /\ request'[r].id = s /\ request[r].op = "idle"
      /\ \A o \in Requests \ {r} : request'[o] = request[o]
      /\ lock'[s] = r /\ \A t \in Skills \ {s} : lock'[t] = lock[t]
  BY <1>1 DEF Goto, TypeOK, Idle
<1>3. Made(r)' = {} /\ \A o \in Requests \ {r} : Made(o)' = Made(o)
  BY <1>2 DEF Made
<1>4. NamesAreUnique'
  BY <1>1 DEF CatalogInv, NamesAreUnique
<1>5. LocksAreUpdates'
  <2>1. \A t \in Skills : lock[t] # None => lock[t] \in Requests \ {r}
    BY <1>2 DEF CatalogInv, LocksAreUpdates, TypeOK
  <2>. QED
    BY <1>1, <1>2, <2>1 DEF CatalogInv, LocksAreUpdates
<1>6. RowsAreApart'
  BY <1>1, <1>3 DEF CatalogInv, RowsAreApart, Taken
<1>7. InsertedInOrder'
  BY <1>2, <1>3 DEF CatalogInv, InsertedInOrder, At
<1>. QED
  BY <1>4, <1>5, <1>6, <1>7 DEF CatalogInv

\* An update that ends with a row's name as it was, or as nobody else has it.
LEMMA WriteSkillInv ==
    ASSUME TypeOK, TypeOK', CatalogInv, NEW r \in Requests, request[r].op = "update",
           EndCatalog(r), NEW row \in Entries, skill' = [skill EXCEPT ![request[r].id] = row],
           \/ row.name = skill[request[r].id].name
           \/ ~Taken(row.name) /\ ~Held(r, row.name)
    PROVE  CatalogInv'
<1>. DEFINE q == request[r]
<1>1. q.id \in Skills /\ skill[q.id] # Absent /\ Made(r) = {}
  BY Shape, MadeType DEF TypeOK, UpdateStates, CatalogInv, LocksAreUpdates
<1>2. /\ request'[r] = Idle
      /\ \A o \in Requests \ {r} : request'[o] = request[o]
      /\ \A s \in Skills : lock'[s] = IF lock[s] = r THEN None ELSE lock[s]
  BY EndCatalogType
<1>3. /\ request'[r].op = "idle"
      /\ \A o \in Requests : Made(o)' = Made(o)
  BY <1>1, <1>2 DEF Made, Idle
<1>4. /\ skill'[q.id] = row /\ row # Absent /\ row.name \in Names
      /\ \A s \in Skills \ {q.id} : skill'[s] = skill[s]
  BY <1>1, NoneAssumption DEF TypeOK, Entries, Absent
<1>5. NamesAreUnique'
  <2>1. ASSUME NEW s \in Skills \ {q.id}
        PROVE  skill[s].name # row.name
    BY <1>1, <1>4, NoneAssumption DEF CatalogInv, NamesAreUnique, Taken
  <2>. QED
    BY <1>4, <2>1 DEF CatalogInv, NamesAreUnique
<1>6. LocksAreUpdates'
  <2>1. ASSUME NEW s \in Skills, lock'[s] # None
        PROVE  request'[lock'[s]].op = "update"
    <3>1. lock'[s] = lock[s] /\ lock[s] \in Requests \ {r}
      BY <1>2, <2>1 DEF TypeOK
    <3>. QED
      BY <1>2, <2>1, <3>1 DEF CatalogInv, LocksAreUpdates
  <2>2. ASSUME NEW o \in Requests, request'[o].op = "update"
        PROVE  skill'[request'[o].id] # Absent
    <3>1. o # r /\ request'[o] = request[o]
      BY <1>2, <1>3, <2>2
    <3>2. request[o].id \in Skills /\ skill[request[o].id] # Absent
      BY <2>2, <3>1, Shape DEF CatalogInv, LocksAreUpdates, TypeOK, UpdateStates
    <3>. QED
      BY <1>4, <3>1, <3>2
  <2>. QED
    BY <2>1, <2>2 DEF LocksAreUpdates
<1>7. RowsAreApart'
  <2>1. ASSUME NEW o \in Requests, NEW a \in Made(o)
        PROVE  skill'[a.id] = Absent /\ ~Taken(a.name)'
    <3>1. a.id \in Skills /\ skill[a.id] = Absent /\ \A t \in Skills : skill[t].name # a.name
      BY MadeType DEF CatalogInv, RowsAreApart, Taken
    <3>2. a.name # row.name
      BY <1>1, <3>1 DEF Held, Holds
    <3>. QED
      BY <1>1, <1>4, <3>1, <3>2 DEF Taken
  <2>. QED
    BY <1>3, <2>1 DEF CatalogInv, RowsAreApart
<1>8. InsertedInOrder'
  BY <1>2, <1>3 DEF CatalogInv, InsertedInOrder, At
<1>. QED
  BY <1>5, <1>6, <1>7, <1>8 DEF CatalogInv

LEMMA UpdateSkillInv ==
    ASSUME TypeOK, TypeOK', CatalogInv, NEW r \in Requests,
           UpdateSkill(r) \/ RenameSkill(r) \/ AbortCatalog(r)
    PROVE  CatalogInv'
<1>. DEFINE q == request[r]
<1>1. CASE RefuseCatalog(r)
  <2>1. /\ skill' = skill
        /\ \A s \in Skills : lock'[s] \in {lock[s], None} /\ lock'[s] # r
        /\ request'[r] = Idle
        /\ \A o \in Requests \ {r} : request'[o] = request[o]
    BY <1>1, EndCatalogType, NoneAssumption DEF RefuseCatalog
  <2>2. request'[r].op \notin {"post", "update"}
    BY <2>1 DEF Idle
  <2>. QED
    BY <2>1, <2>2, QuietStep
<1>2. CASE UpdateSkill(r)
  <2>1. q \in UpdateStates /\ q.op = "update"
    BY <1>2, Shape DEF TypeOK, UpdateSkill, At
  <2>2. q.id \in Skills /\ skill[q.id] \in Entries /\ q.active \in BOOLEAN
    BY <2>1 DEF UpdateStates, TypeOK, CatalogInv, LocksAreUpdates
  <2>3. CASE skill' = [skill EXCEPT ![q.id].active = q.active] /\ EndCatalog(r)
    <3>. DEFINE row == [skill[q.id] EXCEPT !.active = q.active]
    <3>1. row \in Entries /\ row.name = skill[q.id].name
      BY <2>2 DEF Entries
    <3>2. skill' = [skill EXCEPT ![q.id] = row]
      BY <2>3
    <3>. HIDE DEF row
    <3>. QED
      BY <2>1, <2>3, <3>1, <3>2, WriteSkillInv
  <2>4. CASE Goto(r, [q EXCEPT !.pc = "index"]) /\ UNCHANGED <<skill, lock>>
    <3>1. /\ request'[r] = [q EXCEPT !.pc = "index"]
          /\ \A o \in Requests \ {r} : request'[o] = request[o]
      BY <2>4 DEF Goto, TypeOK
    <3>2. request'[r].op = "update" /\ request'[r].id = q.id
      BY <2>1, <3>1 DEF UpdateStates
    <3>3. \A o \in Requests : /\ Made(o)' = Made(o)
                              /\ request'[o].op = request[o].op
                              /\ request[o].op = "update" => request'[o].id = request[o].id
                              /\ request[o].op # "update" => request'[o] = request[o]
      BY <2>1, <3>1, <3>2 DEF Made
    <3>4. NamesAreUnique' /\ RowsAreApart'
      BY <2>4, <3>3 DEF CatalogInv, NamesAreUnique, RowsAreApart, Taken
    <3>5. LocksAreUpdates'
      BY <2>4, <3>3 DEF CatalogInv, LocksAreUpdates, TypeOK
    <3>6. InsertedInOrder'
      BY <3>3 DEF CatalogInv, InsertedInOrder, At
    <3>. QED
      BY <3>4, <3>5, <3>6 DEF CatalogInv
  <2>. QED
    BY <1>2, <2>3, <2>4 DEF UpdateSkill
<1>3. CASE RenameSkill(r)
  <2>1. q \in UpdateStates /\ q.op = "update"
    BY <1>3, Shape DEF TypeOK, RenameSkill, At
  <2>. DEFINE row == [name |-> q.name, active |-> q.active]
  <2>2. row \in Entries /\ row.name = q.name
    BY <2>1 DEF UpdateStates, Entries
  <2>3. \/ RefuseCatalog(r)
        \/ /\ ~Taken(q.name) /\ ~Held(r, q.name)
           /\ skill' = [skill EXCEPT ![q.id] = row]
           /\ EndCatalog(r)
    BY <1>3 DEF RenameSkill
  <2>. HIDE DEF row
  <2>. QED
    BY <1>1, <2>1, <2>2, <2>3, WriteSkillInv
<1>4. CASE AbortCatalog(r)
  BY <1>1, <1>4 DEF AbortCatalog
<1>. QED
  BY <1>2, <1>3, <1>4

\* Steps on résumés leave the catalogue and its requests alone.
LEMMA ResumeStepsAreQuiet ==
    ASSUME TypeOK, Next, ~(CatalogStep /\ UNCHANGED rows)
    PROVE  /\ UNCHANGED catalog
           /\ \A o \in Requests : \/ request'[o] = request[o]
                                 \/ /\ request[o].op \notin {"post", "update"}
                                    /\ request'[o].op \notin {"post", "update"}
<1>1. CASE RemoveRecord
  BY <1>1 DEF RemoveRecord
<1>2. ASSUME NEW r \in Requests, NEW state, Goto(r, state), UNCHANGED catalog,
             request[r].op \notin {"post", "update"}, state.op \notin {"post", "update"}
      PROVE  /\ UNCHANGED catalog
             /\ \A o \in Requests : \/ request'[o] = request[o]
                                   \/ /\ request[o].op \notin {"post", "update"}
                                      /\ request'[o].op \notin {"post", "update"}
  BY <1>2 DEF Goto, TypeOK
<1>3. ASSUME NEW r \in Requests, NEW c \in Candidates, NEW deleted \in SUBSET Links,
             CommitDeleting(r, c, deleted), UNCHANGED catalog,
             request[r].op \notin {"post", "update"}
      PROVE  /\ UNCHANGED catalog
             /\ \A o \in Requests : \/ request'[o] = request[o]
                                   \/ /\ request[o].op \notin {"post", "update"}
                                      /\ request'[o].op \notin {"post", "update"}
  BY <1>3, CommitDeletingType DEF Idle
<1>4. Idle.op \notin {"post", "update"}
  BY DEF Idle
<1>5. ASSUME NEW r \in Requests, AddSkill(r) \/ AddRecord(r) \/ AddSummary(r)
      PROVE  \E state : /\ Goto(r, state) /\ UNCHANGED catalog
                        /\ request[r].op \notin {"post", "update"}
                        /\ state.op \notin {"post", "update"}
  <2>1. PICK c, item : Begin(r, c, item)
    BY <1>5 DEF AddSkill, AddRecord, AddSummary
  <2>. DEFINE state == [op |-> "add", pc |-> "resume", who |-> c, item |-> item, created |-> FALSE]
  <2>2. state.op \notin {"post", "update"}
    OBVIOUS
  <2>3. Goto(r, state) /\ UNCHANGED catalog /\ request[r] = Idle
    BY <2>1 DEF Begin
  <2>. HIDE DEF state
  <2>. QED
    BY <1>4, <2>2, <2>3
<1>6. ASSUME NEW r \in Requests, ReadSkills(r) \/ FindLink(r) \/ ReadRecord(r)
      PROVE  /\ UNCHANGED catalog
             /\ \A o \in Requests : \/ request'[o] = request[o]
                                   \/ /\ request[o].op \notin {"post", "update"}
                                      /\ request'[o].op \notin {"post", "update"}
  <2>1. request[r] = Idle /\ UNCHANGED catalog
    BY <1>6 DEF ReadSkills, FindLink, ReadRecord
  <2>2. request[r].op \notin {"post", "update"} /\ request'[r].op \notin {"post", "update"}
    BY <1>4, <1>6, <2>1 DEF ReadSkills, FindLink, ReadRecord, Goto, TypeOK
  <2>3. \A o \in Requests \ {r} : request'[o] = request[o]
    BY <1>6 DEF ReadSkills, FindLink, ReadRecord, Goto, TypeOK
  <2>. QED
    BY <2>1, <2>2, <2>3
<1>7. ASSUME NEW r \in Requests, ReadResume(r) \/ CreateResume(r) \/ SaveSkill(r) \/ SaveRecord(r)
      PROVE  \E state : /\ Goto(r, state) /\ UNCHANGED catalog
                        /\ request[r].op \notin {"post", "update"}
                        /\ state.op \notin {"post", "update"}
  <2>. DEFINE q == request[r]
  <2>1. q \in AddStates /\ q.op = "add"
    BY <1>7, Shape DEF TypeOK, ReadResume, CreateResume, SaveSkill, SaveRecord, At
  <2>2. /\ [q EXCEPT !.pc = "create"].op = "add"
        /\ [q EXCEPT !.pc = "save"].op = "add"
        /\ [q EXCEPT !.pc = "save", !.created = TRUE].op = "add"
    BY <2>1 DEF AddStates
  <2>3. /\ UNCHANGED catalog
        /\ \/ Goto(r, Idle) \/ Goto(r, [q EXCEPT !.pc = "create"])
           \/ Goto(r, [q EXCEPT !.pc = "save"])
           \/ Goto(r, [q EXCEPT !.pc = "save", !.created = TRUE])
    BY <1>7 DEF ReadResume, CreateResume, SaveSkill, SaveRecord
  <2>4. "add" \notin {"post", "update"}
    OBVIOUS
  <2>5. CASE Goto(r, Idle)
    BY <1>4, <2>1, <2>3, <2>4, <2>5
  <2>6. CASE Goto(r, [q EXCEPT !.pc = "create"])
    BY <2>1, <2>2, <2>3, <2>4, <2>6
  <2>7. CASE Goto(r, [q EXCEPT !.pc = "save"])
    BY <2>1, <2>2, <2>3, <2>4, <2>7
  <2>8. CASE Goto(r, [q EXCEPT !.pc = "save", !.created = TRUE])
    BY <2>1, <2>2, <2>3, <2>4, <2>8
  <2>. QED
    BY <2>3, <2>5, <2>6, <2>7, <2>8
<1>8. ASSUME NEW r \in Requests, LockCandidate(r) \/ CheckKept(r) \/ DeleteLinks(r)
      PROVE  \E state : /\ Goto(r, state) /\ UNCHANGED catalog
                        /\ request[r].op \notin {"post", "update"}
                        /\ state.op \notin {"post", "update"}
  <2>. DEFINE q == request[r]
              locked == [q EXCEPT !.pc = "check", !.created = q.who \notin resume]
              deleting == [q EXCEPT !.pc = "insert", !.deleted = links[q.who]]
  <2>1. q \in ReplaceStates /\ q.op = "replace"
    BY <1>8, Shape DEF TypeOK, LockCandidate, CheckKept, DeleteLinks, At
  <2>2. locked.op = "replace" /\ deleting.op = "replace" /\ [q EXCEPT !.pc = "delete"].op = "replace"
    BY <2>1 DEF ReplaceStates
  <2>3. /\ UNCHANGED catalog
        /\ \/ Goto(r, Idle) \/ Goto(r, locked) \/ Goto(r, deleting)
           \/ Goto(r, [q EXCEPT !.pc = "delete"])
    BY <1>8 DEF LockCandidate, CheckKept, DeleteLinks
  <2>. HIDE DEF locked, deleting
  <2>4. "replace" \notin {"post", "update"}
    OBVIOUS
  <2>5. CASE Goto(r, Idle)
    BY <1>4, <2>1, <2>3, <2>4, <2>5
  <2>6. CASE Goto(r, locked)
    BY <2>1, <2>2, <2>3, <2>4, <2>6
  <2>7. CASE Goto(r, deleting)
    BY <2>1, <2>2, <2>3, <2>4, <2>7
  <2>8. CASE Goto(r, [q EXCEPT !.pc = "delete"])
    BY <2>1, <2>2, <2>3, <2>4, <2>8
  <2>. QED
    BY <2>3, <2>5, <2>6, <2>7, <2>8
<1>9. ASSUME NEW r \in Requests, InsertLinks(r) \/ RemoveSkill(r)
      PROVE  /\ UNCHANGED catalog /\ request[r].op \notin {"post", "update"}
             /\ \/ Goto(r, Idle)
                \/ \E c \in Candidates, deleted \in SUBSET Links : CommitDeleting(r, c, deleted)
  <2>. DEFINE q == request[r]
              found == {l \in links[q.who] : l.skill = q.skill /\ ~q.gone}
  <2>1. CASE InsertLinks(r)
    <3>1. q.op = "replace" /\ q.who \in Candidates /\ q.deleted \in SUBSET Links
      BY <2>1, Shape DEF TypeOK, InsertLinks, At, ReplaceStates
    <3>2. UNCHANGED catalog /\ (Goto(r, Idle) \/ CommitDeleting(r, q.who, q.deleted))
      BY <2>1 DEF InsertLinks
    <3>. QED
      BY <3>1, <3>2
  <2>2. CASE RemoveSkill(r)
    <3>1. q.op = "remove" /\ q.who \in Candidates
      BY <2>2, Shape DEF TypeOK, RemoveSkill, RemoveStates
    <3>2. found \in SUBSET Links
      BY <3>1 DEF TypeOK
    <3>3. UNCHANGED catalog /\ CommitDeleting(r, q.who, found)
      BY <2>2 DEF RemoveSkill
    <3>. QED
      BY <3>1, <3>2, <3>3
  <2>. QED
    BY <1>9, <2>1, <2>2
<1>10. ASSUME NEW r \in Requests, UpdateRecord(r) \/ Abort(r)
       PROVE  Goto(r, Idle) /\ UNCHANGED catalog /\ request[r].op \notin {"post", "update"}
  BY <1>10 DEF UpdateRecord, Abort, Stop
<1>. QED
  BY <1>1, <1>2, <1>3, <1>4, <1>5, <1>6, <1>7, <1>8, <1>9, <1>10 DEF Next

LEMMA NextCatalog == TypeOK /\ TypeOK' /\ CatalogInv /\ [Next]_vars => CatalogInv'
<1>. SUFFICES ASSUME TypeOK, TypeOK', CatalogInv, [Next]_vars
              PROVE  CatalogInv'
  OBVIOUS
<1>1. CASE UNCHANGED vars
  <2>1. skill' = skill /\ lock' = lock /\ request' = request
    BY <1>1 DEF vars, catalog
  <2>. QED
    BY <2>1, QuietStep
<1>2. CASE CatalogStep
  BY <1>2, BeginPostInv, InsertNameInv, ResolveInv, LinkJobInv, CreateSkillInv, LockSkillInv,
     UpdateSkillInv DEF CatalogStep
<1>3. CASE Next /\ ~(CatalogStep /\ UNCHANGED rows)
  <2>1. skill' = skill /\ lock' = lock
    BY <1>3, ResumeStepsAreQuiet DEF catalog
  <2>2. \A o \in Requests : \/ request'[o] = request[o]
                           \/ /\ request[o].op \notin {"post", "update"}
                              /\ request'[o].op \notin {"post", "update"}
    BY <1>3, ResumeStepsAreQuiet
  <2>3. \A s \in Skills : lock[s] # None => request[lock[s]].op = "update"
    BY DEF CatalogInv, LocksAreUpdates
  <2>4. ASSUME NEW o \in Requests, request'[o] # request[o]
        PROVE  request'[o].op \notin {"post", "update"} /\ \A s \in Skills : lock'[s] # o
    BY <2>1, <2>2, <2>3, <2>4, NoneAssumption
  <2>. QED
    BY <2>1, <2>4, QuietStep
<1>. QED
  BY <1>1, <1>2, <1>3

\* Names are unique in the catalogue, however many requests create and rename skills.
THEOREM NamesStayUnique == Spec => []NamesAreUnique
<1>1. Init => TypeOK /\ CatalogInv
  BY InitialTypes, InitialCatalog
<1>2. TypeOK /\ CatalogInv /\ [Next]_vars => (TypeOK /\ CatalogInv)'
  BY NextTypes, NextCatalog
<1>3. CatalogInv => NamesAreUnique
  BY DEF CatalogInv
<1>. QED
  BY <1>1, <1>2, <1>3, PTL DEF Spec

\* Each request of a circle of posts would wait with a greater name than the one it
\* waits for: the sets of requests with at least its name would shrink for ever.
LEMMA NoCircleOfPosts == TypeOK /\ CatalogInv => CreatorsNeverDeadlock
<1>. SUFFICES ASSUME TypeOK, CatalogInv,
                     NEW circle \in (SUBSET Requests) \ {{}},
                     \A r \in circle : \E o \in circle : Waits(r, o),
                     \A r \in circle : ~At(r, "update", "index")
              PROVE  FALSE
  BY DEF CreatorsNeverDeadlock
<1>. DEFINE Above(r) == {o \in circle : \E n, m \in Names : IsNext(r, n) /\ IsNext(o, m) /\ n <= m}
<1>1. ASSUME NEW r \in circle
      PROVE  \E o \in circle, n \in Names : /\ At(r, "post", "insert") /\ IsNext(r, n)
                                           /\ \E a \in Made(o) : a.name = n
  <2>1. PICK o \in circle : Waits(r, o)
    OBVIOUS
  <2>2. ~At(r, "update", "index") /\ ~At(o, "update", "index")
    OBVIOUS
  <2>3. CASE At(r, "post", "link") /\ \E s \in request[r].skills : lock[s] = o
    <3>1. PICK s \in Skills : lock[s] = o
      BY <2>3, Shape DEF TypeOK, At, PostStates
    <3>2. request[o].op = "update"
      BY <3>1, NoneAssumption DEF CatalogInv, LocksAreUpdates
    <3>3. PICK p \in circle : Waits(o, p)
      OBVIOUS
    <3>. QED
      BY <2>2, <3>2, <3>3 DEF Waits, At
  <2>4. CASE At(r, "post", "insert") /\ \E n \in Names : IsNext(r, n) /\ Holds(o, n)
    BY <2>2, <2>4 DEF Holds
  <2>. QED
    BY <2>1, <2>2, <2>3, <2>4 DEF Waits
<1>2. ASSUME NEW r \in circle
      PROVE  \E o \in circle : <<Above(o), Above(r)>> \in StrictSubsetOrdering(Requests)
  <2>1. PICK o \in circle, n \in Names :
           IsNext(r, n) /\ \E a \in Made(o) : a.name = n
    BY <1>1
  <2>2. PICK m \in Names : IsNext(o, m) /\ At(o, "post", "insert")
    BY <1>1
  <2>3. n < m /\ n \in Nat /\ m \in Nat
    BY <2>1, <2>2, NamesAssumption DEF CatalogInv, InsertedInOrder, IsNext
  <2>4. ASSUME NEW p \in circle, NEW k \in Names, NEW l \in Names, IsNext(p, k), IsNext(p, l)
        PROVE  k = l
    BY <2>4, NamesAssumption DEF IsNext
  <2>5. Above(o) \subseteq Above(r)
    <3>1. ASSUME NEW p \in circle, NEW k \in Names, NEW l \in Names,
                 IsNext(o, k), IsNext(p, l), k <= l
          PROVE  n <= l
      BY <2>2, <2>3, <2>4, <3>1, NamesAssumption
    <3>. QED
      BY <2>1, <3>1
  <2>6. r \in Above(r)
    BY <2>1, <2>3
  <2>7. r \notin Above(o)
    <3>1. ASSUME NEW k \in Names, NEW l \in Names, IsNext(o, k), IsNext(r, l), k <= l
          PROVE  FALSE
      BY <2>1, <2>2, <2>3, <2>4, <3>1
    <3>. QED
      BY <3>1
  <2>. QED
    BY <2>5, <2>6, <2>7 DEF StrictSubsetOrdering
<1>. DEFINE Sets == {Above(r) : r \in circle}
<1>3. Sets \subseteq FiniteSubsetsOf(Requests) /\ Sets # {}
  <2>1. \A r \in circle : Above(r) \in SUBSET Requests
    OBVIOUS
  <2>2. FiniteSubsetsOf(Requests) = SUBSET Requests
    BY RequestsAssumption, FS_FiniteSubsetsOfFinite
  <2>. HIDE DEF Above
  <2>3. Sets \subseteq SUBSET Requests
    BY <2>1
  <2>4. PICK r \in circle : TRUE
    OBVIOUS
  <2>5. Above(r) \in Sets
    OBVIOUS
  <2>. QED
    BY <2>2, <2>3, <2>5
<1>4. IsWellFoundedOn(StrictSubsetOrdering(Requests), FiniteSubsetsOf(Requests))
  BY FS_StrictSubsetOrderingWellFounded
<1>. HIDE DEF Sets
<1>5. PICK least \in Sets : \A smaller \in Sets : <<smaller, least>> \notin StrictSubsetOrdering(Requests)
  BY <1>3, <1>4, WFMin
<1>. QED
  BY <1>2, <1>5 DEF Sets

\* Posts never wait for one another in a circle.
THEOREM PostsNeverDeadlock == Spec => []CreatorsNeverDeadlock
<1>1. Init => TypeOK /\ CatalogInv
  BY InitialTypes, InitialCatalog
<1>2. TypeOK /\ CatalogInv /\ [Next]_vars => (TypeOK /\ CatalogInv)'
  BY NextTypes, NextCatalog
<1>. QED
  BY <1>1, <1>2, NoCircleOfPosts, PTL DEF Spec

-------------------------------------------------------------------------------
\* Links and selections.

LEMMA NextLinks == TypeOK /\ TypeOK' /\ LinksAreUnique /\ [Next]_vars => LinksAreUnique'
<1>. SUFFICES ASSUME TypeOK, TypeOK', LinksAreUnique, [Next]_vars
              PROVE  LinksAreUnique'
  OBVIOUS
<1>1. CASE UNCHANGED <<links, resume>>
  BY <1>1 DEF LinksAreUnique
<1>2. ASSUME NEW r \in Requests, SaveSkill(r)
      PROVE  LinksAreUnique'
  <2>. DEFINE q == request[r]
  <2>1. q.who \in Candidates /\ q.item \in Skills
    BY <1>2, Shape DEF TypeOK, SaveSkill, At, AddStates
  <2>2. CASE /\ q.item \notin Linked(q.who)
             /\ links' = [links EXCEPT ![q.who] = @ \cup {[skill |-> q.item, by |-> None]}]
             /\ resume' = resume \cup {q.who}
    <3>1. \A k \in links[q.who] : k.skill # q.item
      BY <2>2 DEF Linked
    <3>2. links'[q.who] = links[q.who] \cup {[skill |-> q.item, by |-> None]}
      BY <2>1, <2>2 DEF TypeOK
    <3>3. \A c \in Candidates \ {q.who} : links'[c] = links[c]
      BY <2>1, <2>2 DEF TypeOK
    <3>4. \A k, l \in links'[q.who] : k.skill = l.skill => k = l
      BY <2>1, <3>1, <3>2 DEF LinksAreUnique
    <3>. QED
      BY <2>2, <3>3, <3>4 DEF LinksAreUnique
  <2>3. CASE UNCHANGED <<links, resume>>
    BY <1>1, <2>3
  <2>. QED
    BY <1>2, <2>2, <2>3 DEF SaveSkill
<1>3. ASSUME NEW r \in Requests, SaveRecord(r)
      PROVE  LinksAreUnique'
  BY <1>3 DEF SaveRecord, LinksAreUnique
<1>4. ASSUME NEW r \in Requests, InsertLinks(r)
      PROVE  LinksAreUnique'
  <2>. DEFINE q == request[r]
              others == links[q.who] \ q.deleted
              chosen == {[skill |-> s, by |-> r] : s \in q.wanted}
  <2>1. q.who \in Candidates
    BY <1>4, Shape DEF TypeOK, InsertLinks, At, ReplaceStates
  <2>2. CASE /\ \A l \in others : l.skill \notin q.wanted
             /\ links' = [links EXCEPT ![q.who] = others \cup chosen]
             /\ resume' = resume \cup {q.who}
    <3>1. links'[q.who] = others \cup chosen
      BY <2>1, <2>2 DEF TypeOK
    <3>2. \A c \in Candidates \ {q.who} : links'[c] = links[c]
      BY <2>1, <2>2 DEF TypeOK
    <3>3. \A l \in chosen : l.skill \in q.wanted /\ l = [skill |-> l.skill, by |-> r]
      OBVIOUS
    <3>4. \A k, l \in links'[q.who] : k.skill = l.skill => k = l
      <4>. HIDE DEF chosen
      <4>1. \A k, l \in others : k.skill = l.skill => k = l
        BY <2>1 DEF LinksAreUnique
      <4>2. \A k, l \in chosen : k.skill = l.skill => k = l
        BY <3>3
      <4>. QED
        BY <2>2, <3>1, <3>3, <4>1, <4>2
    <3>. QED
      BY <2>2, <3>2, <3>4 DEF LinksAreUnique
  <2>3. CASE UNCHANGED <<links, resume>>
    BY <1>1, <2>3
  <2>. QED
    BY <1>4, <2>2, <2>3 DEF InsertLinks
<1>5. ASSUME NEW r \in Requests, RemoveSkill(r)
      PROVE  LinksAreUnique'
  <2>. DEFINE q == request[r]
  <2>1. q.who \in Candidates
    BY <1>5, Shape DEF TypeOK, RemoveSkill, RemoveStates
  <2>2. \A c \in Candidates : links'[c] \subseteq links[c]
    BY <1>5, <2>1 DEF RemoveSkill, TypeOK
  <2>3. resume' = resume
    BY <1>5 DEF RemoveSkill
  <2>. QED
    BY <2>2, <2>3 DEF LinksAreUnique
<1>6. CASE CatalogStep /\ UNCHANGED rows
  BY <1>1, <1>6 DEF rows
<1>7. CASE UNCHANGED vars
  BY <1>1, <1>7 DEF vars, rows
<1>8. ASSUME NEW r \in Requests,
             \/ AddSkill(r) \/ AddRecord(r) \/ AddSummary(r) \/ ReadResume(r) \/ CreateResume(r)
             \/ ReadSkills(r) \/ LockCandidate(r) \/ CheckKept(r) \/ DeleteLinks(r)
             \/ FindLink(r) \/ ReadRecord(r) \/ UpdateRecord(r) \/ Abort(r)
      PROVE  UNCHANGED <<links, resume>>
  BY <1>8 DEF AddSkill, AddRecord, AddSummary, Begin, ReadResume, CreateResume, ReadSkills,
     LockCandidate, CheckKept, DeleteLinks, FindLink, ReadRecord, UpdateRecord, Abort, Stop, rows
<1>9. CASE RemoveRecord
  BY <1>1, <1>9 DEF RemoveRecord
<1>. QED
  BY <1>1, <1>2, <1>3, <1>4, <1>5, <1>6, <1>7, <1>8, <1>9 DEF Next

\* A résumé links a skill once, and has a row when it links any.
THEOREM LinksStayUnique == Spec => []LinksAreUnique
<1>1. Init => LinksAreUnique
  BY DEF Init, LinksAreUnique
<1>. QED
  BY <1>1, InitialTypes, NextTypes, NextLinks, PTL DEF Spec

\* One replacement at a time is past its lock on a candidate, and what has come to the
\* résumé since it deleted the links was added singly.
ReplacementsTakeTurns ==
    /\ \A r, o \in Requests : \A c \in Candidates : Locks(r, c) /\ Locks(o, c) => r = o
    /\ \A r \in Requests : At(r, "replace", "insert") =>
          \A l \in links[request[r].who] : l \notin request[r].deleted => l.by = None

SelectionInv == SelectionIsOneRequests /\ ReplacementsTakeTurns

\* Steps that advance no replacement past its lock and add links only singly.
LEMMA SingleStep ==
    ASSUME TypeOK, TypeOK', SelectionInv,
           \A o \in Requests : \/ request'[o] = request[o]
                               \/ request'[o].op # "replace"
                               \/ request'[o].pc = "lock",
           \A c \in Candidates : \A l \in links'[c] : l \in links[c] \/ l.by = None
    PROVE  SelectionInv'
<1>1. SelectionIsOneRequests'
  BY DEF SelectionInv, SelectionIsOneRequests
<1>2. ASSUME NEW o \in Requests, NEW c \in Candidates, Locks(o, c)'
      PROVE  request'[o] = request[o] /\ Locks(o, c)
  BY <1>2 DEF Locks
<1>3. ASSUME NEW o \in Requests, At(o, "replace", "insert")'
      PROVE  request'[o] = request[o] /\ At(o, "replace", "insert") /\ request[o].who \in Candidates
  BY <1>3, Shape DEF At, TypeOK, ReplaceStates
<1>. QED
  BY <1>1, <1>2, <1>3 DEF SelectionInv, ReplacementsTakeTurns
\* What the steps of the catalogue do to requests is no replacement.
LEMMA CatalogIsSingle ==
    ASSUME TypeOK, CatalogStep, NEW o \in Requests, request'[o] # request[o]
    PROVE  request'[o].op # "replace"
<1>1. ASSUME NEW r \in Requests, NEW state, Goto(r, state), state.op # "replace"
      PROVE  request'[o].op # "replace"
  BY <1>1 DEF Goto, TypeOK
<1>2. Idle.op # "replace"
  BY DEF Idle
<1>3. ASSUME NEW r \in Requests, EndCatalog(r)
      PROVE  request'[o].op # "replace"
  BY <1>1, <1>2, <1>3 DEF EndCatalog
<1>4. ASSUME NEW r \in Requests, BeginPost(r)
      PROVE  request'[o].op # "replace"
  <2>1. PICK names :
          Goto(r, [op |-> "post", pc |-> "insert", names |-> names,
                   left |-> names, made |-> {}, skills |-> {}])
    BY <1>4 DEF BeginPost
  <2>. QED
    BY <1>1, <2>1
<1>5. ASSUME NEW r \in Requests, LockSkill(r)
      PROVE  request'[o].op # "replace"
  <2>1. PICK s, n, active :
          Goto(r, [op |-> "update", pc |-> "write", id |-> s, name |-> n, active |-> active])
    BY <1>5 DEF LockSkill
  <2>. QED
    BY <1>1, <2>1
<1>6. ASSUME NEW r \in Requests, InsertName(r)
      PROVE  request'[o].op # "replace"
  <2>. DEFINE q == request[r]
  <2>1. q \in PostStates
    BY <1>6, Shape DEF TypeOK, InsertName, At
  <2>2. PICK n \in Names : InsertAs(r, n)
    BY <1>6 DEF InsertName
  <2>3. ASSUME NEW left, NEW pc, NEW made
        PROVE  /\ [q EXCEPT !.left = left, !.pc = pc].op # "replace"
               /\ [q EXCEPT !.left = left, !.pc = pc, !.made = made].op # "replace"
    BY <2>1 DEF PostStates
  <2>4. PICK left, pc, made :
          \/ Goto(r, [q EXCEPT !.left = left, !.pc = pc])
          \/ Goto(r, [q EXCEPT !.left = left, !.pc = pc, !.made = made])
    BY <2>2 DEF InsertAs
  <2>5. CASE Goto(r, [q EXCEPT !.left = left, !.pc = pc])
    BY <1>1, <2>3, <2>5
  <2>6. CASE Goto(r, [q EXCEPT !.left = left, !.pc = pc, !.made = made])
    BY <1>1, <2>3, <2>6
  <2>. QED
    BY <2>4, <2>5, <2>6
<1>7. ASSUME NEW r \in Requests, ResolveNames(r)
      PROVE  request'[o].op # "replace"
  <2>. DEFINE q == request[r]
  <2>1. q \in PostStates
    BY <1>7, Shape DEF TypeOK, ResolveNames, At
  <2>2. ASSUME NEW skills
        PROVE  [q EXCEPT !.pc = "link", !.skills = skills].op # "replace"
    BY <2>1 DEF PostStates
  <2>3. (\E skills : Goto(r, [q EXCEPT !.pc = "link", !.skills = skills])) \/ RefuseCatalog(r)
    BY <1>7 DEF ResolveNames
  <2>4. CASE \E skills : Goto(r, [q EXCEPT !.pc = "link", !.skills = skills])
    <3>1. PICK skills : Goto(r, [q EXCEPT !.pc = "link", !.skills = skills])
      BY <2>4
    <3>. QED
      BY <1>1, <2>2, <3>1
  <2>. QED
    BY <1>3, <2>3, <2>4 DEF RefuseCatalog
<1>8. ASSUME NEW r \in Requests, UpdateSkill(r)
      PROVE  request'[o].op # "replace"
  <2>. DEFINE q == request[r]
  <2>1. q \in UpdateStates
    BY <1>8, Shape DEF TypeOK, UpdateSkill, At
  <2>2. [q EXCEPT !.pc = "index"].op # "replace"
    BY <2>1 DEF UpdateStates
  <2>3. EndCatalog(r) \/ Goto(r, [q EXCEPT !.pc = "index"])
    BY <1>8 DEF UpdateSkill
  <2>4. CASE Goto(r, [q EXCEPT !.pc = "index"])
    BY <1>1, <2>2, <2>4
  <2>. QED
    BY <1>3, <2>3, <2>4
<1>9. ASSUME NEW r \in Requests, LinkJob(r) \/ RenameSkill(r) \/ AbortCatalog(r)
      PROVE  request'[o].op # "replace"
  BY <1>3, <1>9 DEF LinkJob, RenameSkill, AbortCatalog, RefuseCatalog
<1>10. CASE CreateSkill
  BY <1>10 DEF CreateSkill
<1>. QED
  BY <1>4, <1>5, <1>6, <1>7, <1>8, <1>9, <1>10 DEF CatalogStep

\* Other steps on résumés than a replacement's begin one at most.
LEMMA OthersAreSingle ==
    ASSUME TypeOK, NEW r \in Requests, NEW o \in Requests, request'[o] # request[o],
           \/ AddSkill(r) \/ AddRecord(r) \/ AddSummary(r) \/ ReadSkills(r)
           \/ ReadResume(r) \/ CreateResume(r) \/ SaveSkill(r) \/ SaveRecord(r)
           \/ FindLink(r) \/ RemoveSkill(r) \/ ReadRecord(r) \/ UpdateRecord(r) \/ Abort(r)
    PROVE  request'[o].op # "replace" \/ request'[o].pc = "lock"
<1>1. ASSUME NEW state, Goto(r, state), state.op # "replace" \/ state.pc = "lock"
      PROVE  request'[o].op # "replace" \/ request'[o].pc = "lock"
  BY <1>1 DEF Goto, TypeOK
<1>2. CASE Goto(r, Idle)
  BY <1>1, <1>2 DEF Idle
<1>3. CASE AddSkill(r) \/ AddRecord(r) \/ AddSummary(r)
  <2>1. PICK c, item : Begin(r, c, item)
    BY <1>3 DEF AddSkill, AddRecord, AddSummary
  <2>2. Goto(r, [op |-> "add", pc |-> "resume", who |-> c, item |-> item, created |-> FALSE])
    BY <2>1 DEF Begin
  <2>. QED
    BY <1>1, <2>2
<1>4. CASE ReadSkills(r)
  <2>1. PICK c, wanted :
          Goto(r, [op |-> "replace", pc |-> "lock", who |-> c, wanted |-> wanted,
                   inactive |-> {s \in wanted : ~skill[s].active},
                   created |-> FALSE, deleted |-> {}])
    BY <1>4 DEF ReadSkills
  <2>. QED
    BY <1>1, <2>1
<1>5. CASE FindLink(r)
  <2>1. PICK c, s : Goto(r, [op |-> "remove", who |-> c, skill |-> s, gone |-> FALSE])
    BY <1>5 DEF FindLink
  <2>. QED
    BY <1>1, <2>1
<1>6. CASE ReadRecord(r)
  <2>1. PICK d : Goto(r, [op |-> "edit", record |-> d, read |-> records[d]])
    BY <1>6 DEF ReadRecord
  <2>. QED
    BY <1>1, <2>1
<1>7. CASE ReadResume(r) \/ CreateResume(r)
  <2>. DEFINE q == request[r]
  <2>1. q \in AddStates
    BY <1>7, Shape DEF TypeOK, ReadResume, CreateResume, At
  <2>2. /\ [q EXCEPT !.pc = "create"].op # "replace"
        /\ [q EXCEPT !.pc = "save"].op # "replace"
        /\ [q EXCEPT !.pc = "save", !.created = TRUE].op # "replace"
    BY <2>1 DEF AddStates
  <2>3. \/ Goto(r, Idle) \/ Goto(r, [q EXCEPT !.pc = "create"])
        \/ Goto(r, [q EXCEPT !.pc = "save"])
        \/ Goto(r, [q EXCEPT !.pc = "save", !.created = TRUE])
    BY <1>7 DEF ReadResume, CreateResume
  <2>4. CASE Goto(r, [q EXCEPT !.pc = "create"])
    BY <1>1, <2>2, <2>4
  <2>5. CASE Goto(r, [q EXCEPT !.pc = "save"])
    BY <1>1, <2>2, <2>5
  <2>6. CASE Goto(r, [q EXCEPT !.pc = "save", !.created = TRUE])
    BY <1>1, <2>2, <2>6
  <2>. QED
    BY <1>2, <2>3, <2>4, <2>5, <2>6
<1>8. CASE SaveSkill(r) \/ SaveRecord(r) \/ UpdateRecord(r) \/ Abort(r)
  BY <1>2, <1>8 DEF SaveSkill, SaveRecord, UpdateRecord, Abort, Stop
<1>9. CASE RemoveSkill(r)
  <2>. DEFINE q == request[r]
              found == {l \in links[q.who] : l.skill = q.skill /\ ~q.gone}
  <2>1. q.who \in Candidates
    BY <1>9, Shape DEF TypeOK, RemoveSkill, RemoveStates
  <2>2. found \in SUBSET Links
    BY <2>1 DEF TypeOK
  <2>3. CommitDeleting(r, q.who, found)
    BY <1>9 DEF RemoveSkill
  <2>. QED
    BY <2>1, <2>2, <2>3, CommitDeletingType DEF Idle
<1>. QED
  BY <1>3, <1>4, <1>5, <1>6, <1>7, <1>8, <1>9
\* A replacement takes the lock on a candidate no other has.
LEMMA LockSelection ==
    ASSUME TypeOK, TypeOK', SelectionInv, NEW r \in Requests, LockCandidate(r)
    PROVE  SelectionInv'
<1>. DEFINE q == request[r]
            locked == [q EXCEPT !.pc = "check", !.created = q.who \notin resume]
<1>1. q \in ReplaceStates
  BY Shape DEF TypeOK, LockCandidate, At
<1>2. locked.op = "replace" /\ locked.who = q.who /\ locked.pc = "check"
  BY <1>1 DEF ReplaceStates
<1>3. /\ request'[r] = locked
      /\ \A o \in Requests \ {r} : request'[o] = request[o]
      /\ links' = links
  BY DEF LockCandidate, Goto, TypeOK, rows
<1>. HIDE DEF locked
<1>4. \A o \in Requests \ {r} : ~Locks(o, q.who)
  BY DEF LockCandidate
<1>5. \A o \in Requests \ {r}, c \in Candidates : Locks(o, c)' = Locks(o, c)
  BY <1>3 DEF Locks
<1>6. \A c \in Candidates : Locks(r, c)' => c = q.who
  BY <1>2, <1>3 DEF Locks
<1>7. \A k, o \in Requests : \A c \in Candidates : Locks(k, c)' /\ Locks(o, c)' => k = o
  BY <1>4, <1>5, <1>6 DEF SelectionInv, ReplacementsTakeTurns
<1>8. \A o \in Requests : At(o, "replace", "insert")' =>
         request'[o] = request[o] /\ At(o, "replace", "insert")
  BY <1>2, <1>3 DEF At
<1>. QED
  BY <1>3, <1>7, <1>8 DEF SelectionInv, ReplacementsTakeTurns, SelectionIsOneRequests

\* One that has the lock keeps it, and when it deletes the rows it deletes them all.
LEMMA DeleteSelection ==
    ASSUME TypeOK, TypeOK', SelectionInv, NEW r \in Requests, CheckKept(r) \/ DeleteLinks(r)
    PROVE  SelectionInv'
<1>. DEFINE q == request[r]
            deleting == [q EXCEPT !.pc = "insert", !.deleted = links[q.who]]
            kept == [q EXCEPT !.pc = "delete"]
<1>1. q \in ReplaceStates /\ q.op = "replace" /\ q.pc # "lock"
  BY Shape DEF TypeOK, CheckKept, DeleteLinks, At
<1>2. /\ kept.op = "replace" /\ kept.who = q.who /\ kept.pc = "delete"
      /\ deleting.op = "replace" /\ deleting.who = q.who /\ deleting.pc = "insert"
      /\ deleting.deleted = links[q.who]
  BY <1>1 DEF ReplaceStates
<1>3. /\ Goto(r, Idle) \/ Goto(r, kept) \/ Goto(r, deleting)
      /\ links' = links
  BY DEF CheckKept, DeleteLinks, rows
<1>. HIDE DEF kept, deleting
<1>4. /\ \A o \in Requests \ {r} : request'[o] = request[o]
      /\ request'[r] \in {Idle, kept, deleting}
  BY <1>3 DEF Goto, TypeOK
<1>5. \A o \in Requests, c \in Candidates : Locks(o, c)' => Locks(o, c)
  <2>1. \A c \in Candidates : Locks(r, c)' => c = q.who
    BY <1>2, <1>4 DEF Locks, Idle
  <2>2. Locks(r, q.who)
    BY <1>1 DEF Locks
  <2>. QED
    BY <1>4, <2>1, <2>2 DEF Locks
<1>6. ASSUME NEW o \in Requests, At(o, "replace", "insert")',
             NEW l \in links'[request'[o].who], l \notin request'[o].deleted
      PROVE  l.by = None
  <2>1. CASE o = r
    BY <1>2, <1>3, <1>4, <1>6, <2>1 DEF At, Idle
  <2>2. CASE o # r
    BY <1>3, <1>4, <1>6, <2>2 DEF At, SelectionInv, ReplacementsTakeTurns
  <2>. QED
    BY <2>1, <2>2
<1>. QED
  BY <1>3, <1>5, <1>6 DEF SelectionInv, ReplacementsTakeTurns, SelectionIsOneRequests

\* The wanted skills come to a résumé that has only links added singly.
LEMMA InsertSelection ==
    ASSUME TypeOK, TypeOK', SelectionInv, NEW r \in Requests, InsertLinks(r)
    PROVE  SelectionInv'
<1>. DEFINE q == request[r]
            others == links[q.who] \ q.deleted
            chosen == {[skill |-> s, by |-> r] : s \in q.wanted}
<1>1. q \in ReplaceStates /\ At(r, "replace", "insert")
  BY Shape DEF TypeOK, InsertLinks, At
<1>2. q.who \in Candidates /\ q.deleted \in SUBSET Links
  BY <1>1 DEF ReplaceStates
<1>3. CASE Goto(r, Idle) /\ UNCHANGED <<links, resume>>
  <2>1. \A o \in Requests : request'[o] = request[o] \/ request'[o].op # "replace"
    BY <1>3, GotoIdle DEF Idle
  <2>. QED
    BY <1>3, <2>1, SingleStep
<1>4. CASE /\ links' = [links EXCEPT ![q.who] = others \cup chosen]
           /\ CommitDeleting(r, q.who, q.deleted)
  <2>1. links'[q.who] = others \cup chosen /\ \A c \in Candidates \ {q.who} : links'[c] = links[c]
    BY <1>2, <1>4 DEF TypeOK
  <2>2. \A l \in chosen : l.by = r
    OBVIOUS
  <2>3. \A l \in others : l.by = None
    BY <1>1 DEF SelectionInv, ReplacementsTakeTurns
  <2>. HIDE DEF chosen, others
  <2>4. SelectionIsOneRequests'
    BY <2>1, <2>2, <2>3 DEF SelectionInv, SelectionIsOneRequests
  <2>5. \A o \in Requests : request'[o] = request[o] \/ request'[o].op # "replace"
    BY <1>2, <1>4, CommitDeletingType DEF Idle
  <2>6. request'[r].op # "replace"
    BY <1>2, <1>4, CommitDeletingType DEF Idle
  <2>7. \A o \in Requests, c \in Candidates : Locks(o, c)' => Locks(o, c)
    BY <2>5 DEF Locks
  <2>8. ASSUME NEW o \in Requests, At(o, "replace", "insert")'
        PROVE  /\ request'[o] = request[o] /\ At(o, "replace", "insert")
               /\ links'[request[o].who] = links[request[o].who]
    <3>1. request'[o] = request[o] /\ o # r /\ At(o, "replace", "insert")
      BY <2>5, <2>6, <2>8 DEF At
    <3>2. request[o].who \in Candidates
      BY <3>1, Shape DEF TypeOK, At, ReplaceStates
    <3>3. Locks(o, request[o].who) /\ Locks(r, q.who)
      BY <1>1, <3>1 DEF Locks, At
    <3>. QED
      BY <1>2, <2>1, <3>1, <3>2, <3>3 DEF SelectionInv, ReplacementsTakeTurns
  <2>. QED
    BY <2>4, <2>7, <2>8 DEF SelectionInv, ReplacementsTakeTurns
<1>. QED
  BY <1>3, <1>4 DEF InsertLinks

\* Links come singly unless a selection is inserted.
LEMMA LinksComeSingly ==
    ASSUME TypeOK, Next, ~(\E r \in Requests : InsertLinks(r)),
           NEW c \in Candidates, NEW l \in links'[c]
    PROVE  l \in links[c] \/ l.by = None
<1>1. CASE links' = links
  BY <1>1
<1>2. ASSUME NEW r \in Requests, SaveSkill(r)
      PROVE  l \in links[c] \/ l.by = None
  <2>. DEFINE q == request[r]
  <2>1. \/ links' = [links EXCEPT ![q.who] = @ \cup {[skill |-> q.item, by |-> None]}]
        \/ links' = links
    BY <1>2 DEF SaveSkill
  <2>. QED
    BY <2>1 DEF TypeOK
<1>3. ASSUME NEW r \in Requests, RemoveSkill(r)
      PROVE  l \in links[c] \/ l.by = None
  BY <1>3 DEF RemoveSkill, TypeOK
<1>4. ASSUME NEW r \in Requests,
             \/ AddSkill(r) \/ AddRecord(r) \/ AddSummary(r) \/ ReadResume(r) \/ CreateResume(r)
             \/ SaveRecord(r) \/ ReadSkills(r) \/ LockCandidate(r) \/ CheckKept(r)
             \/ DeleteLinks(r) \/ FindLink(r) \/ ReadRecord(r) \/ UpdateRecord(r) \/ Abort(r)
      PROVE  links' = links
  BY <1>4 DEF AddSkill, AddRecord, AddSummary, Begin, ReadResume, CreateResume, SaveRecord,
     ReadSkills, LockCandidate, CheckKept, DeleteLinks, FindLink, ReadRecord, UpdateRecord,
     Abort, Stop, rows
<1>5. (CatalogStep /\ UNCHANGED rows) \/ RemoveRecord => links' = links
  BY DEF RemoveRecord, rows
<1>. QED
  BY <1>1, <1>2, <1>3, <1>4, <1>5 DEF Next

LEMMA NextSelection == TypeOK /\ TypeOK' /\ SelectionInv /\ [Next]_vars => SelectionInv'
<1>. SUFFICES ASSUME TypeOK, TypeOK', SelectionInv, [Next]_vars
              PROVE  SelectionInv'
  OBVIOUS
<1>1. CASE UNCHANGED vars
  BY <1>1, SingleStep DEF vars, rows, catalog
<1>2. CASE \E r \in Requests : LockCandidate(r)
  BY <1>2, LockSelection
<1>3. CASE \E r \in Requests : CheckKept(r) \/ DeleteLinks(r)
  BY <1>3, DeleteSelection
<1>4. CASE \E r \in Requests : InsertLinks(r)
  BY <1>4, InsertSelection
<1>5. CASE /\ Next
           /\ ~\E r \in Requests : LockCandidate(r) \/ CheckKept(r) \/ DeleteLinks(r) \/ InsertLinks(r)
  <2>1. \A c \in Candidates : \A l \in links'[c] : l \in links[c] \/ l.by = None
    BY <1>5, LinksComeSingly
  <2>2. ASSUME NEW o \in Requests, request'[o] # request[o]
        PROVE  request'[o].op # "replace" \/ request'[o].pc = "lock"
    <3>1. CASE CatalogStep
      BY <2>2, <3>1, CatalogIsSingle
    <3>2. CASE RemoveRecord
      BY <2>2, <3>2 DEF RemoveRecord
    <3>. QED
      BY <1>5, <2>2, <3>1, <3>2, OthersAreSingle DEF Next
  <2>. QED
    BY <2>1, <2>2, SingleStep
<1>. QED
  BY <1>1, <1>2, <1>3, <1>4, <1>5

\* The replacements of a selection never leave a mixture of two of them.
THEOREM SelectionsDoNotMix == Spec => []SelectionIsOneRequests
<1>1. Init => TypeOK /\ SelectionInv
  <2>1. Init => SelectionIsOneRequests
    BY DEF Init, SelectionIsOneRequests
  <2>2. Init => ReplacementsTakeTurns
    BY DEF Init, CatalogInit, Idle, ReplacementsTakeTurns, Locks, At
  <2>. QED
    BY <2>1, <2>2, InitialTypes DEF SelectionInv
<1>2. TypeOK /\ SelectionInv /\ [Next]_vars => (TypeOK /\ SelectionInv)'
  BY NextTypes, NextSelection
<1>3. SelectionInv => SelectionIsOneRequests
  BY DEF SelectionInv
<1>. QED
  BY <1>1, <1>2, <1>3, PTL DEF Spec

-------------------------------------------------------------------------------
\* Periods.

LEMMA PeriodStep ==
    ASSUME TypeOK, Next, NEW d \in Records,
           records[d] # Removed, ValidPeriod(records[d]), records'[d] # Removed
    PROVE  \/ ValidPeriod(records'[d])
           \/ \E r \in Requests : /\ request[r].op = "edit" /\ request[r].record = d
                                  /\ request[r].read # records[d]
<1>1. CASE records' = records
  BY <1>1
<1>2. ASSUME NEW r \in Requests, SaveRecord(r)
      PROVE  ValidPeriod(records'[d])
  <2>1. \/ records' = records
        \/ \E p \in {p \in Periods : ValidPeriod(p)} :
              records' = [records EXCEPT ![request[r].item] = p]
    BY <1>2 DEF SaveRecord
  <2>. QED
    BY <2>1 DEF TypeOK
<1>3. ASSUME NEW r \in Requests, UpdateRecord(r), request[r].record = d => request[r].read = records[d]
      PROVE  ValidPeriod(records'[d])
  <2>. DEFINE e == request[r].record
              read == request[r].read
  <2>1. e \in Records /\ read \in Periods
    BY <1>3, Shape DEF TypeOK, UpdateRecord, EditStates
  <2>2. PICK asked \in Periods :
          \/ ValidPeriod(asked) /\ records' = [records EXCEPT ![e] = Written(e, read, asked)]
          \/ records' = records
    BY <1>3 DEF UpdateRecord
  <2>3. CASE ValidPeriod(asked) /\ records' = [records EXCEPT ![e] = Written(e, read, asked)]
    <3>1. CASE e = d
      <4>1. Written(e, read, asked).from = asked.from /\ Written(e, read, asked).to = asked.to
        BY <1>3, <3>1 DEF Written
      <4>2. records'[d] = Written(e, read, asked)
        BY <2>3, <3>1 DEF TypeOK
      <4>. QED
        BY <2>3, <4>1, <4>2 DEF ValidPeriod
    <3>2. CASE e # d
      BY <2>3, <3>2 DEF TypeOK
    <3>. QED
      BY <3>1, <3>2
  <2>. QED
    BY <2>2, <2>3
<1>4. CASE RemoveRecord
  BY <1>4 DEF RemoveRecord, TypeOK
<1>5. ASSUME NEW r \in Requests,
             \/ AddSkill(r) \/ AddRecord(r) \/ AddSummary(r) \/ ReadResume(r) \/ CreateResume(r)
             \/ SaveSkill(r) \/ ReadSkills(r) \/ LockCandidate(r) \/ CheckKept(r)
             \/ DeleteLinks(r) \/ InsertLinks(r) \/ FindLink(r) \/ RemoveSkill(r)
             \/ ReadRecord(r) \/ Abort(r)
      PROVE  records' = records
  BY <1>5 DEF AddSkill, AddRecord, AddSummary, Begin, ReadResume, CreateResume, SaveSkill,
     ReadSkills, LockCandidate, CheckKept, DeleteLinks, InsertLinks, FindLink, RemoveSkill,
     ReadRecord, Abort, Stop, rows
<1>6. CatalogStep /\ UNCHANGED rows => records' = records
  BY DEF rows
<1>7. \A r \in Requests : UpdateRecord(r) => request[r].op = "edit"
  BY DEF UpdateRecord
<1>. QED
  BY <1>1, <1>2, <1>3, <1>4, <1>5, <1>6, <1>7 DEF Next

\* A valid period becomes invalid only by an edit that read another one.
THEOREM PeriodsBreakByOverlap == Spec => PeriodsBreakOnlyByOverlap
<1>1. TypeOK /\ [Next]_vars =>
        [\A d \in Records :
           records[d] # Removed /\ ValidPeriod(records[d]) /\ records'[d] # Removed
              => \/ ValidPeriod(records'[d])
                 \/ \E r \in Requests : /\ request[r].op = "edit" /\ request[r].record = d
                                        /\ request[r].read # records[d]]_vars
  BY PeriodStep
<1>. QED
  BY <1>1, TypeCorrect, PTL DEF Spec, PeriodsBreakOnlyByOverlap
===============================================================================
