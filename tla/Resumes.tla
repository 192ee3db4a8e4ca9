-------------------------------- MODULE Resumes --------------------------------
(***************************************************************************)
(* Professionals edit their résumés while companies and administrators     *)
(* change the catalogue of skills.  A résumé has links to skills and       *)
(* records with a period: experiences, education and certifications.       *)
(*                                                                         *)
(* A handler reads first and writes later, and only the replacement of the *)
(* skills locks the candidate.  What the handler keeps from its reads is   *)
(* in its request's state.                                                 *)
(***************************************************************************)
EXTENDS SkillCatalog

CONSTANTS Candidates,
          Records,    \* experiences, education entries, certifications
          Dates

ASSUME DatesAssumption == Dates \subseteq Nat /\ None \notin Dates
ASSUME ItemsAssumption == Skills \cap Records = {} /\ None \notin Skills \cup Records

VARIABLES resume,     \* the candidates who have a résumé row
          links,      \* resume_skill: the rows of each candidate's résumé
          records     \* the period of each record that exists

rows == <<resume, links, records>>
vars == <<catalog, rows, request>>

\* "by" is the request whose transaction wrote all the rows of a selection.
Links == [skill : Skills, by : Requests \cup {None}]
Periods == [from : Dates \cup {None}, to : Dates \cup {None}]
Removed == [from |-> None, to |-> None, removed |-> TRUE]

\* (The beginning of an experience is always known: its periods are a subset.)

\* An item to add: a skill, a record, or None for the summary of the profile.
AddStates ==
    [op : {"add"}, pc : {"resume", "create", "save"}, who : Candidates,
     item : Skills \cup Records \cup {None}, created : BOOLEAN]
ReplaceStates ==
    [op : {"replace"}, pc : {"lock", "check", "delete", "insert"}, who : Candidates,
     wanted : SUBSET Skills, inactive : SUBSET Skills, created : BOOLEAN, deleted : SUBSET Links]
RemoveStates == [op : {"remove"}, who : Candidates, skill : Skills, gone : BOOLEAN]
EditStates == [op : {"edit"}, record : Records, read : Periods]

RequestStates == {Idle} \cup PostStates \cup UpdateStates \cup AddStates
                     \cup ReplaceStates \cup RemoveStates \cup EditStates

TypeOK ==
    /\ skill \in [Skills -> Entries \cup {Absent}]
    /\ lock \in [Skills -> Requests \cup {None}]
    /\ request \in [Requests -> RequestStates]
    /\ resume \subseteq Candidates
    /\ links \in [Candidates -> SUBSET Links]
    /\ records \in [Records -> Periods \cup {Removed}]

Init ==
    /\ CatalogInit
    /\ resume = {}
    /\ links = [c \in Candidates |-> {}]
    /\ records = [d \in Records |-> Removed]

-------------------------------------------------------------------------------
\* Helpers.

Linked(c) == {l.skill : l \in links[c]}

\* No end before the beginning, as far as both are known.
ValidPeriod(p) == p.from # None /\ p.to # None => p.from <= p.to

\* The requests of a candidate that hold the candidate's row FOR UPDATE, and those
\* with an uncommitted résumé row.
Locks(o, c) ==
    request[o].op = "replace" /\ request[o].who = c /\ request[o].pc # "lock"
Creates(o, c) == request[o].op \in {"add", "replace"} /\ request[o].who = c /\ request[o].created
AlreadyDeletes(o, c, s) ==
    /\ request[o].op = "replace" /\ request[o].who = c
    /\ \E l \in request[o].deleted : l.skill = s

\* The rows of c that a step deletes for good: another removal that has one of them
\* in its session will find nothing to delete.
CommitDeleting(r, c, deleted) ==
    request' = [o \in Requests |->
        IF o = r THEN Idle
        ELSE IF request[o].op = "remove" /\ request[o].who = c
                /\ \E l \in deleted : l.skill = request[o].skill
             THEN [request[o] EXCEPT !.gone = TRUE]
        ELSE request[o]]

Stop(r) == Goto(r, Idle) /\ UNCHANGED <<catalog, rows>>

-------------------------------------------------------------------------------
\* Adding: add_skill, add_experience, add_education, add_certification and the
\* summary in update_profile.

Begin(r, c, item) ==
    /\ request[r] = Idle
    /\ Goto(r, [op |-> "add", pc |-> "resume", who |-> c, item |-> item, created |-> FALSE])
    /\ UNCHANGED <<catalog, rows>>

\* Only an active skill may be added.
AddSkill(r) == \E c \in Candidates, s \in Skills : skill[s].active /\ Begin(r, c, s)

\* A record's id is new.
AddRecord(r) == \E c \in Candidates, d \in Records :
    /\ records[d] = Removed
    /\ \A o \in Requests : /\ request[o].op = "add" => request[o].item # d
                           /\ request[o].op = "edit" => request[o].record # d
    /\ Begin(r, c, d)

AddSummary(r) == \E c \in Candidates : Begin(r, c, None)

\* get_or_create_resume, and add_skill's search for the link.
ReadResume(r) ==
    /\ At(r, "add", "resume")
    /\ LET q == request[r] IN
       \/ q.who \notin resume /\ Goto(r, [q EXCEPT !.pc = "create"])
       \/ q.who \in resume /\ q.item \notin Linked(q.who) /\ Goto(r, [q EXCEPT !.pc = "save"])
       \/ q.who \in resume /\ q.item \in Linked(q.who) /\ Goto(r, Idle)
    /\ UNCHANGED <<catalog, rows>>

\* The insert waits for another's uncommitted row and for the candidate's lock; it
\* fails when the other one committed.
CreateResume(r) ==
    /\ At(r, "add", "create")
    /\ LET q == request[r] IN
       /\ \A o \in Requests \ {r} : ~Creates(o, q.who) /\ ~Locks(o, q.who)
       /\ \/ q.who \notin resume /\ Goto(r, [q EXCEPT !.pc = "save", !.created = TRUE])
          \/ q.who \in resume /\ Goto(r, Idle)
    /\ UNCHANGED <<catalog, rows>>

\* The link waits for the skill's row and for a replacement that has deleted the same
\* link; one that is there by then is a conflict.
SaveSkill(r) ==
    /\ At(r, "add", "save")
    /\ LET q == request[r] IN
       /\ q.item \in Skills
       /\ lock[q.item] = None
       /\ \A o \in Requests : ~AlreadyDeletes(o, q.who, q.item)
       /\ \/ /\ q.item \notin Linked(q.who)
             /\ links' = [links EXCEPT ![q.who] = @ \cup {[skill |-> q.item, by |-> None]}]
             /\ resume' = resume \cup {q.who}
          \/ q.item \in Linked(q.who) /\ UNCHANGED <<links, resume>>
       /\ Goto(r, Idle)
    /\ UNCHANGED <<catalog, records>>

\* Its period was checked when the request came in.
SaveRecord(r) ==
    /\ At(r, "add", "save")
    /\ LET q == request[r] IN
       /\ q.item \notin Skills
       /\ resume' = resume \cup {q.who}
       /\ \/ q.item = None /\ UNCHANGED records
          \/ \E p \in {p \in Periods : ValidPeriod(p)} :
                q.item \in Records /\ records' = [records EXCEPT ![q.item] = p]
       /\ Goto(r, Idle)
    /\ UNCHANGED <<catalog, links>>

-------------------------------------------------------------------------------
\* Replacing the selection: replace_skills.

\* The skills are read before the candidate is locked, their status with them.
ReadSkills(r) == \E c \in Candidates, wanted \in SUBSET {s \in Skills : skill[s] # Absent} :
    /\ request[r] = Idle
    /\ Goto(r, [op |-> "replace", pc |-> "lock", who |-> c, wanted |-> wanted,
                inactive |-> {s \in wanted : ~skill[s].active},
                created |-> FALSE, deleted |-> {}])
    /\ UNCHANGED <<catalog, rows>>

\* Mutant of LockCandidate: the candidate's row is not locked.
TakeResumeUnlocked(r) ==
    /\ At(r, "replace", "lock")
    /\ LET q == request[r] IN
       /\ \A o \in Requests \ {r} : ~Creates(o, q.who)
       /\ Goto(r, [q EXCEPT !.pc = "check", !.created = q.who \notin resume])
    /\ UNCHANGED <<catalog, rows>>

\* The candidate's row, then the résumé, created if there is none.
LockCandidate(r) ==
    /\ At(r, "replace", "lock")
    /\ LET q == request[r] IN
       /\ \A o \in Requests \ {r} : ~Locks(o, q.who) /\ ~Creates(o, q.who)
       /\ Goto(r, [q EXCEPT !.pc = "check", !.created = q.who \notin resume])
    /\ UNCHANGED <<catalog, rows>>

\* An inactive skill may stay on the résumé but not come to it.
CheckKept(r) ==
    /\ At(r, "replace", "check")
    /\ LET q == request[r] IN
       \/ q.inactive \subseteq Linked(q.who) /\ Goto(r, [q EXCEPT !.pc = "delete"])
       \/ ~(q.inactive \subseteq Linked(q.who)) /\ Goto(r, Idle)
    /\ UNCHANGED <<catalog, rows>>

\* The rows are deleted, and stay visible to others until the commit.
DeleteLinks(r) ==
    /\ At(r, "replace", "delete")
    /\ LET q == request[r] IN
       /\ \A l \in links[q.who], o \in Requests : ~AlreadyDeletes(o, q.who, l.skill)
       /\ Goto(r, [q EXCEPT !.pc = "insert", !.deleted = links[q.who]])
    /\ UNCHANGED <<catalog, rows>>

\* Mutant of InsertLinks: the wanted skills are added to whatever is there.
InsertLinksUnchecked(r) ==
    /\ At(r, "replace", "insert")
    /\ LET q == request[r] IN
       /\ \A s \in q.wanted : lock[s] = None
       /\ links' = [links EXCEPT ![q.who] =
                       (@ \ q.deleted) \cup {[skill |-> s, by |-> r] : s \in q.wanted}]
       /\ resume' = resume \cup {q.who}
       /\ CommitDeleting(r, q.who, q.deleted)
    /\ UNCHANGED <<catalog, records>>

\* A link added meanwhile stays; one to a wanted skill is a conflict.
InsertLinks(r) ==
    /\ At(r, "replace", "insert")
    /\ LET q == request[r]
           others == links[q.who] \ q.deleted
       IN /\ \A s \in q.wanted : lock[s] = None
          /\ \/ /\ \A l \in others : l.skill \notin q.wanted
                /\ links' = [links EXCEPT ![q.who] =
                                others \cup {[skill |-> s, by |-> r] : s \in q.wanted}]
                /\ resume' = resume \cup {q.who}
                /\ CommitDeleting(r, q.who, q.deleted)
             \/ /\ \E l \in others : l.skill \in q.wanted
                /\ Goto(r, Idle)
                /\ UNCHANGED <<links, resume>>
    /\ UNCHANGED <<catalog, records>>

-------------------------------------------------------------------------------
\* Removing a skill, and editing and removing a record.

FindLink(r) == \E c \in Candidates : \E s \in Linked(c) :
    /\ request[r] = Idle
    /\ Goto(r, [op |-> "remove", who |-> c, skill |-> s, gone |-> FALSE])
    /\ UNCHANGED <<catalog, rows>>

\* The row that was found, if it is still there; either way the answer is 204.
RemoveSkill(r) ==
    /\ request[r].op = "remove"
    /\ LET q == request[r]
           found == {l \in links[q.who] : l.skill = q.skill /\ ~q.gone}
       IN /\ \A o \in Requests : ~AlreadyDeletes(o, q.who, q.skill)
          /\ links' = [links EXCEPT ![q.who] = @ \ found]
          /\ CommitDeleting(r, q.who, found)
    /\ UNCHANGED <<catalog, resume, records>>

ReadRecord(r) == \E d \in Records :
    /\ request[r] = Idle
    /\ records[d] # Removed
    /\ Goto(r, [op |-> "edit", record |-> d, read |-> records[d]])
    /\ UNCHANGED <<catalog, rows>>

\* The period is checked as it was read with the request's dates over it, and the
\* session writes the columns that differ from what it read.
Written(d, read, asked) ==
    [from |-> IF asked.from # read.from THEN asked.from ELSE records[d].from,
     to |-> IF asked.to # read.to THEN asked.to ELSE records[d].to]

\* Mutant of UpdateRecord: only the dates of the request are checked.
UpdateRecordPartly(r) ==
    /\ request[r].op = "edit"
    /\ \E asked \in Periods :
          LET d == request[r].record
              read == request[r].read
              saves == records[d] # Removed
                       /\ (asked.from # read.from /\ asked.to # read.to => ValidPeriod(asked))
          IN \/ saves /\ records' = [records EXCEPT ![d] = Written(d, read, asked)]
             \/ ~saves /\ UNCHANGED records
    /\ Goto(r, Idle)
    /\ UNCHANGED <<catalog, resume, links>>

UpdateRecord(r) ==
    /\ request[r].op = "edit"
    /\ \E asked \in Periods :
          LET d == request[r].record
              saves == ValidPeriod(asked) /\ records[d] # Removed
          IN \/ saves /\ records' = [records EXCEPT ![d] = Written(d, request[r].read, asked)]
             \/ ~saves /\ UNCHANGED records
    /\ Goto(r, Idle)
    /\ UNCHANGED <<catalog, resume, links>>

RemoveRecord == \E d \in Records :
    /\ records[d] # Removed
    /\ records' = [records EXCEPT ![d] = Removed]
    /\ UNCHANGED <<catalog, resume, links, request>>

\* A failed statement rolls its request back.
Abort(r) == request[r].op \in {"add", "replace", "remove", "edit"} /\ Stop(r)

-------------------------------------------------------------------------------
Next ==
    \/ CatalogStep /\ UNCHANGED rows
    \/ RemoveRecord
    \/ \E r \in Requests :
          \/ AddSkill(r) \/ AddRecord(r) \/ AddSummary(r)
          \/ ReadResume(r) \/ CreateResume(r) \/ SaveSkill(r) \/ SaveRecord(r)
          \/ ReadSkills(r) \/ LockCandidate(r) \/ CheckKept(r) \/ DeleteLinks(r)
          \/ InsertLinks(r)
          \/ FindLink(r) \/ RemoveSkill(r) \/ ReadRecord(r) \/ UpdateRecord(r)
          \/ Abort(r)

Spec == Init /\ [][Next]_vars

-------------------------------------------------------------------------------
\* Properties.

\* A selection is what one request asked for: replacements that run at the same time
\* do not leave a mixture of both (replace_skills, "Keep exactly the requested catalog
\* skills on the résumé"); a skill added singly meanwhile may stay.
SelectionIsOneRequests ==
    \A c \in Candidates : \A k, l \in links[c] :
       k.by # None /\ l.by # None => k.by = l.by

\* A résumé has a skill once, and links nothing without a résumé row, whatever is
\* added, replaced and removed at the same time.
LinksAreUnique ==
    \A c \in Candidates :
       /\ \A k, l \in links[c] : k.skill = l.skill => k = l
       /\ links[c] # {} => c \in resume

\* A record's end comes before its beginning only after two edits of it overlapped:
\* each alone is checked against the dates it leaves as they are.
PeriodsBreakOnlyByOverlap == [][
    \A d \in Records :
       records[d] # Removed /\ ValidPeriod(records[d]) /\ records'[d] # Removed
          => \/ ValidPeriod(records'[d])
             \/ \E r \in Requests : /\ request[r].op = "edit" /\ request[r].record = d
                                    /\ request[r].read # records[d]]_vars

\* docs/CERTIFICATIONS.md:10, "the expiration date cannot precede the issue date".
PeriodsAreValid ==
    \A d \in Records : records[d] # Removed => ValidPeriod(records[d])
===============================================================================
