-------------------------- MODULE CertificateDocuments --------------------------
(***************************************************************************)
(* The document attached to a certification: a row of                      *)
(* attached_certificate that names an object in the storage bucket.        *)
(*                                                                         *)
(* PostgreSQL and the bucket share no transaction.  Attaching stores the   *)
(* object, then commits the row; replacing and removing commit the row,    *)
(* then delete the object.  Every request holds the certification's row    *)
(* lock from its first statement to its commit, calls of the storage       *)
(* included, and cleans up after it.                                       *)
(***************************************************************************)
EXTENDS Naturals

CONSTANTS Certifications,
          Keys,         \* object keys; each is drawn once (uuid4)
          Requests,     \* threads serving requests
          Faults,       \* what can go wrong in an instance
          None          \* no document

ASSUME FaultsAssumption ==
    Faults \subseteq {"storage", "database", "answer", "connection", "crash"}
ASSUME NoneAssumption == None \notin Keys

VARIABLES certification, \* whether each certification is absent, present or removed
          attached,      \* the object key in each certification's document row
          objects,       \* the keys stored in the bucket
          drawn,         \* the keys drawn so far
          lock,          \* the requests that hold each certification's row
          request,       \* what each thread is doing
          doubtful,      \* history: keys whose commit was applied but not answered
          abandoned      \* history: keys some failure left for nobody to delete

rows == <<certification, attached>>
history == <<doubtful, abandoned>>
vars == <<rows, objects, drawn, lock, request, history>>

Idle == [pc |-> "idle"]
Locking == [pc : {"lock"}, op : {"attach", "remove", "delete"}, of : Certifications]
Storing == [pc : {"put"}, of : Certifications]
Attaching == [pc : {"attach"}, of : Certifications, key : Keys]
Detaching == [pc : {"remove", "delete"}, of : Certifications, key : Keys \cup {None}]
Cleaning == [pc : {"clean"}, key : Keys]

TypeOK ==
    /\ certification \in [Certifications -> {"absent", "present", "removed"}]
    /\ attached \in [Certifications -> Keys \cup {None}]
    /\ objects \subseteq drawn /\ drawn \subseteq Keys
    /\ lock \in [Certifications -> SUBSET Requests]
    /\ request \in [Requests -> {Idle} \cup Locking \cup Storing \cup Attaching
                                       \cup Detaching \cup Cleaning]
    /\ doubtful \subseteq Keys /\ abandoned \subseteq Keys

Init ==
    /\ certification = [c \in Certifications |-> "absent"]
    /\ attached = [c \in Certifications |-> None]
    /\ objects = {} /\ drawn = {}
    /\ lock = [c \in Certifications |-> {}]
    /\ request = [r \in Requests |-> Idle]
    /\ doubtful = {} /\ abandoned = {}

-------------------------------------------------------------------------------
\* Transactions.

Goto(r, state) == request' = [request EXCEPT ![r] = state]
Release(r) == lock' = [c \in Certifications |-> lock[c] \ {r}]

\* Mutant of CleanUp: the cleanup runs whether or not there was a document.
CleanUpAlways(r, key) ==
    Release(r) /\ Goto(r, [pc |-> "clean", key |-> key])

\* What follows a transaction: the object to delete, if there is one.
CleanUp(r, key) ==
    Release(r) /\ Goto(r, IF key = None THEN Idle ELSE [pc |-> "clean", key |-> key])

\* add_certification: a certification without a document.
Add(c) ==
    /\ certification[c] = "absent"
    /\ certification' = [certification EXCEPT ![c] = "present"]
    /\ UNCHANGED <<attached, objects, drawn, lock, request, history>>

\* A file of the wrong type or size is refused before this.
Begin(r) == \E op \in {"attach", "remove", "delete"}, c \in Certifications :
    /\ request[r] = Idle
    /\ Goto(r, [pc |-> "lock", op |-> op, of |-> c])
    /\ UNCHANGED <<rows, objects, drawn, lock, history>>

\* Mutant of LockCertification: the certification is read without FOR UPDATE.
ReadCertification(r) ==
    /\ request[r].pc = "lock"
    /\ LET c == request[r].of IN
       /\ certification[c] = "present"
       /\ request[r].op = "remove" => attached[c] # None
       /\ lock' = [lock EXCEPT ![c] = @ \cup {r}]
       /\ Goto(r, IF request[r].op = "attach" THEN [pc |-> "put", of |-> c]
                  ELSE [pc |-> request[r].op, of |-> c, key |-> attached[c]])
    /\ UNCHANGED <<rows, objects, drawn, history>>

\* The certification is looked up among the caller's own and locked, then its
\* document is read; without a document there is nothing to remove.
LockCertification(r) ==
    /\ request[r].pc = "lock"
    /\ LET c == request[r].of
           found == /\ certification[c] = "present"
                    /\ request[r].op = "remove" => attached[c] # None
       IN /\ certification[c] = "present" => lock[c] = {}
          /\ \/ /\ found
                /\ lock' = [lock EXCEPT ![c] = {r}]
                /\ Goto(r, IF request[r].op = "attach" THEN [pc |-> "put", of |-> c]
                           ELSE [pc |-> request[r].op, of |-> c, key |-> attached[c]])
             \/ /\ ~found
                /\ Goto(r, Idle)
                /\ UNCHANGED lock
    /\ UNCHANGED <<rows, objects, drawn, history>>

-------------------------------------------------------------------------------
\* Attaching.

\* The object is stored under a fresh key.
Put(r) ==
    /\ request[r].pc = "put"
    /\ \E k \in Keys \ drawn :
       /\ drawn' = drawn \cup {k}
       /\ objects' = objects \cup {k}
       /\ Goto(r, [pc |-> "attach", of |-> request[r].of, key |-> k])
    /\ UNCHANGED <<rows, lock, history>>

\* The storage answers with an error, or not in time: the object may be there, and
\* nobody deletes it.
FailPut(r) ==
    /\ "storage" \in Faults
    /\ request[r].pc = "put"
    /\ \/ UNCHANGED <<objects, drawn, abandoned>>
       \/ \E k \in Keys \ drawn : /\ drawn' = drawn \cup {k}
                                  /\ objects' = objects \cup {k}
                                  /\ abandoned' = abandoned \cup {k}
    /\ CleanUp(r, None)
    /\ UNCHANGED <<rows, doubtful>>

\* Mutant of CommitAttach: the object stored last is deleted, not the one it replaces.
CommitAttachCleaningNew(r) ==
    /\ request[r].pc = "attach"
    /\ LET q == request[r] IN
       /\ r \in lock[q.of]
       /\ attached' = [attached EXCEPT ![q.of] = q.key]
       /\ CleanUp(r, IF attached[q.of] = None THEN None ELSE q.key)
    /\ UNCHANGED <<certification, objects, drawn, history>>

\* The row takes the new key, and the object it replaces is cleaned up.
CommitAttach(r) ==
    /\ request[r].pc = "attach"
    /\ LET q == request[r] IN
       /\ r \in lock[q.of]
       /\ attached' = [attached EXCEPT ![q.of] = q.key]
       /\ CleanUp(r, attached[q.of])
    /\ UNCHANGED <<certification, objects, drawn, history>>

\* Nothing was committed, and the new object is cleaned up.
FailAttach(r) ==
    /\ request[r].pc = "attach"
    /\ "database" \in Faults \/ r \notin lock[request[r].of]
    /\ CleanUp(r, request[r].key)
    /\ UNCHANGED <<rows, objects, drawn, history>>

\* The commit was applied but its answer is lost: the same cleanup runs.
LoseAttachAnswer(r) ==
    /\ "answer" \in Faults
    /\ request[r].pc = "attach"
    /\ LET q == request[r] IN
       /\ r \in lock[q.of]
       /\ attached' = [attached EXCEPT ![q.of] = q.key]
       /\ doubtful' = doubtful \cup {q.key}
       /\ abandoned' = abandoned \cup ({attached[q.of]} \ {None})
       /\ CleanUp(r, q.key)
    /\ UNCHANGED <<certification, objects, drawn>>

-------------------------------------------------------------------------------
\* Removing the document, or the certification with it.

Detach(r) ==
    /\ request[r].pc \in {"remove", "delete"}
    /\ LET q == request[r] IN
       /\ r \in lock[q.of]
       /\ attached' = [attached EXCEPT ![q.of] = None]
       /\ certification' = IF q.pc = "remove" THEN certification
                           ELSE [certification EXCEPT ![q.of] = "removed"]

CommitDetach(r) ==
    /\ Detach(r)
    /\ CleanUp(r, request[r].key)
    /\ UNCHANGED <<objects, drawn, history>>

FailDetach(r) ==
    /\ request[r].pc \in {"remove", "delete"}
    /\ "database" \in Faults \/ r \notin lock[request[r].of]
    /\ CleanUp(r, None)
    /\ UNCHANGED <<rows, objects, drawn, history>>

\* The commit was applied but its answer is lost: the object stays for good.
LoseDetachAnswer(r) ==
    /\ "answer" \in Faults
    /\ Detach(r)
    /\ CleanUp(r, None)
    /\ abandoned' = abandoned \cup ({request[r].key} \ {None})
    /\ UNCHANGED <<objects, drawn, doubtful>>

-------------------------------------------------------------------------------
\* remove_quietly, after the transaction.
Clean(r) ==
    /\ request[r].pc = "clean"
    /\ objects' = objects \ {request[r].key}
    /\ Goto(r, Idle)
    /\ UNCHANGED <<rows, drawn, lock, history>>

\* A failed cleanup is logged.  The object stays, unless only the answer was late.
FailClean(r) ==
    /\ "storage" \in Faults
    /\ request[r].pc = "clean"
    /\ objects' \in {objects, objects \ {request[r].key}}
    /\ abandoned' = abandoned \cup {request[r].key}
    /\ Goto(r, Idle)
    /\ UNCHANGED <<rows, drawn, lock, doubtful>>

\* The database drops a connection: the lock is lost, and the commit will fail.
Disconnect(r) ==
    /\ "connection" \in Faults
    /\ \E c \in Certifications : r \in lock[c]
    /\ Release(r)
    /\ UNCHANGED <<rows, objects, drawn, request, history>>

\* The process dies: transactions roll back, and nobody cleans up.
Crash ==
    /\ "crash" \in Faults
    /\ lock' = [c \in Certifications |-> {}]
    /\ request' = [r \in Requests |-> Idle]
    /\ abandoned' = abandoned \cup {request[r].key :
                       r \in {s \in Requests : request[s].pc \in {"attach", "clean"}}}
    /\ UNCHANGED <<rows, objects, drawn, doubtful>>

Next ==
    \/ \E c \in Certifications : Add(c)
    \/ \E r \in Requests :
          \/ Begin(r) \/ LockCertification(r)
          \/ Put(r) \/ FailPut(r)
          \/ CommitAttach(r) \/ FailAttach(r) \/ LoseAttachAnswer(r)
          \/ CommitDetach(r) \/ FailDetach(r) \/ LoseDetachAnswer(r)
          \/ Clean(r) \/ FailClean(r) \/ Disconnect(r)
    \/ Crash

Spec == Init /\ [][Next]_vars

-------------------------------------------------------------------------------
\* Properties.

Owned(r) == request[r].pc \in {"attach", "clean"}

\* A stored object is some certification's document, is about to become it or to be
\* deleted, or was left behind by a failure: replacements and removals at the same
\* time never lose one (docs/CERTIFICATIONS.md, "a removal waits for a concurrent
\* replacement and deletes the file it stored").
OrphansHaveACause ==
    \A k \in objects :
       \/ \E c \in Certifications : attached[c] = k
       \/ \E r \in Requests : Owned(r) /\ request[r].key = k
       \/ k \in abandoned

\* A document that a professional sees attached is in the bucket, whatever other
\* requests replace, remove and clean up; a lost commit answer is the one exception.
DocumentsAreStored ==
    \A c \in Certifications : attached[c] # None =>
       attached[c] \in objects \/ attached[c] \in doubtful

\* storage/removal.py:10: remove_quietly deletes "an object whose row is already
\* gone".
DeletesOnlyGoneDocuments ==
    [][\A c \in Certifications : attached[c] \in objects => attached[c] \in objects']_vars
===============================================================================
