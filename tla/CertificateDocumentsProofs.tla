---------------------- MODULE CertificateDocumentsProofs ----------------------
(***************************************************************************)
(* Proofs about CertificateDocuments, for any number of certifications,    *)
(* keys and requests and any combination of faults.                        *)
(***************************************************************************)
EXTENDS CertificateDocuments, TLAPS

\* At most one request holds a row, it is in the transaction that locked it, and what
\* it read of the row is still so.
LocksHold ==
    \A c \in Certifications : \A r \in lock[c] :
       /\ \A s \in lock[c] : s = r
       /\ request[r].pc \in {"put", "attach", "remove", "delete"}
       /\ request[r].of = c
       /\ request[r].pc \in {"remove", "delete"} => request[r].key = attached[c]

\* A key belongs to one certification, to one upload in progress, or to neither.
KeysApart ==
    /\ \A c \in Certifications : attached[c] # None => attached[c] \in drawn
    /\ \A c, d \in Certifications : attached[c] = attached[d] /\ attached[c] # None => c = d
    /\ \A r \in Requests : request[r].pc = "attach" =>
          /\ request[r].key \in objects
          /\ \A c \in Certifications : attached[c] # request[r].key
          /\ \A s \in Requests : Owned(s) /\ request[s].key = request[r].key => s = r

\* Only a key no row names is cleaned up, or one whose commit got no answer.
CleansGone ==
    \A r \in Requests : request[r].pc = "clean" =>
       /\ request[r].key \in drawn
       /\ \A c \in Certifications : attached[c] = request[r].key
             => request[r].key \in doubtful

Parts == LocksHold /\ KeysApart /\ CleansGone /\ DocumentsAreStored /\ OrphansHaveACause

LEMMA InitialInv == Init => TypeOK /\ Parts
  BY NoneAssumption DEF Init, TypeOK, Parts, LocksHold, KeysApart, CleansGone, DocumentsAreStored,
     OrphansHaveACause, Idle, Owned

\* The shape of a request follows from its program counter.
LEMMA RequestShape ==
    ASSUME TypeOK, NEW r \in Requests
    PROVE  /\ request[r].pc = "lock" => request[r] \in Locking
           /\ request[r].pc = "put" => request[r] \in Storing
           /\ request[r].pc = "attach" => request[r] \in Attaching
           /\ request[r].pc \in {"remove", "delete"} => request[r] \in Detaching
           /\ request[r].pc = "clean" => request[r] \in Cleaning
           /\ request[r].pc \in {"idle", "lock", "put", "attach", "remove", "delete", "clean"}
  BY DEF TypeOK, Idle, Locking, Storing, Attaching, Detaching, Cleaning

-------------------------------------------------------------------------------
\* Types.

LEMMA GotoType ==
    ASSUME TypeOK, NEW r \in Requests,
           NEW state \in {Idle} \cup Locking \cup Storing \cup Attaching \cup Detaching
                            \cup Cleaning,
           Goto(r, state)
    PROVE  /\ request' \in [Requests -> {Idle} \cup Locking \cup Storing \cup Attaching
                                          \cup Detaching \cup Cleaning]
           /\ request'[r] = state
           /\ \A s \in Requests : s # r => request'[s] = request[s]
  BY DEF TypeOK, Goto

LEMMA ReleaseType ==
    ASSUME TypeOK, NEW r \in Requests, Release(r)
    PROVE  /\ lock' \in [Certifications -> SUBSET Requests]
           /\ \A c \in Certifications : lock'[c] = lock[c] \ {r}
  BY DEF TypeOK, Release

LEMMA CleanUpType ==
    ASSUME TypeOK, NEW r \in Requests, NEW key \in Keys \cup {None}, CleanUp(r, key)
    PROVE  /\ lock' \in [Certifications -> SUBSET Requests]
           /\ \A c \in Certifications : lock'[c] = lock[c] \ {r}
           /\ request' \in [Requests -> {Idle} \cup Locking \cup Storing \cup Attaching
                                          \cup Detaching \cup Cleaning]
           /\ request'[r] = IF key = None THEN Idle ELSE [pc |-> "clean", key |-> key]
           /\ \A s \in Requests : s # r => request'[s] = request[s]
<1>1. (IF key = None THEN Idle ELSE [pc |-> "clean", key |-> key]) \in {Idle} \cup Cleaning
  BY DEF Cleaning
<1>2. Release(r) /\ Goto(r, IF key = None THEN Idle ELSE [pc |-> "clean", key |-> key])
  BY DEF CleanUp
<1>. QED
  BY <1>1, <1>2, GotoType, ReleaseType

LEMMA TypeStep == TypeOK /\ [Next]_vars => TypeOK'
<1>. SUFFICES ASSUME TypeOK, [Next]_vars PROVE TypeOK'
  OBVIOUS
<1>. USE DEF rows, history
<1>1. ASSUME NEW c \in Certifications, Add(c) PROVE TypeOK'
  BY <1>1 DEF TypeOK, Add
<1>2. ASSUME NEW r \in Requests, Begin(r) PROVE TypeOK'
  <2>1. PICK op \in {"attach", "remove", "delete"}, c \in Certifications :
           Goto(r, [pc |-> "lock", op |-> op, of |-> c])
    BY <1>2 DEF Begin
  <2>2. [pc |-> "lock", op |-> op, of |-> c] \in Locking
    BY DEF Locking
  <2>. QED
    BY <1>2, <2>1, <2>2, GotoType DEF Begin, TypeOK
<1>3. ASSUME NEW r \in Requests, LockCertification(r) PROVE TypeOK'
  <2>1. request[r] \in Locking
    BY <1>3, RequestShape DEF LockCertification
  <2>. DEFINE c == request[r].of
              next == IF request[r].op = "attach" THEN [pc |-> "put", of |-> c]
                      ELSE [pc |-> request[r].op, of |-> c, key |-> attached[c]]
  <2>2. c \in Certifications /\ next \in Storing \cup Detaching
    BY <2>1 DEF Locking, Storing, Detaching, TypeOK
  <2>3. \/ Goto(r, next) /\ lock' = [lock EXCEPT ![c] = {r}]
        \/ Goto(r, Idle) /\ lock' = lock
    BY <1>3 DEF LockCertification
  <2>. HIDE DEF next
  <2>4. request' \in [Requests -> {Idle} \cup Locking \cup Storing \cup Attaching
                                    \cup Detaching \cup Cleaning]
    BY <2>2, <2>3, GotoType
  <2>. QED
    BY <1>3, <2>2, <2>3, <2>4 DEF LockCertification, TypeOK
<1>4. ASSUME NEW r \in Requests, Put(r) PROVE TypeOK'
  <2>1. request[r].of \in Certifications
    BY <1>4, RequestShape DEF Put, Storing
  <2>2. PICK k \in Keys \ drawn : /\ drawn' = drawn \cup {k} /\ objects' = objects \cup {k}
                                  /\ Goto(r, [pc |-> "attach", of |-> request[r].of, key |-> k])
    BY <1>4 DEF Put
  <2>3. [pc |-> "attach", of |-> request[r].of, key |-> k] \in Attaching
    BY <2>1 DEF Attaching
  <2>. QED
    BY <1>4, <2>2, <2>3, GotoType DEF Put, TypeOK
<1>5. ASSUME NEW r \in Requests, FailPut(r) PROVE TypeOK'
  BY <1>5, CleanUpType DEF FailPut, TypeOK
<1>6. ASSUME NEW r \in Requests,
             CommitAttach(r) \/ FailAttach(r) \/ LoseAttachAnswer(r)
      PROVE  TypeOK'
  <2>1. request[r].of \in Certifications /\ request[r].key \in Keys
    BY <1>6, RequestShape DEF CommitAttach, FailAttach, LoseAttachAnswer, Attaching
  <2>2. attached[request[r].of] \in Keys \cup {None}
    BY <2>1 DEF TypeOK
  <2>3. CASE CommitAttach(r)
    BY <2>1, <2>2, <2>3, CleanUpType DEF CommitAttach, TypeOK
  <2>4. CASE FailAttach(r)
    BY <2>1, <2>4, CleanUpType DEF FailAttach, TypeOK
  <2>5. CASE LoseAttachAnswer(r)
    BY <2>1, <2>2, <2>5, CleanUpType DEF LoseAttachAnswer, TypeOK
  <2>. QED
    BY <1>6, <2>3, <2>4, <2>5
<1>7. ASSUME NEW r \in Requests,
             CommitDetach(r) \/ FailDetach(r) \/ LoseDetachAnswer(r)
      PROVE  TypeOK'
  <2>1. request[r].of \in Certifications /\ request[r].key \in Keys \cup {None}
    BY <1>7, RequestShape DEF CommitDetach, FailDetach, LoseDetachAnswer, Detach, Detaching
  <2>2. Detach(r) => /\ attached' \in [Certifications -> Keys \cup {None}]
                     /\ certification' \in [Certifications -> {"absent", "present", "removed"}]
    BY <2>1 DEF Detach, TypeOK
  <2>3. CASE CommitDetach(r)
    BY <2>1, <2>2, <2>3, CleanUpType DEF CommitDetach, TypeOK
  <2>4. CASE FailDetach(r)
    BY <2>4, CleanUpType DEF FailDetach, TypeOK
  <2>5. CASE LoseDetachAnswer(r)
    BY <2>1, <2>2, <2>5, CleanUpType DEF LoseDetachAnswer, TypeOK
  <2>. QED
    BY <1>7, <2>3, <2>4, <2>5
<1>8. ASSUME NEW r \in Requests, Clean(r) \/ FailClean(r) PROVE TypeOK'
  <2>1. request[r].key \in Keys
    BY <1>8, RequestShape DEF Clean, FailClean, Cleaning
  <2>. QED
    BY <1>8, <2>1, GotoType DEF Clean, FailClean, TypeOK
<1>9. ASSUME NEW r \in Requests, Disconnect(r) PROVE TypeOK'
  BY <1>9, ReleaseType DEF Disconnect, TypeOK
<1>10. ASSUME Crash PROVE TypeOK'
  <2>1. {request[r].key : r \in {s \in Requests : request[s].pc \in {"attach", "clean"}}}
           \subseteq Keys
    BY RequestShape DEF Attaching, Cleaning
  <2>. QED
    BY <1>10, <2>1 DEF Crash, TypeOK
<1>11. ASSUME UNCHANGED vars PROVE TypeOK'
  BY <1>11 DEF vars, TypeOK
<1>. QED
  BY <1>1, <1>2, <1>3, <1>4, <1>5, <1>6, <1>7, <1>8, <1>9, <1>10, <1>11 DEF Next

\* Types hold in every behaviour; in particular every stored object has a key that
\* was drawn, and no cleanup runs without a key.
THEOREM TypeCorrect == Spec => []TypeOK
<1>1. Init => TypeOK
  BY InitialInv
<1>. QED
  BY <1>1, TypeStep, PTL DEF Spec

-------------------------------------------------------------------------------
\* The invariant.  Its parts need one another and the types, so each step takes them
\* all and proves them all again.

LEMMA AddKeeps ==
    ASSUME TypeOK, Parts, NEW c \in Certifications, Add(c)
    PROVE  Parts'
  BY DEF Add, Parts, LocksHold, KeysApart, CleansGone, DocumentsAreStored, OrphansHaveACause,
     Owned, history

\* A request that neither held a key nor comes to hold one, while no row and no object
\* changes, disturbs the locks only.
LEMMA KeysUndisturbed ==
    ASSUME Parts, NEW r \in Requests,
           request[r].pc \notin {"attach", "clean"}, request'[r].pc \notin {"attach", "clean"},
           \A s \in Requests : s # r => request'[s] = request[s],
           UNCHANGED <<rows, objects, drawn, history>>
    PROVE  KeysApart' /\ CleansGone' /\ DocumentsAreStored' /\ OrphansHaveACause'
  BY DEF Parts, KeysApart, CleansGone, DocumentsAreStored, OrphansHaveACause, Owned, rows, history

\* The locks of other requests are undisturbed as long as the rows they lock are.
LEMMA LocksUndisturbed ==
    ASSUME TypeOK, LocksHold, NEW r \in Requests,
           \A s \in Requests : s # r => request'[s] = request[s],
           \A c \in Certifications : lock'[c] = lock[c] \ {r},
           \A c \in Certifications : attached'[c] # attached[c] => r \in lock[c]
    PROVE  LocksHold'
  BY DEF TypeOK, LocksHold

LEMMA BeginKeeps ==
    ASSUME TypeOK, Parts, NEW r \in Requests, Begin(r)
    PROVE  Parts'
<1>1. /\ request[r].pc = "idle" /\ request'[r].pc = "lock"
      /\ \A s \in Requests : s # r => request'[s] = request[s]
  BY DEF TypeOK, Begin, Goto, Idle
<1>2. LocksHold'
  BY <1>1 DEF TypeOK, Parts, LocksHold, Begin, rows
<1>. QED
  BY <1>1, <1>2, KeysUndisturbed DEF Begin, Parts

LEMMA LockKeeps ==
    ASSUME TypeOK, Parts, NEW r \in Requests, LockCertification(r)
    PROVE  Parts'
<1>. DEFINE c == request[r].of
            next == IF request[r].op = "attach" THEN [pc |-> "put", of |-> c]
                    ELSE [pc |-> request[r].op, of |-> c, key |-> attached[c]]
<1>1. request[r] \in Locking /\ c \in Certifications
  BY RequestShape DEF LockCertification, Locking
<1>2. /\ next.pc \in {"put", "remove", "delete"} /\ next.of = c
      /\ next.pc \in {"remove", "delete"} => next.key = attached[c]
  BY <1>1 DEF Locking
<1>3. \/ Goto(r, next) /\ lock[c] = {} /\ lock' = [lock EXCEPT ![c] = {r}]
      \/ Goto(r, Idle) /\ lock' = lock
  BY DEF LockCertification
<1>. HIDE DEF next
<1>4. /\ request[r].pc = "lock" /\ request'[r] \in {next, Idle}
      /\ \A s \in Requests : s # r => request'[s] = request[s]
  BY <1>1, <1>3 DEF TypeOK, Goto, Locking
<1>5. LocksHold'
  <2>1. CASE Goto(r, next) /\ lock[c] = {} /\ lock' = [lock EXCEPT ![c] = {r}]
    <3>1. request'[r] = next
      BY <2>1 DEF Goto, TypeOK
    <3>. QED
      BY <1>1, <1>2, <1>4, <2>1, <3>1 DEF TypeOK, Parts, LocksHold, LockCertification, rows
  <2>2. CASE Goto(r, Idle) /\ lock' = lock
    BY <1>4, <2>2 DEF TypeOK, Parts, LocksHold, LockCertification, rows
  <2>. QED
    BY <1>3, <2>1, <2>2
<1>6. request'[r].pc \notin {"attach", "clean"}
  BY <1>2, <1>4 DEF Idle
<1>. QED
  BY <1>4, <1>5, <1>6, KeysUndisturbed DEF LockCertification, Parts

LEMMA PutKeeps ==
    ASSUME TypeOK, Parts, NEW r \in Requests, Put(r)
    PROVE  Parts'
<1>. DEFINE c == request[r].of
<1>1. request[r].pc = "put" /\ c \in Certifications
  BY RequestShape DEF Put, Storing
<1>2. PICK k \in Keys \ drawn : /\ drawn' = drawn \cup {k} /\ objects' = objects \cup {k}
                                /\ Goto(r, [pc |-> "attach", of |-> c, key |-> k])
  BY DEF Put
<1>3. /\ request'[r] = [pc |-> "attach", of |-> c, key |-> k]
      /\ \A s \in Requests : s # r => request'[s] = request[s]
  BY <1>2 DEF Goto, TypeOK
<1>4. \A s \in Requests : Owned(s) => request[s].key # k
  BY <1>2 DEF Owned, TypeOK, Parts, KeysApart, CleansGone
<1>5. \A d \in Certifications : attached[d] # k
  BY <1>2, NoneAssumption DEF Parts, KeysApart
<1>6. LocksHold'
  BY <1>1, <1>3 DEF TypeOK, Parts, LocksHold, Put, rows
<1>7. KeysApart'
  BY <1>1, <1>2, <1>3, <1>4, <1>5 DEF Parts, KeysApart, Owned, Put, rows
<1>8. CleansGone' /\ DocumentsAreStored' /\ OrphansHaveACause'
  BY <1>1, <1>2, <1>3
  DEF Parts, CleansGone, DocumentsAreStored, OrphansHaveACause, Owned, Put, rows, history
<1>. QED
  BY <1>6, <1>7, <1>8 DEF Parts

\* A transaction that leaves no object to delete.
LEMMA CleanUpNone ==
    ASSUME TypeOK, NEW r \in Requests, CleanUp(r, None)
    PROVE  /\ request'[r].pc = "idle"
           /\ \A s \in Requests : s # r => request'[s] = request[s]
           /\ \A c \in Certifications : lock'[c] = lock[c] \ {r}
<1>1. request'[r] = Idle
  BY CleanUpType
<1>2. request'[r].pc = "idle"
  BY <1>1 DEF Idle
<1>. QED
  BY <1>2, CleanUpType

\* A transaction that leaves an object to delete.
LEMMA CleanUpKey ==
    ASSUME TypeOK, NEW r \in Requests, NEW key \in Keys, CleanUp(r, key)
    PROVE  /\ request'[r].pc = "clean" /\ request'[r].key = key
           /\ \A s \in Requests : s # r => request'[s] = request[s]
           /\ \A c \in Certifications : lock'[c] = lock[c] \ {r}
<1>1. request'[r] = [pc |-> "clean", key |-> key]
  BY CleanUpType, NoneAssumption
<1>2. request'[r].pc = "clean" /\ request'[r].key = key
  BY <1>1
<1>. QED
  BY <1>2, CleanUpType

LEMMA FailPutKeeps ==
    ASSUME TypeOK, Parts, NEW r \in Requests, FailPut(r)
    PROVE  Parts'
<1>1. /\ request[r].pc = "put" /\ request'[r].pc = "idle"
      /\ \A s \in Requests : s # r => request'[s] = request[s]
      /\ \A c \in Certifications : lock'[c] = lock[c] \ {r}
  BY CleanUpNone DEF FailPut
<1>2. LocksHold'
  BY <1>1, LocksUndisturbed DEF FailPut, rows, Parts
<1>3. objects \subseteq objects' /\ drawn \subseteq drawn' /\ abandoned \subseteq abandoned'
      /\ objects' \ objects \subseteq abandoned'
  BY DEF FailPut
<1>4. KeysApart'
  BY <1>1, <1>3 DEF Parts, KeysApart, Owned, FailPut, rows
<1>5. CleansGone' /\ DocumentsAreStored' /\ OrphansHaveACause'
  BY <1>1, <1>3
  DEF Parts, CleansGone, DocumentsAreStored, OrphansHaveACause, Owned, FailPut, rows
<1>. QED
  BY <1>2, <1>4, <1>5 DEF Parts

\* An upload ends in its row: the key it replaces is cleaned up (CommitAttach).
LEMMA CommitAttachKeeps ==
    ASSUME TypeOK, Parts, NEW r \in Requests, CommitAttach(r)
    PROVE  Parts'
<1>. DEFINE c == request[r].of
            old == attached[c]
<1>1. /\ request[r].pc = "attach" /\ c \in Certifications /\ request[r].key \in Keys
      /\ r \in lock[c] /\ old \in Keys \cup {None}
  BY RequestShape DEF CommitAttach, Attaching, TypeOK
<1>2. /\ attached' = [attached EXCEPT ![c] = request[r].key]
      /\ CleanUp(r, old)
      /\ UNCHANGED <<certification, objects, drawn, doubtful, abandoned>>
  BY DEF CommitAttach, history
<1>3. /\ \A s \in Requests : s # r => request'[s] = request[s]
      /\ \A d \in Certifications : lock'[d] = lock[d] \ {r}
      /\ old = None => request'[r].pc = "idle"
      /\ old # None => request'[r].pc = "clean" /\ request'[r].key = old
  BY <1>1, <1>2, CleanUpNone, CleanUpKey
<1>4. /\ attached'[c] = request[r].key
      /\ \A d \in Certifications : d # c => attached'[d] = attached[d]
  BY <1>1, <1>2 DEF TypeOK
<1>5. LocksHold'
  BY <1>1, <1>3, <1>4, LocksUndisturbed DEF Parts
<1>6. KeysApart'
  BY <1>1, <1>2, <1>3, <1>4, NoneAssumption DEF Parts, KeysApart, Owned, TypeOK
<1>7. CleansGone'
  BY <1>1, <1>2, <1>3, <1>4 DEF Parts, KeysApart, CleansGone, Owned
<1>8. DocumentsAreStored'
  BY <1>1, <1>2, <1>3, <1>4 DEF Parts, KeysApart, DocumentsAreStored
<1>9. OrphansHaveACause'
  <2>1. objects \subseteq Keys
    BY DEF TypeOK
  <2>. QED
    BY <1>1, <1>2, <1>3, <1>4, <2>1, NoneAssumption DEF Parts, OrphansHaveACause, Owned
<1>. QED
  BY <1>5, <1>6, <1>7, <1>8, <1>9 DEF Parts

\* An upload that fails cleans up its own key, which no row names.
LEMMA FailAttachKeeps ==
    ASSUME TypeOK, Parts, NEW r \in Requests, FailAttach(r)
    PROVE  Parts'
<1>1. /\ request[r].pc = "attach" /\ request[r].key \in Keys
      /\ UNCHANGED <<certification, attached, objects, drawn, doubtful, abandoned>>
  BY RequestShape DEF FailAttach, Attaching, rows, history
<1>2. /\ request'[r].pc = "clean" /\ request'[r].key = request[r].key
      /\ \A s \in Requests : s # r => request'[s] = request[s]
      /\ \A d \in Certifications : lock'[d] = lock[d] \ {r}
  BY <1>1, CleanUpKey DEF FailAttach
<1>3. LocksHold'
  BY <1>1, <1>2, LocksUndisturbed DEF Parts
<1>4. KeysApart' /\ CleansGone'
  BY <1>1, <1>2 DEF Parts, KeysApart, CleansGone, Owned, TypeOK
<1>5. DocumentsAreStored' /\ OrphansHaveACause'
  BY <1>1, <1>2 DEF Parts, DocumentsAreStored, OrphansHaveACause, Owned
<1>. QED
  BY <1>3, <1>4, <1>5 DEF Parts

\* The row names the key that is cleaned up: the one exception to DocumentsAreStored.
LEMMA LoseAttachAnswerKeeps ==
    ASSUME TypeOK, Parts, NEW r \in Requests, LoseAttachAnswer(r)
    PROVE  Parts'
<1>. DEFINE c == request[r].of
<1>1. /\ request[r].pc = "attach" /\ c \in Certifications /\ request[r].key \in Keys
      /\ r \in lock[c]
  BY RequestShape DEF LoseAttachAnswer, Attaching
<1>2. /\ attached' = [attached EXCEPT ![c] = request[r].key]
      /\ doubtful' = doubtful \cup {request[r].key}
      /\ abandoned' = abandoned \cup ({attached[c]} \ {None})
      /\ CleanUp(r, request[r].key)
      /\ UNCHANGED <<certification, objects, drawn>>
  BY DEF LoseAttachAnswer
<1>3. /\ request'[r].pc = "clean" /\ request'[r].key = request[r].key
      /\ \A s \in Requests : s # r => request'[s] = request[s]
      /\ \A d \in Certifications : lock'[d] = lock[d] \ {r}
  BY <1>1, <1>2, CleanUpKey
<1>4. /\ attached'[c] = request[r].key
      /\ \A d \in Certifications : d # c => attached'[d] = attached[d]
  BY <1>1, <1>2 DEF TypeOK
<1>5. LocksHold'
  BY <1>1, <1>3, <1>4, LocksUndisturbed DEF Parts
<1>6. KeysApart'
  BY <1>1, <1>2, <1>3, <1>4 DEF Parts, KeysApart, Owned, TypeOK
<1>7. CleansGone'
  BY <1>1, <1>2, <1>3, <1>4 DEF Parts, KeysApart, CleansGone, Owned, TypeOK
<1>8. DocumentsAreStored'
  BY <1>1, <1>2, <1>3, <1>4 DEF Parts, DocumentsAreStored
<1>9. OrphansHaveACause'
  BY <1>1, <1>2, <1>3, <1>4, NoneAssumption DEF Parts, OrphansHaveACause, Owned, TypeOK
<1>. QED
  BY <1>5, <1>6, <1>7, <1>8, <1>9 DEF Parts

\* A removal deletes the object of the row it locked and read.
LEMMA DetachKeeps ==
    ASSUME TypeOK, Parts, NEW r \in Requests, CommitDetach(r) \/ LoseDetachAnswer(r)
    PROVE  Parts'
<1>. DEFINE c == request[r].of
            old == request[r].key
<1>1. /\ request[r].pc \in {"remove", "delete"} /\ c \in Certifications
      /\ old \in Keys \cup {None} /\ r \in lock[c]
      /\ attached' = [attached EXCEPT ![c] = None]
      /\ UNCHANGED <<objects, drawn, doubtful>>
  BY RequestShape DEF CommitDetach, LoseDetachAnswer, Detach, Detaching, history
<1>2. old = attached[c]
  BY <1>1 DEF Parts, LocksHold
<1>3. /\ \A s \in Requests : s # r => request'[s] = request[s]
      /\ \A d \in Certifications : lock'[d] = lock[d] \ {r}
      /\ \/ request'[r].pc = "idle" /\ abandoned' = abandoned \cup ({old} \ {None})
         \/ /\ old # None /\ request'[r].pc = "clean" /\ request'[r].key = old
            /\ abandoned' = abandoned
  <2>1. CASE CommitDetach(r)
    <3>1. CleanUp(r, old) /\ abandoned' = abandoned
      BY <2>1 DEF CommitDetach, history
    <3>2. CASE old = None
      BY <3>1, <3>2, CleanUpNone
    <3>3. CASE old \in Keys
      BY <3>1, <3>3, CleanUpKey, NoneAssumption
    <3>. QED
      BY <1>1, <3>2, <3>3
  <2>2. CASE LoseDetachAnswer(r)
    BY <2>2, CleanUpNone DEF LoseDetachAnswer
  <2>. QED
    BY <2>1, <2>2
<1>4. /\ attached'[c] = None
      /\ \A d \in Certifications : d # c => attached'[d] = attached[d]
  BY <1>1 DEF TypeOK
<1>5. LocksHold'
  BY <1>1, <1>3, <1>4, LocksUndisturbed DEF Parts
<1>6. KeysApart'
  <2>1. \A s \in Requests : request[s].pc = "attach" => request[s].key # None
    BY RequestShape, NoneAssumption DEF Attaching
  <2>. QED
    BY <1>1, <1>2, <1>3, <1>4, <2>1 DEF Parts, KeysApart, Owned
<1>7. CleansGone'
  <2>1. \A s \in Requests : request[s].pc = "clean" => request[s].key # None
    BY RequestShape, NoneAssumption DEF Cleaning
  <2>. QED
    BY <1>1, <1>2, <1>3, <1>4, <2>1 DEF Parts, KeysApart, CleansGone
<1>8. DocumentsAreStored'
  BY <1>1, <1>4 DEF Parts, DocumentsAreStored
<1>9. OrphansHaveACause'
  <2>1. objects \subseteq Keys
    BY DEF TypeOK
  <2>. QED
    BY <1>1, <1>2, <1>3, <1>4, <2>1, NoneAssumption DEF Parts, OrphansHaveACause, Owned
<1>. QED
  BY <1>5, <1>6, <1>7, <1>8, <1>9 DEF Parts

LEMMA FailDetachKeeps ==
    ASSUME TypeOK, Parts, NEW r \in Requests, FailDetach(r)
    PROVE  Parts'
<1>1. /\ request[r].pc \in {"remove", "delete"} /\ request'[r].pc = "idle"
      /\ \A s \in Requests : s # r => request'[s] = request[s]
      /\ \A d \in Certifications : lock'[d] = lock[d] \ {r}
  BY CleanUpNone DEF FailDetach
<1>2. LocksHold'
  BY <1>1, LocksUndisturbed DEF FailDetach, rows, Parts
<1>. QED
  BY <1>1, <1>2, KeysUndisturbed DEF FailDetach, Parts

\* No row but a doubtful one names the object that is deleted.
LEMMA CleanKeeps ==
    ASSUME TypeOK, Parts, NEW r \in Requests, Clean(r) \/ FailClean(r)
    PROVE  Parts'
<1>. DEFINE k == request[r].key
<1>1. /\ request[r].pc = "clean" /\ k \in Keys
      /\ \/ objects' = objects
         \/ objects' = objects \ {k}
      /\ abandoned \subseteq abandoned'
      /\ k \in objects' => k \in abandoned'
      /\ UNCHANGED <<certification, attached, drawn, lock, doubtful>>
  BY RequestShape DEF Clean, FailClean, Cleaning, rows, history
<1>2. /\ request'[r].pc = "idle"
      /\ \A s \in Requests : s # r => request'[s] = request[s]
  BY DEF Clean, FailClean, Goto, Idle, TypeOK
<1>3. LocksHold'
  BY <1>1, <1>2 DEF TypeOK, Parts, LocksHold
<1>4. KeysApart'
  BY <1>1, <1>2 DEF Parts, KeysApart, Owned
<1>5. CleansGone' /\ DocumentsAreStored'
  BY <1>1, <1>2 DEF Parts, CleansGone, DocumentsAreStored
<1>6. OrphansHaveACause'
  BY <1>1, <1>2 DEF Parts, OrphansHaveACause, Owned
<1>. QED
  BY <1>3, <1>4, <1>5, <1>6 DEF Parts

LEMMA DisconnectKeeps ==
    ASSUME TypeOK, Parts, NEW r \in Requests, Disconnect(r)
    PROVE  Parts'
<1>1. /\ UNCHANGED <<certification, attached, objects, drawn, request, doubtful, abandoned>>
      /\ \A d \in Certifications : lock'[d] = lock[d] \ {r}
  BY ReleaseType DEF Disconnect, rows, history
<1>2. LocksHold'
  BY <1>1, LocksUndisturbed DEF Parts
<1>3. KeysApart' /\ CleansGone' /\ DocumentsAreStored' /\ OrphansHaveACause'
  BY <1>1 DEF Parts, KeysApart, CleansGone, DocumentsAreStored, OrphansHaveACause, Owned
<1>. QED
  BY <1>2, <1>3 DEF Parts

LEMMA CrashKeeps ==
    ASSUME TypeOK, Parts, Crash
    PROVE  Parts'
<1>1. \A s \in Requests : request'[s].pc = "idle"
  BY DEF Crash, Idle
<1>2. LocksHold'
  BY DEF Crash, LocksHold
<1>3. KeysApart' /\ CleansGone' /\ DocumentsAreStored'
  BY <1>1 DEF Crash, Parts, KeysApart, CleansGone, DocumentsAreStored, rows
<1>4. \A s \in Requests : Owned(s) => request[s].key \in abandoned'
  BY DEF Crash, Owned
<1>5. OrphansHaveACause'
  BY <1>4 DEF Crash, Parts, OrphansHaveACause, rows
<1>. QED
  BY <1>2, <1>3, <1>5 DEF Parts

LEMMA PartsStep == TypeOK /\ Parts /\ [Next]_vars => Parts'
<1>. SUFFICES ASSUME TypeOK, Parts, [Next]_vars PROVE Parts'
  OBVIOUS
<1>1. CASE UNCHANGED vars
  BY <1>1 DEF vars, rows, history, Parts, LocksHold, KeysApart, CleansGone, DocumentsAreStored,
     OrphansHaveACause, Owned
<1>2. CASE Next
  BY <1>2, AddKeeps, BeginKeeps, LockKeeps, PutKeeps, FailPutKeeps, CommitAttachKeeps,
     FailAttachKeeps, LoseAttachAnswerKeeps, DetachKeeps, FailDetachKeeps, CleanKeeps,
     DisconnectKeeps, CrashKeeps
  DEF Next
<1>. QED
  BY <1>1, <1>2

-------------------------------------------------------------------------------
\* The theorems.

LEMMA Invariance == Spec => [](TypeOK /\ Parts)
  BY InitialInv, TypeStep, PartsStep, PTL DEF Spec

\* A document that a professional sees attached is in the bucket, whatever replaces,
\* removes and fails around it, unless the answer to its own commit was lost.
THEOREM DocumentsStored == Spec => []DocumentsAreStored
<1>1. TypeOK /\ Parts => DocumentsAreStored
  BY DEF Parts
<1>. QED
  BY <1>1, Invariance, PTL

\* No object is left in the bucket without a row, a request that owns it or a failure
\* that explains it.
THEOREM NothingLeaks == Spec => []OrphansHaveACause
<1>1. TypeOK /\ Parts => OrphansHaveACause
  BY DEF Parts
<1>. QED
  BY <1>1, Invariance, PTL
===============================================================================
