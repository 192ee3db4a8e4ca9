--------------------------- MODULE RegistrationProofs ---------------------------
(***************************************************************************)
(* Proofs about Registration, for any people, forms, threads and number of *)
(* failures.                                                               *)
(***************************************************************************)
EXTENDS Registration, TLAPS

\* An attempt about to link an identity has proved that it is its person's.
LinksAreProven ==
    \A t \in Threads : At(t, "link") =>
       /\ owner[attempt[t].email] = attempt[t].by
       /\ attempt[t].confirmed => attempt[t].email \in confirmed

LEMMA InitialInv == Init => TypeOK /\ NoLateConflict /\ LinksAreProven /\ OrphansAreReported
  BY FaultsAssumption DEF Init, TypeOK, NoLateConflict, LinksAreProven, OrphansAreReported,
     Idle, At, InsertedUser, InsertedProfile

\* The shape of an attempt follows from its program counter.
LEMMA AttemptShape ==
    ASSUME TypeOK, NEW t \in Threads
    PROVE  /\ attempt[t].pc \in {"user", "profile", "provider"} => attempt[t] \in Inserting
           /\ attempt[t].pc = "link" => attempt[t] \in Linking
           /\ attempt[t].pc = "idle" => attempt[t] = Idle
           /\ attempt[t].pc # "idle" => /\ attempt[t].by \in People
                                        /\ attempt[t].email \in Emails
                                        /\ attempt[t].document \in Documents
           /\ attempt[t].pc \in {"idle", "user", "profile", "provider", "link"}
  BY DEF TypeOK, Idle, Inserting, Linking

LEMMA GotoType ==
    ASSUME TypeOK, NEW t \in Threads, NEW state \in {Idle} \cup Inserting \cup Linking,
           Goto(t, state)
    PROVE  /\ attempt' \in [Threads -> {Idle} \cup Inserting \cup Linking]
           /\ attempt'[t] = state
           /\ \A s \in Threads : s # t => attempt'[s] = attempt[s]
  BY DEF TypeOK, Goto

LEMMA RollBackType ==
    ASSUME TypeOK, NEW t \in Threads, Finish(t)
    PROVE  /\ attempt' \in [Threads -> {Idle} \cup Inserting \cup Linking]
           /\ attempt'[t].pc = "idle"
           /\ \A s \in Threads : s # t => attempt'[s] = attempt[s]
<1>1. attempt'[t] = Idle
  BY GotoType DEF Finish
<1>2. attempt'[t].pc = "idle"
  BY <1>1 DEF Idle
<1>. QED
  BY <1>2, GotoType DEF Finish

LEMMA ProceedType ==
    ASSUME TypeOK, NEW t \in Threads, attempt[t] \in Inserting,
           NEW pc \in {"user", "profile", "provider"}, Proceed(t, pc)
    PROVE  /\ attempt' \in [Threads -> {Idle} \cup Inserting \cup Linking]
           /\ attempt'[t].pc = pc
           /\ attempt'[t].connected = attempt[t].connected
           /\ attempt'[t].email = attempt[t].email
           /\ attempt'[t].document = attempt[t].document
           /\ \A s \in Threads : s # t => attempt'[s] = attempt[s]
<1>1. [attempt[t] EXCEPT !.pc = pc] \in Inserting
  BY DEF Inserting
<1>2. attempt' = [attempt EXCEPT ![t] = [attempt[t] EXCEPT !.pc = pc]]
  BY DEF Proceed
<1>3. attempt'[t] = [attempt[t] EXCEPT !.pc = pc]
  BY <1>2 DEF TypeOK
<1>4. /\ attempt'[t].pc = pc /\ attempt'[t].connected = attempt[t].connected
      /\ attempt'[t].email = attempt[t].email /\ attempt'[t].document = attempt[t].document
  BY <1>3 DEF Inserting
<1>. QED
  BY <1>1, <1>2, <1>4 DEF TypeOK

LEMMA IdentifiedType ==
    ASSUME TypeOK, NEW t \in Threads, attempt[t] \in Inserting, NEW c \in BOOLEAN,
           Identified(t, c)
    PROVE  /\ attempt' \in [Threads -> {Idle} \cup Inserting \cup Linking]
           /\ attempt'[t].pc = "link" /\ attempt'[t].by = attempt[t].by
           /\ attempt'[t].connected = attempt[t].connected
           /\ attempt'[t].email = attempt[t].email
           /\ attempt'[t].document = attempt[t].document
           /\ attempt'[t].confirmed = c
           /\ \A s \in Threads : s # t => attempt'[s] = attempt[s]
<1>. DEFINE next == [pc |-> "link", by |-> attempt[t].by,
                     connected |-> attempt[t].connected, email |-> attempt[t].email,
                     document |-> attempt[t].document, confirmed |-> c]
<1>1. next \in Linking
  BY DEF Linking, Inserting
<1>2. Goto(t, next)
  BY DEF Identified
<1>. HIDE DEF next
<1>3. /\ attempt' \in [Threads -> {Idle} \cup Inserting \cup Linking]
      /\ attempt'[t] = next
      /\ \A s \in Threads : s # t => attempt'[s] = attempt[s]
  BY <1>1, <1>2, GotoType
<1>4. /\ next.pc = "link" /\ next.by = attempt[t].by /\ next.email = attempt[t].email
      /\ next.connected = attempt[t].connected /\ next.document = attempt[t].document
      /\ next.confirmed = c
  BY DEF next
<1>. QED
  BY <1>3, <1>4

LEMMA FaultType ==
    ASSUME TypeOK, Fault
    PROVE  faults' \in 0..MaxFaults
  BY FaultsAssumption DEF TypeOK, Fault

LEMMA TypeStep == TypeOK /\ [Next]_vars => TypeOK'
<1>. SUFFICES ASSUME TypeOK, [Next]_vars PROVE TypeOK'
  OBVIOUS
<1>. USE DEF provider, history
<1>1. ASSUME NEW t \in Threads, NEW p \in People, NEW form \in Forms[p], Begin(t, p, form)
      PROVE  TypeOK'
  <2>1. form.email \in Emails /\ form.document \in Documents
    BY FormsAssumption
  <2>. DEFINE next == [pc |-> "user", by |-> p, connected |-> TRUE,
                       email |-> form.email, document |-> form.document]
  <2>2. next \in Inserting /\ Goto(t, next)
    BY <1>1, <2>1 DEF Begin, Inserting
  <2>. HIDE DEF next
  <2>. QED
    BY <1>1, <2>2, GotoType DEF Begin, TypeOK
<1>2. ASSUME NEW t \in Threads, InsertUser(t) PROVE TypeOK'
  <2>1. attempt[t] \in Inserting /\ (Finish(t) \/ Proceed(t, "profile"))
    BY <1>2, AttemptShape DEF InsertUser, At
  <2>. QED
    BY <1>2, <2>1, RollBackType, ProceedType DEF InsertUser, TypeOK
<1>3. ASSUME NEW t \in Threads, InsertProfile(t) PROVE TypeOK'
  <2>1. attempt[t] \in Inserting /\ (Finish(t) \/ Proceed(t, "provider"))
    BY <1>3, AttemptShape DEF InsertProfile, At
  <2>. QED
    BY <1>3, <2>1, RollBackType, ProceedType DEF InsertProfile, TypeOK
<1>4. ASSUME NEW t \in Threads, SignUp(t) \/ Recover(t) PROVE TypeOK'
  <2>1. attempt[t] \in Inserting
    BY <1>4, AttemptShape DEF SignUp, Recover, At
  <2>2. attempt[t].by \in People /\ attempt[t].email \in Emails
    BY <2>1 DEF Inserting
  <2>. QED
    BY <1>4, <2>1, <2>2, IdentifiedType DEF SignUp, Recover, TypeOK
<1>5. ASSUME NEW t \in Threads, SignUpUnanswered(t) PROVE TypeOK'
  <2>1. attempt[t].by \in People /\ attempt[t].email \in Emails
    BY <1>5, AttemptShape DEF SignUpUnanswered, At
  <2>. QED
    BY <1>5, <2>1, RollBackType, FaultType DEF SignUpUnanswered, TypeOK
<1>6. ASSUME NEW t \in Threads, RefuseIdentity(t) PROVE TypeOK'
  BY <1>6, RollBackType DEF RefuseIdentity, TypeOK
<1>7. ASSUME NEW t \in Threads, Commit(t) \/ CommitUnanswered(t) PROVE TypeOK'
  <2>1. attempt[t] \in Linking
    BY <1>7, AttemptShape DEF Commit, CommitUnanswered, Store, At
  <2>2. /\ attempt[t].email \in Emails
        /\ [email |-> attempt[t].email, document |-> attempt[t].document,
            by |-> attempt[t].by, confirmed |-> attempt[t].confirmed] \in Accounts
    BY <2>1 DEF Linking, Accounts
  <2>3. accounts' \subseteq Accounts
    BY <1>7, <2>2 DEF Commit, CommitUnanswered, Store, TypeOK
  <2>. QED
    BY <1>7, <2>2, <2>3, RollBackType, FaultType DEF Commit, CommitUnanswered, TypeOK
<1>8. ASSUME NEW t \in Threads, FailCommit(t) PROVE TypeOK'
  <2>1. attempt[t].email \in Emails
    BY <1>8, AttemptShape DEF FailCommit, At
  <2>. QED
    BY <1>8, <2>1, RollBackType, FaultType DEF FailCommit, TypeOK
<1>9. ASSUME NEW t \in Threads, Fail(t) PROVE TypeOK'
  BY <1>9, RollBackType, FaultType DEF Fail, TypeOK
<1>10. ASSUME NEW t \in Threads, Disconnect(t) PROVE TypeOK'
  <2>1. attempt' = [attempt EXCEPT ![t] = [attempt[t] EXCEPT !.connected = FALSE]]
    BY <1>10 DEF Disconnect
  <2>2. attempt[t] \in Inserting \cup Linking
    BY <1>10, AttemptShape DEF Disconnect, At
  <2>3. [attempt[t] EXCEPT !.connected = FALSE] \in Inserting \cup Linking
    <3>1. CASE attempt[t] \in Inserting
      BY <3>1 DEF Inserting
    <3>2. CASE attempt[t] \in Linking
      BY <3>2 DEF Linking
    <3>. QED
      BY <2>2, <3>1, <3>2
  <2>. QED
    BY <1>10, <2>1, <2>3, FaultType DEF Disconnect, TypeOK
<1>11. ASSUME NEW e \in Emails, Confirm(e) PROVE TypeOK'
  BY <1>11 DEF Confirm, TypeOK
<1>12. ASSUME Crash PROVE TypeOK'
  <2>1. {attempt[t].email : t \in {s \in Threads : At(s, "link")}} \subseteq Emails
    BY AttemptShape DEF At
  <2>. QED
    BY <1>12, <2>1, FaultType DEF Crash, TypeOK
<1>13. ASSUME UNCHANGED vars PROVE TypeOK'
  BY <1>13 DEF vars, TypeOK
<1>. QED
  BY <1>1, <1>2, <1>3, <1>4, <1>5, <1>6, <1>7, <1>8, <1>9, <1>10, <1>11, <1>12, <1>13
  DEF Next, Handle

\* Types hold in every behaviour.
THEOREM TypeCorrect == Spec => []TypeOK
<1>1. Init => TypeOK
  BY InitialInv
<1>. QED
  BY <1>1, TypeStep, PTL DEF Spec

-------------------------------------------------------------------------------
\* Conflicts.

\* An attempt that inserts nothing new, while no account opens, causes no conflict.
LEMMA NothingInserted ==
    ASSUME NoLateConflict, NEW t \in Threads, accounts' = accounts,
           \A s \in Threads : s # t => attempt'[s] = attempt[s],
           \A e : InsertedUser(t, e)' => InsertedUser(t, e),
           \A d : InsertedProfile(t, d)' => InsertedProfile(t, d)
    PROVE  NoLateConflict'
<1>1. \A s \in Threads : \A e, d : /\ InsertedUser(s, e)' => InsertedUser(s, e)
                                   /\ InsertedProfile(s, d)' => InsertedProfile(s, d)
  BY DEF InsertedUser, InsertedProfile
<1>. QED
  BY <1>1 DEF NoLateConflict

\* A row that goes in, where its unique column let it, keeps the attempts apart.
LEMMA InsertUserConflicts ==
    ASSUME TypeOK, NoLateConflict, NEW t \in Threads, InsertUser(t)
    PROVE  NoLateConflict'
<1>1. attempt[t] \in Inserting /\ accounts' = accounts /\ attempt[t].pc = "user"
  BY AttemptShape DEF InsertUser, At
<1>. attempt[t].email \in Emails /\ attempt[t].document \in Documents
  BY <1>1 DEF Inserting
<1>2. CASE Finish(t)
  BY <1>1, <1>2, RollBackType, NothingInserted DEF InsertedUser, InsertedProfile
<1>3. CASE ~Finish(t)
  <2>1. /\ \A s \in Threads : ~InsertedUser(s, attempt[t].email)
        /\ \A a \in accounts : a.email # attempt[t].email
        /\ Proceed(t, "profile")
    BY <1>3 DEF InsertUser
  <2>2. /\ attempt'[t].pc = "profile" /\ attempt'[t].email = attempt[t].email
        /\ \A s \in Threads : s # t => attempt'[s] = attempt[s]
    BY <1>1, <2>1, ProceedType
  <2>. QED
    BY <1>1, <2>1, <2>2 DEF NoLateConflict, InsertedUser, InsertedProfile
<1>. QED
  BY <1>2, <1>3

LEMMA InsertProfileConflicts ==
    ASSUME TypeOK, NoLateConflict, NEW t \in Threads, InsertProfile(t)
    PROVE  NoLateConflict'
<1>1. attempt[t] \in Inserting /\ accounts' = accounts /\ attempt[t].pc = "profile"
      /\ attempt[t].connected
  BY AttemptShape DEF InsertProfile, At
<1>. attempt[t].email \in Emails /\ attempt[t].document \in Documents
  BY <1>1 DEF Inserting
<1>2. CASE Finish(t)
  BY <1>1, <1>2, RollBackType, NothingInserted DEF InsertedUser, InsertedProfile
<1>3. CASE ~Finish(t)
  <2>1. /\ \A s \in Threads : ~InsertedProfile(s, attempt[t].document)
        /\ \A a \in accounts : a.document # attempt[t].document
        /\ Proceed(t, "provider")
    BY <1>3 DEF InsertProfile
  <2>2. /\ attempt'[t].pc = "provider" /\ attempt'[t].email = attempt[t].email
        /\ attempt'[t].document = attempt[t].document
        /\ \A s \in Threads : s # t => attempt'[s] = attempt[s]
    BY <1>1, <2>1, ProceedType
  <2>. QED
    BY <1>1, <2>1, <2>2 DEF NoLateConflict, InsertedUser, InsertedProfile
<1>. QED
  BY <1>2, <1>3

\* An account that opens was nobody else's to open.
LEMMA StoreConflicts ==
    ASSUME TypeOK, NoLateConflict, NEW t \in Threads, Store(t), Finish(t)
    PROVE  /\ NoLateConflict'
           /\ \A a \in accounts : /\ a.email # attempt[t].email
                                  /\ a.document # attempt[t].document
<1>1. /\ InsertedUser(t, attempt[t].email) /\ InsertedProfile(t, attempt[t].document)
      /\ attempt[t].email \in Emails /\ attempt[t].document \in Documents
  BY AttemptShape DEF Store, At, InsertedUser, InsertedProfile
<1>2. /\ attempt'[t].pc = "idle"
      /\ \A s \in Threads : s # t => attempt'[s] = attempt[s]
  BY RollBackType
<1>3. \A a \in accounts' : a \in accounts \/ (/\ a.email = attempt[t].email
                                              /\ a.document = attempt[t].document)
  BY DEF Store
<1>. QED
  BY <1>1, <1>2, <1>3 DEF NoLateConflict, InsertedUser, InsertedProfile

LEMMA ConflictStep == TypeOK /\ NoLateConflict /\ [Next]_vars => NoLateConflict'
<1>. SUFFICES ASSUME TypeOK, NoLateConflict, [Next]_vars PROVE NoLateConflict'
  OBVIOUS
<1>1. ASSUME NEW t \in Threads, NEW p \in People, NEW form \in Forms[p], Begin(t, p, form)
      PROVE  NoLateConflict'
  <2>1. /\ accounts' = accounts /\ attempt'[t].pc = "user"
        /\ \A s \in Threads : s # t => attempt'[s] = attempt[s]
    BY <1>1 DEF Begin, Goto, TypeOK
  <2>. QED
    BY <2>1, NothingInserted DEF InsertedUser, InsertedProfile
<1>2. ASSUME NEW t \in Threads, SignUp(t) \/ Recover(t) PROVE NoLateConflict'
  <2>1. attempt[t] \in Inserting /\ attempt[t].pc = "provider" /\ accounts' = accounts
    BY <1>2, AttemptShape DEF SignUp, Recover, At
  <2>2. PICK c \in BOOLEAN : Identified(t, c)
    BY <1>2 DEF SignUp, Recover
  <2>3. /\ attempt'[t].email = attempt[t].email /\ attempt'[t].document = attempt[t].document
        /\ attempt'[t].connected = attempt[t].connected
        /\ \A s \in Threads : s # t => attempt'[s] = attempt[s]
    BY <2>1, <2>2, IdentifiedType
  <2>. QED
    BY <2>1, <2>3, NothingInserted DEF InsertedUser, InsertedProfile
<1>3. ASSUME NEW t \in Threads,
             SignUpUnanswered(t) \/ RefuseIdentity(t) \/ FailCommit(t) \/ Fail(t)
      PROVE  NoLateConflict'
  <2>1. accounts' = accounts /\ Finish(t)
    BY <1>3 DEF SignUpUnanswered, RefuseIdentity, FailCommit, Fail
  <2>. QED
    BY <2>1, RollBackType, NothingInserted DEF InsertedUser, InsertedProfile
<1>4. ASSUME NEW t \in Threads, Commit(t) \/ CommitUnanswered(t) PROVE NoLateConflict'
  BY <1>4, StoreConflicts DEF Commit, CommitUnanswered
<1>5. ASSUME NEW t \in Threads, Disconnect(t) PROVE NoLateConflict'
  <2>1. /\ accounts' = accounts /\ attempt'[t].connected = FALSE
        /\ \A s \in Threads : s # t => attempt'[s] = attempt[s]
    <3>1. attempt' = [attempt EXCEPT ![t] = [attempt[t] EXCEPT !.connected = FALSE]]
      BY <1>5 DEF Disconnect
    <3>2. attempt[t] \in Inserting \cup Linking
      BY <1>5, AttemptShape DEF Disconnect, At
    <3>3. [attempt[t] EXCEPT !.connected = FALSE].connected = FALSE
      BY <3>2 DEF Inserting, Linking
    <3>. QED
      BY <1>5, <3>1, <3>3 DEF Disconnect, TypeOK
  <2>. QED
    BY <2>1, NothingInserted DEF InsertedUser, InsertedProfile
<1>6. ASSUME NEW e \in Emails, Confirm(e) PROVE NoLateConflict'
  BY <1>6 DEF Confirm, NoLateConflict, InsertedUser, InsertedProfile
<1>7. ASSUME Crash PROVE NoLateConflict'
  BY <1>7 DEF Crash, Idle, NoLateConflict, InsertedUser, InsertedProfile
<1>8. ASSUME UNCHANGED vars PROVE NoLateConflict'
  BY <1>8 DEF vars, NoLateConflict, InsertedUser, InsertedProfile
<1>. QED
  BY <1>1, <1>2, <1>3, <1>4, <1>5, <1>6, <1>7, <1>8, InsertUserConflicts,
     InsertProfileConflicts
  DEF Next, Handle

\* Whoever's rows are in cannot be refused by a unique column any more.
THEOREM ConflictsComeFirst == Spec => []NoLateConflict
<1>. QED
  BY InitialInv, TypeStep, ConflictStep, PTL DEF Spec

-------------------------------------------------------------------------------
\* Identities.

\* An identity never changes hands, and an address stays confirmed.
LEMMA IdentitiesStay ==
    ASSUME TypeOK, [Next]_vars, NEW e \in Emails
    PROVE  (owner[e] # Nobody => owner'[e] = owner[e]) /\ (e \in confirmed => e \in confirmed')
<1>1. ASSUME NEW t \in Threads, SignUp(t) \/ SignUpUnanswered(t)
      PROVE  (owner[e] # Nobody => owner'[e] = owner[e]) /\ confirmed' = confirmed
  BY <1>1 DEF SignUp, SignUpUnanswered, TypeOK
<1>. QED
  BY <1>1 DEF Next, Handle, Begin, InsertUser, InsertProfile, Recover, RefuseIdentity, Commit,
     CommitUnanswered, FailCommit, Fail, Disconnect, Confirm, Crash, vars, provider

\* An attempt comes to the link only from the provider's answer.
LEMMA LinkStep == TypeOK /\ LinksAreProven /\ [Next]_vars => LinksAreProven'
<1>. SUFFICES ASSUME TypeOK, LinksAreProven, [Next]_vars, NEW t \in Threads, At(t, "link")'
              PROVE  (/\ owner[attempt[t].email] = attempt[t].by
                      /\ attempt[t].confirmed => attempt[t].email \in confirmed)'
  BY DEF LinksAreProven
<1>1. CASE SignUp(t) \/ Recover(t)
  <2>1. attempt[t] \in Inserting
    BY <1>1, AttemptShape DEF SignUp, Recover, At
  <2>2. attempt[t].email \in Emails
    BY <2>1 DEF Inserting
  <2>3. CASE SignUp(t)
    <3>1. /\ attempt'[t].email = attempt[t].email /\ attempt'[t].by = attempt[t].by
          /\ attempt'[t].confirmed = FALSE
      BY <2>1, <2>3, IdentifiedType DEF SignUp
    <3>. QED
      BY <2>2, <2>3, <3>1 DEF SignUp, TypeOK
  <2>4. CASE Recover(t)
    <3>1. /\ attempt'[t].email = attempt[t].email /\ attempt'[t].by = attempt[t].by
      BY <2>1, <2>4, IdentifiedType DEF Recover
    <3>. QED
      BY <2>4, <3>1 DEF Recover, provider
  <2>. QED
    BY <1>1, <2>3, <2>4
<1>2. CASE ~(SignUp(t) \/ Recover(t))
  <2>1. /\ At(t, "link") /\ attempt'[t].email = attempt[t].email
        /\ attempt'[t].by = attempt[t].by /\ attempt'[t].confirmed = attempt[t].confirmed
    <3>. DEFINE Same == /\ At(t, "link") /\ attempt'[t].email = attempt[t].email
                        /\ attempt'[t].by = attempt[t].by
                        /\ attempt'[t].confirmed = attempt[t].confirmed
    <3>1. CASE attempt'[t] = attempt[t]
      BY <3>1 DEF At
    <3>2. ASSUME NEW p \in People, NEW form \in Forms[p], Begin(t, p, form) PROVE FALSE
      BY <3>2 DEF Begin, Goto, At, TypeOK
    <3>3. ASSUME Finish(t) PROVE FALSE
      BY <3>3, RollBackType DEF At
    <3>4. ASSUME InsertUser(t) \/ InsertProfile(t) PROVE FALSE
      <4>1. attempt[t] \in Inserting /\ (Proceed(t, "profile") \/ Proceed(t, "provider"))
        BY <3>3, <3>4, AttemptShape DEF InsertUser, InsertProfile, At
      <4>2. attempt'[t].pc \in {"profile", "provider"}
        BY <4>1, ProceedType DEF Inserting
      <4>. QED
        BY <4>2 DEF At
    <3>5. CASE Disconnect(t)
      <4>1. attempt' = [attempt EXCEPT ![t] = [attempt[t] EXCEPT !.connected = FALSE]]
        BY <3>5 DEF Disconnect
      <4>2. attempt[t] \in Inserting \cup Linking
        BY <3>5, AttemptShape DEF Disconnect, At
      <4>3. attempt'[t] = [attempt[t] EXCEPT !.connected = FALSE]
        BY <4>1 DEF TypeOK
      <4>4. CASE attempt[t] \in Inserting
        BY <4>3, <4>4 DEF Inserting, At
      <4>5. CASE attempt[t] \in Linking
        BY <4>3, <4>5 DEF Linking, At
      <4>. QED
        BY <4>2, <4>4, <4>5
    <3>6. ASSUME Crash PROVE FALSE
      BY <3>6 DEF Crash, Idle, At
    <3>7. ASSUME NEW s \in Threads, s # t, attempt'[t] # attempt[t] PROVE
             /\ \A p \in People : \A form \in Forms[p] : ~Begin(s, p, form)
             /\ ~InsertUser(s) /\ ~InsertProfile(s) /\ ~Finish(s) /\ ~Disconnect(s)
             /\ ~SignUp(s) /\ ~Recover(s)
      BY <3>7
      DEF Begin, InsertUser, InsertProfile, Finish, Disconnect, SignUp, Recover,
          Identified, Goto, Proceed, TypeOK
    <3>8. ASSUME NEW s \in Threads,
                 \/ SignUpUnanswered(s) \/ RefuseIdentity(s) \/ Commit(s)
                 \/ CommitUnanswered(s) \/ FailCommit(s) \/ Fail(s)
          PROVE  Finish(s)
      BY <3>8 DEF SignUpUnanswered, RefuseIdentity, Commit, CommitUnanswered, FailCommit, Fail
    <3>9. CASE attempt'[t] # attempt[t]
      <4>1. (\E e \in Emails : Confirm(e)) \/ UNCHANGED vars => FALSE
        BY <3>9 DEF Confirm, vars
      <4>. QED
        BY <1>2, <3>2, <3>3, <3>4, <3>5, <3>6, <3>7, <3>8, <3>9, <4>1 DEF Next, Handle
    <3>. QED
      BY <3>1, <3>9
  <2>2. attempt[t].email \in Emails /\ attempt[t].by # Nobody
    BY <2>1, AttemptShape, NobodyAssumption DEF At
  <2>. QED
    BY <2>1, <2>2, IdentitiesStay DEF LinksAreProven
<1>. QED
  BY <1>1, <1>2

\* Every identity left without an account was logged, or could not be.
LEMMA OrphanStep == TypeOK /\ OrphansAreReported /\ [Next]_vars => OrphansAreReported'
<1>. SUFFICES ASSUME TypeOK, OrphansAreReported, [Next]_vars,
                     NEW e \in Emails, (owner[e] # Nobody)'
              PROVE  (\/ \E a \in accounts : a.email = e
                      \/ \E t \in Threads : At(t, "link") /\ attempt[t].email = e
                      \/ e \in reported \cup unseen)'
  BY DEF OrphansAreReported
<1>. DEFINE Covered == \/ \E a \in accounts : a.email = e
                       \/ \E t \in Threads : At(t, "link") /\ attempt[t].email = e
                       \/ e \in reported \cup unseen
<1>1. owner'[e] = owner[e] => Covered
  BY DEF OrphansAreReported
<1>2. accounts \subseteq accounts' /\ reported \subseteq reported' /\ unseen \subseteq unseen'
  BY DEF Next, Handle, Begin, InsertUser, InsertProfile, SignUp, SignUpUnanswered, Recover,
         RefuseIdentity, Store, Commit, CommitUnanswered, FailCommit, Fail, Disconnect, Confirm,
         Crash, vars, history
\* A thread that is not about to link, or links another address, disturbs nothing.
<1>3. ASSUME NEW t \in Threads, \A s \in Threads : s # t => attempt'[s] = attempt[s],
             owner'[e] = owner[e], At(t, "link") /\ attempt[t].email = e => Covered'
      PROVE  Covered'
  <2>1. CASE \E s \in Threads : At(s, "link") /\ attempt[s].email = e
    <3>1. PICK s \in Threads : At(s, "link") /\ attempt[s].email = e
      BY <2>1
    <3>2. s # t => At(s, "link")' /\ attempt'[s].email = e
      BY <1>3, <3>1 DEF At
    <3>. QED
      BY <1>3, <3>1, <3>2
  <2>. QED
    BY <1>1, <1>2, <1>3, <2>1
<1>4. ASSUME NEW t \in Threads, NEW p \in People, NEW form \in Forms[p], Begin(t, p, form)
      PROVE  Covered'
  BY <1>3, <1>4 DEF Begin, Goto, At, TypeOK, provider
<1>5. ASSUME NEW t \in Threads, InsertUser(t) \/ InsertProfile(t) PROVE Covered'
  <2>1. /\ ~At(t, "link") /\ owner' = owner
        /\ attempt[t] \in Inserting
        /\ Finish(t) \/ Proceed(t, "profile") \/ Proceed(t, "provider")
    BY <1>5, AttemptShape DEF InsertUser, InsertProfile, At, provider
  <2>2. \A s \in Threads : s # t => attempt'[s] = attempt[s]
    BY <2>1, RollBackType, ProceedType
  <2>. QED
    BY <1>3, <2>1, <2>2
<1>6. ASSUME NEW t \in Threads, SignUp(t) PROVE Covered'
  <2>1. attempt[t] \in Inserting /\ ~At(t, "link")
    BY <1>6, AttemptShape DEF SignUp, At
  <2>2. /\ At(t, "link")' /\ attempt'[t].email = attempt[t].email
        /\ \A s \in Threads : s # t => attempt'[s] = attempt[s]
    BY <1>6, <2>1, IdentifiedType DEF SignUp, At
  <2>3. CASE e = attempt[t].email
    BY <2>2, <2>3
  <2>4. CASE e # attempt[t].email
    <3>1. owner'[e] = owner[e]
      BY <1>6, <2>4 DEF SignUp, TypeOK
    <3>. QED
      BY <1>3, <2>1, <2>2, <3>1
  <2>. QED
    BY <2>3, <2>4
<1>7. ASSUME NEW t \in Threads, SignUpUnanswered(t) PROVE Covered'
  <2>1. ~At(t, "link") /\ Finish(t)
    BY <1>7 DEF SignUpUnanswered, At
  <2>2. CASE e = attempt[t].email
    BY <1>7, <2>2 DEF SignUpUnanswered
  <2>3. CASE e # attempt[t].email
    <3>1. owner'[e] = owner[e]
      BY <1>7, <2>3 DEF SignUpUnanswered, TypeOK
    <3>. QED
      BY <1>3, <2>1, <3>1, RollBackType
  <2>. QED
    BY <2>2, <2>3
<1>8. ASSUME NEW t \in Threads, Recover(t) PROVE Covered'
  <2>1. attempt[t] \in Inserting /\ ~At(t, "link") /\ owner' = owner
    BY <1>8, AttemptShape DEF Recover, At, provider
  <2>. QED
    BY <1>3, <1>8, <2>1, IdentifiedType DEF Recover
<1>9. ASSUME NEW t \in Threads, RefuseIdentity(t) \/ Fail(t) PROVE Covered'
  <2>1. ~At(t, "link") /\ Finish(t) /\ owner' = owner
    BY <1>9 DEF RefuseIdentity, Fail, At, provider
  <2>. QED
    BY <1>3, <2>1, RollBackType
<1>10. ASSUME NEW t \in Threads, Commit(t) \/ CommitUnanswered(t) PROVE Covered'
  <2>. DEFINE a == [email |-> attempt[t].email, document |-> attempt[t].document,
                    by |-> attempt[t].by, confirmed |-> attempt[t].confirmed]
  <2>1. Finish(t) /\ owner' = owner /\ a \in accounts' /\ a.email = attempt[t].email
    BY <1>10 DEF Commit, CommitUnanswered, Store, provider
  <2>. HIDE DEF a
  <2>. QED
    BY <1>3, <2>1, RollBackType
<1>11. ASSUME NEW t \in Threads, FailCommit(t) PROVE Covered'
  <2>1. Finish(t) /\ owner' = owner /\ attempt[t].email \in reported'
    BY <1>11 DEF FailCommit, provider
  <2>. QED
    BY <1>3, <2>1, RollBackType
<1>12. ASSUME NEW t \in Threads, Disconnect(t) PROVE Covered'
  <2>1. attempt' = [attempt EXCEPT ![t] = [attempt[t] EXCEPT !.connected = FALSE]]
    BY <1>12 DEF Disconnect
  <2>2. /\ owner' = owner
        /\ attempt'[t] = [attempt[t] EXCEPT !.connected = FALSE]
        /\ \A s \in Threads : s # t => attempt'[s] = attempt[s]
    BY <1>12, <2>1 DEF Disconnect, TypeOK, provider
  <2>3. At(t, "link") => At(t, "link")' /\ attempt'[t].email = attempt[t].email
    BY <2>2, AttemptShape DEF At, Linking
  <2>. QED
    BY <1>3, <2>2, <2>3
<1>13. ASSUME NEW f \in Emails, Confirm(f) PROVE Covered'
  BY <1>1, <1>13 DEF Confirm, At, history
<1>14. ASSUME Crash PROVE Covered'
  <2>1. owner' = owner /\ \A t \in Threads : At(t, "link") => attempt[t].email \in unseen'
    BY <1>14 DEF Crash, provider
  <2>. QED
    BY <1>1, <1>2, <2>1
<1>15. ASSUME UNCHANGED vars PROVE Covered'
  BY <1>1, <1>15 DEF vars, At, provider, history
<1>. QED
  BY <1>4, <1>5, <1>6, <1>7, <1>8, <1>9, <1>10, <1>11, <1>12, <1>13, <1>14, <1>15
  DEF Next, Handle

THEOREM OrphansReported == Spec => []OrphansAreReported
<1>. QED
  BY InitialInv, TypeStep, OrphanStep, PTL DEF Spec

-------------------------------------------------------------------------------
\* The promise.

\* Every step opens an account, creates an identity, confirms an address, or stutters.
LEMMA PromiseStep ==
    ASSUME TypeOK, NoLateConflict, LinksAreProven, [Next]_vars
    PROVE  [Promise!PNext]_(Promise!promise)
<1>. USE DEF Promise!promise
<1>1. ASSUME NEW t \in Threads, SignUp(t) \/ SignUpUnanswered(t) PROVE Promise!PNext
  <2>1. attempt[t].email \in Emails /\ attempt[t].by \in People
    BY <1>1, AttemptShape DEF SignUp, SignUpUnanswered, At
  <2>2. Promise!Identify(attempt[t].email)
    BY <1>1, <2>1 DEF SignUp, SignUpUnanswered, Promise!Identify
  <2>. QED
    BY <2>1, <2>2 DEF Promise!PNext
<1>2. ASSUME NEW t \in Threads, Commit(t) \/ CommitUnanswered(t) PROVE Promise!PNext
  <2>. DEFINE q == attempt[t]
              a == [email |-> q.email, document |-> q.document, by |-> q.by,
                    confirmed |-> q.confirmed]
  <2>1. /\ Store(t) /\ Finish(t) /\ At(t, "link")
        /\ accounts' = accounts \cup {a} /\ UNCHANGED <<owner, confirmed>>
    BY <1>2 DEF Commit, CommitUnanswered, Store, provider
  <2>2. q.email \in Emails /\ q.by \in People
    BY <2>1, AttemptShape DEF At
  <2>3. a.email = q.email /\ a.by = q.by /\ a.document = q.document /\ a.confirmed = q.confirmed
    OBVIOUS
  <2>4. a.by = owner[q.email] /\ a.by # Nobody /\ (a.confirmed => q.email \in confirmed)
    BY <2>1, <2>2, <2>3, NobodyAssumption DEF LinksAreProven
  <2>5. \A b \in accounts : b.email # q.email /\ b.document # a.document
    BY <2>1, <2>3, StoreConflicts
  <2>. HIDE DEF a
  <2>6. Promise!Open(q.email)
    BY <2>1, <2>3, <2>4, <2>5 DEF Promise!Open
  <2>. QED
    BY <2>2, <2>6 DEF Promise!PNext
<1>3. ASSUME NEW e \in Emails, Confirm(e) PROVE Promise!PNext
  BY <1>3 DEF Confirm, Promise!ConfirmAddress, Promise!PNext
<1>. QED
  BY <1>1, <1>2, <1>3
  DEF Next, Handle, Begin, InsertUser, InsertProfile, Recover, RefuseIdentity, FailCommit, Fail,
      Disconnect, Crash, vars, provider

\* Registration keeps its promise: whatever fails and whoever registers at the same
\* time, an account opens once per address and document, for the identity's owner.
THEOREM ImplementsPromise == Spec => KeepsPromise
<1>1. Init => Promise!PInit
  BY DEF Init, Promise!PInit
<1>. QED
  BY <1>1, InitialInv, TypeStep, ConflictStep, LinkStep, PromiseStep, PTL
  DEF Spec, KeepsPromise, Promise!PSpec
===============================================================================
