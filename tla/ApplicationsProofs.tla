-------------------------- MODULE ApplicationsProofs --------------------------
(***************************************************************************)
(* Proofs about Applications, for any number of companies, candidates,     *)
(* jobs, requests and rounds.                                              *)
(***************************************************************************)
EXTENDS Applications, SequenceTheorems, TLAPS

LEMMA InitialType == Init => TypeOK
  BY OwnerAssumption, LastDayAssumption
     DEF Init, TypeOK, NoApplication, Records, RequestStates, RoundStates, JobStatuses, Days

\* The shape of a request follows from its operation.
LEMMA RequestShape ==
    ASSUME NEW q \in RequestStates
    PROVE  /\ q.op = "submit" => q \in SubmitStates
           /\ q.op = "withdraw" => q \in WithdrawStates
           /\ q.op = "update" => q \in UpdateStates
           /\ q.op = "job" => q \in JobStates
           /\ q.op = "account" => q \in AccountStates
           /\ q.op = "publish" => q \in PublishStates
  BY DEF RequestStates, Idle, SubmitStates, WithdrawStates, UpdateStates, JobStates,
         AccountStates, PublishStates

\* Ending a transaction leaves the request and the locks well typed.
LEMMA FinishType ==
    ASSUME TypeOK, NEW r \in Requests, Finish(r)
    PROVE  /\ request' \in [Requests -> RequestStates]
           /\ lock' \in [Rows -> Requests \cup {None}]
  BY DEF TypeOK, Finish, RequestStates

LEMMA AcquireType ==
    ASSUME TypeOK, NEW r \in Requests, NEW x \in Rows, Acquire(r, x)
    PROVE  lock' \in [Rows -> Requests \cup {None}]
  BY DEF TypeOK, Acquire

LEMMA BeginType ==
    ASSUME TypeOK, NEW r \in Requests, NEW op, NEW caller, NEW state \in RequestStates,
           Begin(r, op, caller, state)
    PROVE  TypeOK'
  BY DEF TypeOK, Begin, data

\* A request about to begin is well typed when its inputs are.
LEMMA ArriveType ==
    ASSUME TypeOK, NEW r \in Requests, Arrive(r)
    PROVE  TypeOK'
<1>1. CASE BeginSubmit(r)
  BY <1>1, BeginType DEF BeginSubmit, TypeOK, RequestStates, SubmitStates
<1>2. CASE BeginWithdraw(r)
  BY <1>2, BeginType DEF BeginWithdraw, RequestStates, WithdrawStates
<1>3. CASE BeginUpdate(r)
  BY <1>3, BeginType DEF BeginUpdate, RequestStates, UpdateStates
<1>4. CASE BeginJobStatus(r)
  BY <1>4, BeginType DEF BeginJobStatus, TypeOK, RequestStates, JobStates
<1>5. CASE LockAccount(r)
  <2>1. PICK u \in Users, want \in {"active", "blocked"} :
           /\ Acquire(r, u)
           /\ request' = [request EXCEPT ![r] = [op |-> "account", pc |-> "write",
                                                who |-> u, want |-> want]]
           /\ UNCHANGED <<data, round>>
    BY <1>5 DEF LockAccount
  <2>2. lock' \in [Rows -> Requests \cup {None}]
    BY <2>1, AcquireType DEF Rows
  <2>3. request' \in [Requests -> RequestStates]
    BY <2>1 DEF TypeOK, RequestStates, AccountStates
  <2>. QED
    BY <2>1, <2>2, <2>3 DEF TypeOK, data
<1>6. CASE BeginPublish(r)
  BY <1>6, BeginType, OwnerAssumption DEF BeginPublish, RequestStates, PublishStates
<1>. QED
  BY <1>1, <1>2, <1>3, <1>4, <1>5, <1>6 DEF Arrive

LEMMA RefuseType ==
    ASSUME TypeOK, NEW r \in Requests, Refuse(r)
    PROVE  TypeOK'
  BY FinishType DEF TypeOK, Refuse, data

\* A request that takes a lock and moves on to a known point stays well typed.
LEMMA LockAndProceedType ==
    ASSUME TypeOK, NEW r \in Requests, NEW x \in Rows, NEW pc,
           [request[r] EXCEPT !.pc = pc] \in RequestStates,
           Acquire(r, x), Proceed(r, pc), UNCHANGED <<data, round>>
    PROVE  TypeOK'
<1>1. lock' \in [Rows -> Requests \cup {None}]
  BY AcquireType
<1>2. request' \in [Requests -> RequestStates]
  BY DEF Proceed, TypeOK
<1>. QED
  BY <1>1, <1>2 DEF TypeOK, data

LEMMA NewApplicationType ==
    ASSUME NEW type \in {"active", "automatic"}
    PROVE  NewApplication(type) \in Records
  BY DEF NewApplication, Active, Records

LEMMA WrittenType ==
    ASSUME NEW a \in Records, NEW want \in CompanyStatuses, NEW why \in BOOLEAN
    PROVE  Withdrawn(a) \in Records /\ Decided(a, want, why) \in Records
<1>1. want \in Active \cup Terminal /\ "withdrawn" \in Terminal
  BY DEF CompanyStatuses, Active, Terminal
<1>2. /\ (a.closed \/ want \in {"hired", "not_selected"}) \in BOOLEAN
      /\ (a.reason \/ (want = "not_selected" /\ why)) \in BOOLEAN
  OBVIOUS
<1>. QED
  BY <1>1, <1>2 DEF Withdrawn, Decided, Records

LEMMA StepType ==
    ASSUME TypeOK, NEW r \in Requests, Step(r)
    PROVE  TypeOK'
<1>. DEFINE q == request[r]
<1>q. q \in RequestStates
  BY DEF TypeOK
<1>. USE DEF At
<1>1. CASE ReadJob(r)
  <2>1. q \in SubmitStates
    BY <1>1, <1>q, RequestShape DEF ReadJob
  <2>2. ASSUME request' = [request EXCEPT ![r].pc = "company",
                                          ![r].open = Open(job[q.job], q.day)],
               UNCHANGED <<data, lock, round>>
        PROVE  TypeOK'
    <3>1. [q EXCEPT !.pc = "company", !.open = Open(job[q.job], q.day)] \in RequestStates
      <4>1. Open(job[q.job], q.day) \in BOOLEAN
        BY DEF Open
      <4>. QED
        BY <2>1, <4>1 DEF RequestStates, SubmitStates
    <3>2. request' \in [Requests -> RequestStates]
      BY <2>2, <3>1 DEF TypeOK
    <3>. QED
      BY <2>2, <3>2 DEF TypeOK, data
  <2>. QED
    BY <1>1, <2>2, RefuseType DEF ReadJob
<1>2. CASE LockCompany(r)
  <2>1. q \in SubmitStates
    BY <1>2, <1>q, RequestShape DEF LockCompany
  <2>2. Owner[q.job] \in Rows
    BY <2>1, OwnerAssumption DEF SubmitStates, Rows, Users
  <2>3. [q EXCEPT !.pc = "insert"] \in RequestStates
    BY <2>1 DEF RequestStates, SubmitStates
  <2>. QED
    BY <1>2, <2>2, <2>3, LockAndProceedType, RefuseType DEF LockCompany
<1>3. CASE InsertApplication(r)
  <2>1. q \in SubmitStates
    BY <1>3, <1>q, RequestShape DEF InsertApplication
  <2>. DEFINE p == <<q.who, q.job>>
  <2>2. p \in Pairs
    BY <2>1 DEF SubmitStates, Pairs
  <2>3. ASSUME application' = [application EXCEPT ![p] = NewApplication("active")],
               told' = [told EXCEPT ![p] = Append(@, "received")],
               Finish(r),
               UNCHANGED <<job, account, willing, today, pending, round>>
        PROVE  TypeOK'
    <3>1. told' \in [Pairs -> Seq({"received"} \cup CompanyStatuses)]
      BY <2>2, <2>3 DEF TypeOK
    <3>. QED
      BY <2>2, <2>3, <3>1, FinishType, NewApplicationType DEF TypeOK
  <2>. QED
    BY <1>3, <2>3, RefuseType DEF InsertApplication
<1>4. CASE LockWithdrawal(r)
  <2>1. q \in WithdrawStates
    BY <1>4, <1>q, RequestShape DEF LockWithdrawal
  <2>2. q.of \in Rows /\ [q EXCEPT !.pc = "write"] \in RequestStates
    BY <2>1 DEF WithdrawStates, RequestStates, Rows
  <2>. QED
    BY <1>4, <2>2, LockAndProceedType, RefuseType DEF LockWithdrawal
<1>5. CASE WriteWithdrawal(r)
  <2>1. q \in WithdrawStates
    BY <1>5, <1>q, RequestShape DEF WriteWithdrawal
  <2>. QED
    BY <1>5, <2>1, FinishType, WrittenType
       DEF WriteWithdrawal, WithdrawStates, TypeOK, CompanyStatuses
<1>6. CASE LockApplication(r)
  <2>1. q \in UpdateStates
    BY <1>6, <1>q, RequestShape DEF LockApplication
  <2>2. q.of \in Rows /\ [q EXCEPT !.pc = "job"] \in RequestStates
    BY <2>1 DEF UpdateStates, RequestStates, Rows
  <2>. QED
    BY <1>6, <2>2, LockAndProceedType, RefuseType DEF LockApplication
<1>7. CASE LockItsJob(r)
  <2>1. q \in UpdateStates
    BY <1>7, <1>q, RequestShape DEF LockItsJob
  <2>2. q.of[2] \in Rows /\ [q EXCEPT !.pc = "write"] \in RequestStates
    BY <2>1 DEF UpdateStates, RequestStates, Rows, Pairs
  <2>. QED
    BY <1>7, <2>2, LockAndProceedType, RefuseType DEF LockItsJob
<1>8. CASE WriteUpdate(r)
  <2>1. q \in UpdateStates
    BY <1>8, <1>q, RequestShape DEF WriteUpdate
  <2>2. told' \in [Pairs -> Seq({"received"} \cup CompanyStatuses)]
    BY <1>8, <2>1 DEF WriteUpdate, UpdateStates, TypeOK
  <2>3. application' \in [Pairs -> Records]
    BY <1>8, <2>1, WrittenType DEF WriteUpdate, UpdateStates, TypeOK
  <2>. QED
    BY <1>8, <2>2, <2>3, FinishType DEF WriteUpdate, TypeOK
<1>9. CASE LockJob(r)
  <2>1. q \in JobStates
    BY <1>9, <1>q, RequestShape DEF LockJob
  <2>2. q.job \in Rows /\ [q EXCEPT !.pc = "write"] \in RequestStates
    BY <2>1 DEF JobStates, RequestStates, Rows
  <2>. QED
    BY <1>9, <2>2, LockAndProceedType, RefuseType DEF LockJob
<1>10. CASE WriteJob(r)
  <2>1. q \in JobStates
    BY <1>10, <1>q, RequestShape DEF WriteJob
  <2>2. ClosingDate(q) \in Days
    BY <2>1 DEF JobStates, ClosingDate, TypeOK
  <2>. QED
    BY <1>10, <2>1, <2>2, FinishType DEF WriteJob, JobStates, TypeOK, JobStatuses
<1>11. CASE WriteAccount(r)
  <2>1. q \in AccountStates
    BY <1>11, <1>q, RequestShape DEF WriteAccount
  <2>. QED
    BY <1>11, <2>1, FinishType DEF WriteAccount, AccountStates, TypeOK
<1>12. CASE PublishJob(r)
  <2>1. q \in PublishStates
    BY <1>12, <1>q, RequestShape DEF PublishJob
  <2>2. ASSUME job' = [job EXCEPT ![q.job] = [status |-> "published",
                                              closing |-> q.closing]],
               pending' = pending \cup {q.job}, Finish(r),
               UNCHANGED <<application, told, account, willing, today, round>>
        PROVE  TypeOK'
    BY <2>1, <2>2, FinishType DEF PublishStates, TypeOK, JobStatuses
  <2>. QED
    BY <1>12, <2>2, RefuseType DEF PublishJob
<1>. QED
  BY <1>1, <1>2, <1>3, <1>4, <1>5, <1>6, <1>7, <1>8, <1>9, <1>10, <1>11, <1>12 DEF Step

LEMMA ContinueType ==
    ASSUME TypeOK, NEW w \in Rounds, NEW left \in SUBSET Jobs, Continue(w, left)
    PROVE  round' \in [Rounds -> RoundStates]
  BY DEF TypeOK, Continue, RoundStates

LEMMA RoundShape ==
    ASSUME NEW s \in RoundStates
    PROVE  /\ s.pc = "select" => s \in [pc : {"select"}, left : SUBSET Jobs]
           /\ s.pc = "insert" => s \in [pc : {"insert"}, left : SUBSET Jobs, job : Jobs,
                                        rows : SUBSET Candidates]
  BY DEF RoundStates, Resting, Stopped

LEMMA RoundType ==
    ASSUME TypeOK, NEW w \in Rounds,
           StartRound(w) \/ StartTask(w) \/ Advance(w) \/ FailRound(w)
    PROVE  TypeOK'
<1>s. round[w] \in RoundStates
  BY DEF TypeOK
<1>1. CASE StartRound(w)
  BY <1>1, ContinueType DEF StartRound, TypeOK, data
<1>2. CASE StartTask(w)
  <2>1. PICK j \in pending : Continue(w, {i \in {j} : Accepting(i, today)})
                             /\ pending' = pending \ {j}
    BY <1>2 DEF StartTask
  <2>2. {i \in {j} : Accepting(i, today)} \in SUBSET Jobs
    BY <2>1 DEF TypeOK
  <2>. QED
    BY <1>2, <2>1, <2>2, ContinueType DEF StartTask, TypeOK
<1>3. CASE SelectCandidates(w)
  <2>1. round[w] \in [pc : {"select"}, left : SUBSET Jobs]
    BY <1>3, <1>s, RoundShape DEF SelectCandidates
  <2>2. PICK j \in round[w].left :
           LET left == round[w].left \ {j}
               rows == {c \in Candidates : Eligible(c, j)}
           IN IF rows = {} THEN Continue(w, left)
              ELSE round' = [round EXCEPT ![w] = [pc |-> "insert", left |-> left,
                                                  job |-> j, rows |-> rows]]
    BY <1>3 DEF SelectCandidates
  <2>. DEFINE left == round[w].left \ {j}
              rows == {c \in Candidates : Eligible(c, j)}
  <2>3. left \in SUBSET Jobs /\ rows \in SUBSET Candidates /\ j \in Jobs
    BY <2>1, <2>2
  <2>4. round' \in [Rounds -> RoundStates]
    <3>1. CASE rows = {}
      BY <2>2, <2>3, <3>1, ContinueType
    <3>2. CASE rows # {}
      <4>. HIDE DEF left, rows
      <4>1. [pc |-> "insert", left |-> left, job |-> j, rows |-> rows] \in RoundStates
        BY <2>3 DEF RoundStates
      <4>2. round' = [round EXCEPT ![w] = [pc |-> "insert", left |-> left,
                                          job |-> j, rows |-> rows]]
        BY <2>2, <3>2 DEF left, rows
      <4>. QED
        BY <4>1, <4>2 DEF TypeOK
    <3>. QED
      BY <3>1, <3>2
  <2>. QED
    BY <1>3, <2>4 DEF SelectCandidates, TypeOK, data
<1>4. CASE InsertRows(w)
  <2>1. round[w] \in [pc : {"insert"}, left : SUBSET Jobs, job : Jobs,
                      rows : SUBSET Candidates]
    BY <1>4, <1>s, RoundShape DEF InsertRows
  <2>2. round' \in [Rounds -> RoundStates]
    BY <1>4, <2>1, ContinueType DEF InsertRows
  <2>3. application' \in [Pairs -> Records]
    BY <1>4, NewApplicationType DEF InsertRows, TypeOK
  <2>. QED
    BY <1>4, <2>2, <2>3 DEF InsertRows, TypeOK
<1>5. CASE FailRound(w)
  BY <1>5 DEF FailRound, TypeOK, data, RoundStates, Stopped
<1>. QED
  BY <1>1, <1>2, <1>3, <1>4, <1>5 DEF Advance

LEMMA EnvironmentType ==
    ASSUME TypeOK, ChangePreference \/ Crash \/ NextDay
    PROVE  TypeOK'
<1>1. CASE ChangePreference
  BY <1>1 DEF ChangePreference, TypeOK
<1>2. CASE Crash
  BY <1>2 DEF Crash, TypeOK, RequestStates, RoundStates, Stopped
<1>3. CASE NextDay
  BY <1>3, LastDayAssumption DEF NextDay, TypeOK, Days
<1>. QED
  BY <1>1, <1>2, <1>3

LEMMA NextType == TypeOK /\ [Next]_vars => TypeOK'
<1>. SUFFICES ASSUME TypeOK, [Next]_vars PROVE TypeOK'
  OBVIOUS
<1>1. CASE UNCHANGED vars
  BY <1>1 DEF vars, data, TypeOK
<1>2. ASSUME NEW r \in Requests, Arrive(r) \/ Step(r) \/ Abort(r) PROVE TypeOK'
  BY <1>2, ArriveType, StepType, RefuseType DEF Abort
<1>3. ASSUME NEW w \in Rounds,
             StartRound(w) \/ StartTask(w) \/ Advance(w) \/ FailRound(w)
      PROVE  TypeOK'
  BY <1>3, RoundType
<1>. QED
  BY <1>1, <1>2, <1>3, EnvironmentType DEF Next

\* Every variable keeps its type, whatever requests and rounds do.
THEOREM TypeCorrect == Spec => []TypeOK
  BY InitialType, NextType, PTL DEF Spec

-------------------------------------------------------------------------------
\* What other requests do cannot disturb what a request has locked: this is the
\* heart of the argument, and holds because a writer holds the lock of its row.

Undisturbed(r) ==
    /\ \A x \in Rows : lock[x] = r => lock'[x] = r
    /\ \A p \in Pairs : lock[p] = r /\ application[p] # NoApplication
                           => application'[p] = application[p]
    /\ \A u \in Users : lock[u] = r => account'[u] = account[u]
    /\ \A j \in Jobs : lock[j] = r /\ job[j].status # "absent" => job'[j] = job[j]

\* The locks another request takes or frees are not those of r.
LEMMA OthersLocks ==
    ASSUME TypeOK, NEW r \in Requests, NEW s \in Requests, s # r,
           Finish(s) \/ (\E x \in Rows : Acquire(s, x)) \/ UNCHANGED lock
    PROVE  \A x \in Rows : lock[x] = r => lock'[x] = r
<1>1. CASE Finish(s)
  BY <1>1 DEF Finish
<1>2. CASE \E x \in Rows : Acquire(s, x)
  BY <1>2, NobodyAssumption DEF Acquire, Free, TypeOK
<1>. QED
  BY <1>1, <1>2

LEMMA RefuseUndisturbed ==
    ASSUME TypeOK, NEW r \in Requests, NEW s \in Requests, s # r, Refuse(s)
    PROVE  Undisturbed(r)
  BY OthersLocks DEF Refuse, Undisturbed, data

LEMMA AcquireUndisturbed ==
    ASSUME TypeOK, NEW r \in Requests, NEW s \in Requests, s # r, NEW x \in Rows,
           Acquire(s, x), UNCHANGED data
    PROVE  Undisturbed(r)
  BY OthersLocks DEF Undisturbed, data

LEMMA OthersStep ==
    ASSUME TypeOK, LockedReadsHold, NEW r \in Requests, NEW s \in Requests, s # r,
           Arrive(s) \/ Step(s) \/ Abort(s)
    PROVE  Undisturbed(r)
<1>. DEFINE q == request[s]
<1>q. q \in RequestStates /\ ReadsHold(s)
  BY DEF TypeOK, LockedReadsHold
<1>. USE DEF At
<1>1. CASE \/ BeginSubmit(s) \/ BeginWithdraw(s) \/ BeginUpdate(s) \/ BeginPublish(s)
           \/ BeginJobStatus(s)
  <2>1. UNCHANGED <<data, lock>>
    BY <1>1 DEF BeginSubmit, BeginWithdraw, BeginUpdate, BeginPublish, BeginJobStatus,
                Begin
  <2>. QED
    BY <2>1 DEF Undisturbed, data
<1>2. CASE LockAccount(s)
  <2>1. PICK u \in Users : Acquire(s, u) /\ UNCHANGED data
    BY <1>2 DEF LockAccount
  <2>. QED
    BY <2>1, AcquireUndisturbed DEF Rows
<1>3. CASE Abort(s)
  BY <1>3, RefuseUndisturbed DEF Abort
<1>4. CASE ReadJob(s)
  BY <1>4, RefuseUndisturbed DEF ReadJob, Undisturbed, data
<1>5. CASE LockCompany(s)
  <2>1. Owner[q.job] \in Rows
    BY <1>5, <1>q, RequestShape, OwnerAssumption DEF LockCompany, SubmitStates, Rows, Users
  <2>. QED
    BY <1>5, <2>1, RefuseUndisturbed, AcquireUndisturbed DEF LockCompany
<1>6. CASE InsertApplication(s)
  <2>1. q \in SubmitStates
    BY <1>6, <1>q, RequestShape DEF InsertApplication
  <2>. QED
    BY <1>6, <2>1, RefuseUndisturbed, OthersLocks
       DEF InsertApplication, Undisturbed, SubmitStates, Pairs, TypeOK
<1>7. CASE LockWithdrawal(s)
  <2>1. q.of \in Rows
    BY <1>7, <1>q, RequestShape DEF LockWithdrawal, WithdrawStates, Rows
  <2>. QED
    BY <1>7, <2>1, RefuseUndisturbed, AcquireUndisturbed DEF LockWithdrawal
<1>8. CASE WriteWithdrawal(s)
  <2>1. lock[q.of] = s
    BY <1>8, <1>q DEF WriteWithdrawal, ReadsHold
  <2>. QED
    BY <1>8, <2>1, OthersLocks DEF WriteWithdrawal, Undisturbed, TypeOK
<1>9. CASE LockApplication(s)
  <2>1. q.of \in Rows
    BY <1>9, <1>q, RequestShape DEF LockApplication, UpdateStates, Rows
  <2>. QED
    BY <1>9, <2>1, RefuseUndisturbed, AcquireUndisturbed DEF LockApplication
<1>10. CASE LockItsJob(s)
  <2>1. q.of[2] \in Rows
    BY <1>10, <1>q, RequestShape DEF LockItsJob, UpdateStates, Rows, Pairs
  <2>. QED
    BY <1>10, <2>1, RefuseUndisturbed, AcquireUndisturbed DEF LockItsJob
<1>11. CASE WriteUpdate(s)
  <2>1. lock[q.of] = s
    BY <1>11, <1>q DEF WriteUpdate, ReadsHold
  <2>. QED
    BY <1>11, <2>1, OthersLocks DEF WriteUpdate, Undisturbed, TypeOK
<1>12. CASE LockJob(s)
  <2>1. q.job \in Rows
    BY <1>12, <1>q, RequestShape DEF LockJob, JobStates, Rows
  <2>. QED
    BY <1>12, <2>1, RefuseUndisturbed, AcquireUndisturbed DEF LockJob
<1>13. CASE WriteJob(s)
  <2>1. lock[q.job] = s
    BY <1>13, <1>q DEF WriteJob, ReadsHold
  <2>. QED
    BY <1>13, <2>1, OthersLocks DEF WriteJob, Undisturbed, TypeOK
<1>14. CASE WriteAccount(s)
  <2>1. lock[q.who] = s
    BY <1>14, <1>q DEF WriteAccount, ReadsHold
  <2>. QED
    BY <1>14, <2>1, OthersLocks DEF WriteAccount, Undisturbed, TypeOK
<1>15. CASE PublishJob(s)
  <2>1. CASE Refuse(s)
    BY <2>1, RefuseUndisturbed
  <2>2. CASE /\ job[q.job].status = "absent" /\ Finish(s)
             /\ job' = [job EXCEPT ![q.job] = [status |-> "published", closing |-> q.closing]]
             /\ UNCHANGED <<application, account>>
    BY <2>2, OthersLocks DEF Undisturbed, TypeOK
  <2>. QED
    BY <1>15, <2>1, <2>2 DEF PublishJob
<1>. QED
  BY <1>1, <1>2, <1>3, <1>4, <1>5, <1>6, <1>7, <1>8, <1>9, <1>10, <1>11, <1>12,
     <1>13, <1>14, <1>15 DEF Arrive, Step

\* Rounds only insert, and a crash takes the requests along with their locks.
LEMMA RoundsUndisturbed ==
    ASSUME TypeOK, NEW r \in Requests, NEW w \in Rounds,
           StartRound(w) \/ StartTask(w) \/ Advance(w) \/ FailRound(w)
    PROVE  Undisturbed(r) /\ UNCHANGED request
<1>1. CASE InsertRows(w)
  BY <1>1 DEF InsertRows, Undisturbed, TypeOK
<1>. QED
  BY <1>1 DEF StartRound, StartTask, Advance, SelectCandidates, FailRound, Undisturbed, data

LEMMA EnvironmentUndisturbed ==
    ASSUME TypeOK, NEW r \in Requests, ChangePreference \/ NextDay
    PROVE  Undisturbed(r) /\ UNCHANGED request
  BY DEF ChangePreference, NextDay, Undisturbed, TypeOK

\* An undisturbed request that did not move keeps what it read.
LEMMA UndisturbedReadsHold ==
    ASSUME TypeOK, NEW r \in Requests, ReadsHold(r), Undisturbed(r),
           request'[r] = request[r]
    PROVE  ReadsHold(r)'
<1>. DEFINE q == request[r]
<1>q. q \in RequestStates
  BY DEF TypeOK
<1>. USE DEF At
<1>1. CASE q.op = "submit"
  <2>1. Owner[q.job] \in Users
    BY <1>1, <1>q, RequestShape, OwnerAssumption DEF SubmitStates, Users
  <2>. QED
    BY <1>1, <2>1 DEF ReadsHold, Undisturbed, Rows
<1>2. CASE q.op = "withdraw"
  <2>1. q.of \in Pairs
    BY <1>2, <1>q, RequestShape DEF WithdrawStates
  <2>. QED
    BY <1>2, <2>1 DEF ReadsHold, Undisturbed, Rows, NoApplication, Active
<1>3. CASE q.op = "update"
  <2>1. q.of \in Pairs /\ q.of[2] \in Jobs /\ q.want \in CompanyStatuses
    BY <1>3, <1>q, RequestShape DEF UpdateStates, Pairs
  <2>2. \A a : a = NoApplication => q.want \notin AllowedFrom(a.status)
    BY DEF NoApplication, AllowedFrom
  <2>. QED
    BY <1>3, <2>1, <2>2 DEF ReadsHold, Undisturbed, Rows
<1>4. CASE q.op = "job"
  <2>1. q.job \in Jobs
    BY <1>4, <1>q, RequestShape DEF JobStates
  <2>2. At(r, "job", "write") => job[q.job].status # "absent"
    BY <1>4 DEF ReadsHold, MayClose, MayReopen, Closable, Reopenable
  <2>. QED
    BY <1>4, <2>1, <2>2 DEF ReadsHold, Undisturbed, Rows, ClosingDate
<1>5. CASE q.op = "account"
  <2>1. q.who \in Users
    BY <1>5, <1>q, RequestShape DEF AccountStates
  <2>. QED
    BY <1>5, <2>1 DEF ReadsHold, Undisturbed, Rows
<1>6. CASE q.op \in {"idle", "publish"}
  BY <1>6 DEF ReadsHold
<1>. QED
  BY <1>q, <1>1, <1>2, <1>3, <1>4, <1>5, <1>6
     DEF RequestStates, Idle, SubmitStates, WithdrawStates, UpdateStates, JobStates,
         AccountStates, PublishStates

LEMMA IdleReadsHold ==
    ASSUME NEW r, request'[r] = Idle
    PROVE  ReadsHold(r)'
  BY DEF ReadsHold, At, Idle

LEMMA FinishedReadsHold ==
    ASSUME TypeOK, NEW r \in Requests, Finish(r)
    PROVE  ReadsHold(r)'
  BY IdleReadsHold DEF Finish, TypeOK

\* What the acting request has just checked holds in the state it leads to.
LEMMA ActorReadsHold ==
    ASSUME TypeOK, NEW r \in Requests, ReadsHold(r), Arrive(r) \/ Step(r) \/ Abort(r)
    PROVE  ReadsHold(r)'
<1>. DEFINE q == request[r]
<1>q. q \in RequestStates
  BY DEF TypeOK
<1>. USE DEF At
<1>1. CASE BeginSubmit(r) \/ BeginWithdraw(r) \/ BeginPublish(r)
  BY <1>1 DEF BeginSubmit, BeginWithdraw, BeginPublish, Begin, ReadsHold, TypeOK
<1>2. CASE BeginUpdate(r)
  BY <1>2 DEF BeginUpdate, Begin, ReadsHold, TypeOK
<1>3. CASE BeginJobStatus(r)
  BY <1>3 DEF BeginJobStatus, Begin, ReadsHold, TypeOK
<1>4. CASE LockAccount(r)
  <2>1. PICK u \in Users, want \in {"active", "blocked"} :
           /\ account[u] # want
           /\ Acquire(r, u)
           /\ request' = [request EXCEPT ![r] = [op |-> "account", pc |-> "write",
                                                who |-> u, want |-> want]]
           /\ UNCHANGED data
    BY <1>4 DEF LockAccount
  <2>2. lock'[u] = r /\ account' = account
    BY <2>1 DEF Acquire, TypeOK, Rows, data
  <2>. QED
    BY <2>1, <2>2 DEF ReadsHold, TypeOK
<1>5. CASE ReadJob(r)
  <2>1. q \in SubmitStates
    BY <1>5, <1>q, RequestShape DEF ReadJob
  <2>. QED
    BY <1>5, <2>1, FinishedReadsHold DEF ReadJob, Refuse, ReadsHold, TypeOK, SubmitStates
<1>6. CASE LockCompany(r)
  <2>1. q \in SubmitStates /\ Owner[q.job] \in Rows
    BY <1>6, <1>q, RequestShape, OwnerAssumption DEF LockCompany, SubmitStates, Rows, Users
  <2>2. CASE Refuse(r)
    BY <2>2, FinishedReadsHold DEF Refuse
  <2>3. CASE /\ account[Owner[q.job]] # "blocked"
             /\ Acquire(r, Owner[q.job])
             /\ Proceed(r, "insert")
             /\ UNCHANGED data
    BY <2>1, <2>3 DEF SubmitStates, Acquire, Proceed, ReadsHold, TypeOK, data
  <2>. QED
    BY <1>6, <2>2, <2>3 DEF LockCompany
<1>7. CASE \/ InsertApplication(r) \/ WriteWithdrawal(r) \/ WriteUpdate(r)
           \/ PublishJob(r) \/ WriteJob(r) \/ WriteAccount(r) \/ Abort(r)
  BY <1>7, FinishedReadsHold DEF InsertApplication, WriteWithdrawal, WriteUpdate,
                                 PublishJob, WriteJob, WriteAccount, Abort, Refuse
<1>8. CASE LockWithdrawal(r)
  <2>1. q \in WithdrawStates /\ q.of \in Rows
    BY <1>8, <1>q, RequestShape DEF LockWithdrawal, WithdrawStates, Rows
  <2>2. CASE Refuse(r)
    BY <2>2, FinishedReadsHold DEF Refuse
  <2>3. CASE /\ q.of[1] = q.who
             /\ application[q.of].status \in Active
             /\ Acquire(r, q.of)
             /\ Proceed(r, "write")
             /\ UNCHANGED data
    BY <2>1, <2>3 DEF WithdrawStates, Acquire, Proceed, ReadsHold, TypeOK, data
  <2>. QED
    BY <1>8, <2>2, <2>3 DEF LockWithdrawal
<1>9. CASE LockApplication(r)
  <2>1. q \in UpdateStates /\ q.of \in Rows
    BY <1>9, <1>q, RequestShape DEF LockApplication, UpdateStates, Rows
  <2>2. CASE Refuse(r)
    BY <2>2, FinishedReadsHold DEF Refuse
  <2>3. CASE /\ application[q.of] # NoApplication /\ Owner[q.of[2]] = q.who
             /\ Acquire(r, q.of)
             /\ Proceed(r, "job")
             /\ UNCHANGED data
    BY <2>1, <2>3 DEF UpdateStates, Acquire, Proceed, ReadsHold, TypeOK, data
  <2>. QED
    BY <1>9, <2>2, <2>3 DEF LockApplication
<1>10. CASE LockItsJob(r)
  <2>1. q \in UpdateStates /\ q.of \in Rows /\ q.of[2] \in Rows
    BY <1>10, <1>q, RequestShape DEF LockItsJob, UpdateStates, Rows, Pairs
  <2>2. CASE Refuse(r)
    BY <2>2, FinishedReadsHold DEF Refuse
  <2>3. CASE /\ q.want \in AllowedFrom(application[q.of].status)
             /\ Acquire(r, q.of[2])
             /\ Proceed(r, "write")
             /\ UNCHANGED data
    <3>1. lock[q.of] = r /\ Owner[q.of[2]] = q.who
      BY <1>10 DEF LockItsJob, ReadsHold
    <3>2. lock'[q.of] = r /\ lock'[q.of[2]] = r
      BY <2>1, <2>3, <3>1 DEF Acquire, TypeOK
    <3>3. request'[r] = [q EXCEPT !.pc = "write"] /\ application' = application
      BY <2>3 DEF Proceed, TypeOK, data
    <3>. QED
      BY <1>10, <2>1, <2>3, <3>1, <3>2, <3>3 DEF UpdateStates, LockItsJob, ReadsHold
  <2>. QED
    BY <1>10, <2>2, <2>3 DEF LockItsJob
<1>11. CASE LockJob(r)
  <2>1. q \in JobStates /\ q.job \in Rows
    BY <1>11, <1>q, RequestShape DEF LockJob, JobStates, Rows
  <2>2. CASE Refuse(r)
    BY <2>2, FinishedReadsHold DEF Refuse
  <2>3. CASE /\ Owner[q.job] = q.who
             /\ IF q.want = "closed" THEN MayClose(job[q.job])
                ELSE MayReopen(job[q.job], ClosingDate(q), q.day)
             /\ Acquire(r, q.job)
             /\ Proceed(r, "write")
             /\ UNCHANGED data
    <3>1. lock'[q.job] = r /\ job' = job
      BY <2>1, <2>3 DEF Acquire, TypeOK, data
    <3>2. request'[r] = [q EXCEPT !.pc = "write"]
      BY <2>3 DEF Proceed, TypeOK
    <3>3. ClosingDate(request[r])' = ClosingDate(q)
      BY <2>1, <3>1, <3>2 DEF ClosingDate, JobStates
    <3>. QED
      BY <2>1, <2>3, <3>1, <3>2, <3>3 DEF JobStates, ReadsHold
  <2>. QED
    BY <1>11, <2>2, <2>3 DEF LockJob
<1>. QED
  BY <1>1, <1>2, <1>3, <1>4, <1>5, <1>6, <1>7, <1>8, <1>9, <1>10, <1>11 DEF Arrive, Step

LEMMA NextReadsHold == TypeOK /\ LockedReadsHold /\ [Next]_vars => LockedReadsHold'
<1>. SUFFICES ASSUME TypeOK, LockedReadsHold, [Next]_vars, NEW r \in Requests
              PROVE  ReadsHold(r)'
  BY DEF LockedReadsHold
<1>r. ReadsHold(r)
  BY DEF LockedReadsHold
<1>1. CASE UNCHANGED vars
  BY <1>1, <1>r, UndisturbedReadsHold DEF vars, data, Undisturbed
<1>2. ASSUME NEW s \in Requests, Arrive(s) \/ Step(s) \/ Abort(s) PROVE ReadsHold(r)'
  <2>1. CASE s = r
    BY <1>2, <1>r, <2>1, ActorReadsHold
  <2>2. CASE s # r
    <3>1. request'[r] = request[r]
      <4>1. \E state : request' = [request EXCEPT ![s] = state]
        BY <1>2 DEF Arrive, Step, Abort, Refuse, Finish, Proceed, Begin, BeginSubmit,
           BeginWithdraw, BeginUpdate, BeginPublish, BeginJobStatus, LockAccount, ReadJob,
           LockCompany, InsertApplication, LockWithdrawal, WriteWithdrawal, LockApplication,
           LockItsJob, WriteUpdate, PublishJob, LockJob, WriteJob, WriteAccount
      <4>. QED
        BY <2>2, <4>1 DEF TypeOK
    <3>. QED
      BY <1>2, <1>r, <2>2, <3>1, OthersStep, UndisturbedReadsHold
  <2>. QED
    BY <2>1, <2>2
<1>3. ASSUME NEW w \in Rounds,
             StartRound(w) \/ StartTask(w) \/ Advance(w) \/ FailRound(w)
      PROVE  ReadsHold(r)'
  BY <1>3, <1>r, RoundsUndisturbed, UndisturbedReadsHold
<1>4. CASE ChangePreference \/ NextDay
  BY <1>4, <1>r, EnvironmentUndisturbed, UndisturbedReadsHold
<1>5. CASE Crash
  BY <1>5, IdleReadsHold DEF Crash
<1>. QED
  BY <1>1, <1>2, <1>3, <1>4, <1>5 DEF Next

LEMMA InitialReadsHold == Init => LockedReadsHold
  BY DEF Init, LockedReadsHold, ReadsHold, At, Idle

\* Whatever a request checked under a row lock still holds when it writes.
THEOREM LockedReadsAreCurrent == Spec => []LockedReadsHold
  BY InitialReadsHold, NextReadsHold, TypeCorrect, PTL DEF Spec

-------------------------------------------------------------------------------
\* What the locks buy.

\* The four actions that write applications, and what they do to each.
Submitting(r, p) ==
    /\ InsertApplication(r) /\ p = <<request[r].who, request[r].job>>
    /\ application[p] = NoApplication /\ application'[p] = NewApplication("active")
Proposing(p) ==
    application[p] = NoApplication /\ application'[p] = NewApplication("automatic")
Withdrawing(r, p) ==
    /\ WriteWithdrawal(r) /\ p = request[r].of
    /\ application'[p] = Withdrawn(application[p])
Deciding(r, p) ==
    /\ WriteUpdate(r) /\ p = request[r].of
    /\ application'[p] = Decided(application[p], request[r].want, request[r].reason)

LEMMA ApplicationWriters ==
    ASSUME TypeOK, [Next]_vars, NEW p \in Pairs, application'[p] # application[p]
    PROVE  \/ \E r \in Requests : Submitting(r, p) \/ Withdrawing(r, p) \/ Deciding(r, p)
           \/ Proposing(p)
<1>1. CASE UNCHANGED vars
  BY <1>1 DEF vars, data
<1>2. ASSUME NEW r \in Requests, Arrive(r) \/ Step(r) \/ Abort(r)
      PROVE  Submitting(r, p) \/ Withdrawing(r, p) \/ Deciding(r, p)
  <2>1. CASE InsertApplication(r)
    BY <2>1 DEF InsertApplication, Refuse, data, TypeOK, Submitting
  <2>2. CASE WriteWithdrawal(r)
    BY <2>2 DEF WriteWithdrawal, TypeOK, Withdrawing
  <2>3. CASE WriteUpdate(r)
    BY <2>3 DEF WriteUpdate, TypeOK, Deciding
  <2>4. CASE \/ Arrive(r) \/ Abort(r) \/ ReadJob(r) \/ LockCompany(r) \/ LockWithdrawal(r)
             \/ LockApplication(r) \/ LockItsJob(r) \/ PublishJob(r) \/ LockJob(r)
             \/ WriteJob(r) \/ WriteAccount(r)
    BY <2>4 DEF Arrive, Abort, Refuse, Begin, BeginSubmit, BeginWithdraw, BeginUpdate,
       BeginPublish, BeginJobStatus, LockAccount, ReadJob, LockCompany, LockWithdrawal,
       LockApplication, LockItsJob, PublishJob, LockJob, WriteJob, WriteAccount, data
  <2>. QED
    BY <1>2, <2>1, <2>2, <2>3, <2>4 DEF Step
<1>3. ASSUME NEW w \in Rounds,
             StartRound(w) \/ StartTask(w) \/ Advance(w) \/ FailRound(w)
      PROVE  Proposing(p)
  BY <1>3 DEF StartRound, StartTask, Advance, SelectCandidates, InsertRows, FailRound,
              data, TypeOK, Proposing
<1>4. CASE ChangePreference \/ Crash \/ NextDay
  BY <1>4 DEF ChangePreference, Crash, NextDay
<1>. QED
  BY <1>1, <1>2, <1>3, <1>4 DEF Next

LEMMA NewIsNew ==
    /\ NewApplication("active") # NewApplication("automatic")
    /\ \A type : NewApplication(type) # NoApplication
  BY DEF NewApplication, NoApplication


\* The same two writes, with what the locks add to them.
LeftBy(r, p) ==
    /\ request[r].op = "withdraw" /\ request[r].of = p /\ request'[r] = Idle
    /\ request[r].who = p[1]
    /\ application[p].status \in Active
    /\ application'[p] = Withdrawn(application[p])
    /\ told'[p] = told[p]
RuledBy(r, p, want) ==
    /\ request[r].op = "update" /\ request[r].of = p /\ request'[r] = Idle
    /\ request[r].who = Owner[p[2]]
    /\ want \in AllowedFrom(application[p].status) \cap CompanyStatuses
    /\ application'[p] = Decided(application[p], want, want = "not_selected")
    /\ told'[p] = Append(told[p], want)

LEMMA ApplicationMoves ==
    ASSUME TypeOK, LockedReadsHold, [Next]_vars, NEW p \in Pairs,
           application'[p] # application[p]
    PROVE  \/ \E r \in Requests : \/ Submitting(r, p)
                                  \/ LeftBy(r, p)
                                  \/ \E want \in CompanyStatuses : RuledBy(r, p, want)
           \/ Proposing(p)
<1>1. ASSUME NEW r \in Requests, Withdrawing(r, p) PROVE LeftBy(r, p)
  BY <1>1 DEF LeftBy, Withdrawing, WriteWithdrawal, LockedReadsHold, ReadsHold, At, Finish,
              TypeOK
<1>2. ASSUME NEW r \in Requests, Deciding(r, p)
      PROVE  \E want \in CompanyStatuses : RuledBy(r, p, want)
  <2>. DEFINE want == request[r].want
  <2>1. request[r] \in UpdateStates
    BY <1>2, RequestShape DEF Deciding, WriteUpdate, At, TypeOK
  <2>2. /\ want = "not_selected" => request[r].reason
        /\ Owner[p[2]] = request[r].who
        /\ want \in AllowedFrom(application[p].status)
    BY <1>2 DEF Deciding, WriteUpdate, LockedReadsHold, ReadsHold, At
  <2>3. Decided(application[p], want, request[r].reason)
           = Decided(application[p], want, want = "not_selected")
    <3>1. (want = "not_selected" /\ request[r].reason)
             <=> (want = "not_selected" /\ want = "not_selected")
      BY <2>2
    <3>. QED
      BY <3>1, Zenon DEF Decided
  <2>4. told'[p] = Append(told[p], want)
    BY <1>2, <2>1 DEF Deciding, WriteUpdate, TypeOK
  <2>5. request[r].op = "update" /\ want \in CompanyStatuses /\ request'[r] = Idle
    BY <1>2, <2>1 DEF UpdateStates, Deciding, WriteUpdate, Finish, TypeOK
  <2>. QED
    BY <1>2, <2>2, <2>3, <2>4, <2>5 DEF Deciding, RuledBy
<1>. QED
  BY <1>1, <1>2, ApplicationWriters

\* A candidate's own application never commits while the company is blocked: the
\* submission holds the lock a block would need.
THEOREM BlockIsObserved == Spec => NoSubmissionWhileBlocked
<1>1. ASSUME TypeOK, LockedReadsHold, [Next]_vars, NEW p \in Pairs, Applies(p, "active")
      PROVE  account[Owner[p[2]]] # "blocked"
  <2>1. application'[p] # application[p] /\ ~Proposing(p)
    BY <1>1, NewIsNew DEF Applies, Proposing
  <2>2. application[p].status \notin Active /\ AllowedFrom(application[p].status) = {}
    BY <1>1 DEF Applies, NoApplication, Active, AllowedFrom
  <2>3. PICK r \in Requests : Submitting(r, p)
    BY <2>1, <2>2, <1>1, ApplicationMoves DEF LeftBy, RuledBy
  <2>. QED
    BY <1>1, <2>3 DEF Submitting, InsertApplication, LockedReadsHold, ReadsHold
<1>2. TypeOK /\ LockedReadsHold /\ [Next]_vars =>
         [\A p \in Pairs : Applies(p, "active") => account[Owner[p[2]]] # "blocked"]_vars
  BY <1>1
<1>. QED
  BY <1>2, TypeCorrect, LockedReadsAreCurrent, PTL DEF Spec, NoSubmissionWhileBlocked

\* Only the company that owns the job decides, only the candidate withdraws, and it is
\* the request of one of them, for this application, that ends with the change.
THEOREM OnlyTheParties == Spec => OnlyThePartiesAct
<1>. DEFINE ActsOn(r, p) ==
               /\ request[r].op \in {"withdraw", "update"} /\ request'[r] = Idle
               /\ request[r].of = p
               /\ \/ /\ application'[p].status = "withdrawn"
                     /\ request[r].op = "withdraw" /\ request[r].who = p[1]
                  \/ /\ application'[p].status \in CompanyStatuses
                     /\ request[r].op = "update" /\ request[r].who = Owner[p[2]]
            ByParties == \A p \in Pairs :
               application[p] # NoApplication /\ application'[p] # application[p] =>
                 \E r \in Requests : ActsOn(r, p)
<1>1. TypeOK /\ LockedReadsHold /\ [Next]_vars => ByParties
  <2>. SUFFICES ASSUME TypeOK, LockedReadsHold, [Next]_vars, NEW p \in Pairs,
                       application[p] # NoApplication, application'[p] # application[p]
                PROVE  \E r \in Requests : ActsOn(r, p)
    OBVIOUS
  <2>1. ~Proposing(p) /\ \A r \in Requests : ~Submitting(r, p)
    BY DEF Proposing, Submitting
  <2>2. ASSUME NEW r \in Requests, LeftBy(r, p) PROVE ActsOn(r, p)
    BY <2>2 DEF LeftBy, Withdrawn
  <2>3. ASSUME NEW r \in Requests, NEW want \in CompanyStatuses, RuledBy(r, p, want)
        PROVE  ActsOn(r, p)
    BY <2>3 DEF RuledBy, Decided
  <2>. QED
    BY <2>1, <2>2, <2>3, ApplicationMoves
<1>2. TypeOK /\ LockedReadsHold /\ [Next]_vars => [ByParties]_vars
  BY <1>1
<1>. QED
  BY <1>2, TypeCorrect, LockedReadsAreCurrent, PTL DEF Spec, OnlyThePartiesAct

-------------------------------------------------------------------------------
\* The record of an application stays consistent.

LEMMA NextConsistent ==
    TypeOK /\ LockedReadsHold /\ RecordConsistent /\ [Next]_vars => RecordConsistent'
<1>. SUFFICES ASSUME TypeOK, LockedReadsHold, RecordConsistent, [Next]_vars, NEW p \in Pairs
              PROVE  Consistent(application[p])'
  BY DEF RecordConsistent
<1>1. Consistent(application[p]) /\ application[p] \in Records
  BY DEF RecordConsistent, TypeOK
<1>2. CASE application'[p] = application[p]
  BY <1>1, <1>2 DEF Consistent
<1>3. CASE Proposing(p) \/ \E r \in Requests : Submitting(r, p)
  BY <1>3 DEF Proposing, Submitting, Consistent, NewApplication, Terminal
<1>4. ASSUME NEW r \in Requests, LeftBy(r, p) PROVE Consistent(application[p])'
  <2>1. application[p] # NoApplication /\ application[p].status # "not_selected"
    BY <1>4 DEF LeftBy, Active, NoApplication
  <2>2. ~application[p].reason /\ application[p].type \in {"active", "automatic"}
    BY <1>1, <2>1 DEF Consistent, Records
  <2>. QED
    BY <1>4, <2>2 DEF LeftBy, Withdrawn, Consistent, Terminal
<1>5. ASSUME NEW r \in Requests, NEW want \in CompanyStatuses, RuledBy(r, p, want)
      PROVE  Consistent(application[p])'
  <2>1. /\ application[p].status \in Active
        /\ want \in {"under_review", "in_selection_process", "hired", "not_selected"}
        /\ application[p] # NoApplication
    BY <1>5 DEF RuledBy, AllowedFrom, Active, CompanyStatuses, NoApplication
  <2>2. /\ ~application[p].reason /\ ~application[p].closed
        /\ application[p].type \in {"active", "automatic"}
    BY <1>1, <2>1 DEF Consistent, Records, Active, Terminal
  <2>. DEFINE over == want \in {"hired", "not_selected"}
              refused == want = "not_selected"
  <2>3. /\ over <=> want \in Terminal
        /\ refused <=> want = "not_selected"
    BY <2>1 DEF Terminal
  <2>4. application'[p] = [status |-> want, type |-> application[p].type,
                           closed |-> over, reason |-> refused]
    BY <1>5, <2>2 DEF RuledBy, Decided
  <2>. HIDE DEF over, refused
  <2>5. /\ application'[p].status = want /\ application'[p].type = application[p].type
        /\ application'[p].closed = over /\ application'[p].reason = refused
    BY <2>4
  <2>. QED
    BY <2>1, <2>2, <2>3, <2>5 DEF Consistent
<1>. QED
  BY <1>2, <1>3, <1>4, <1>5, ApplicationMoves

\* An application is closed exactly in an end status and carries a reason exactly
\* when it was turned down.
THEOREM RecordsAreConsistent == Spec => []RecordConsistent
<1>1. Init => RecordConsistent
  BY DEF Init, RecordConsistent, Consistent
<1>. QED
  BY <1>1, NextConsistent, TypeCorrect, LockedReadsAreCurrent, PTL DEF Spec

-------------------------------------------------------------------------------
\* Applications implements ApplicationLifecycle.

\* Every other action leaves applications and notifications alone.
LEMMA Quiet ==
    ASSUME \/ UNCHANGED vars
           \/ \E r \in Requests :
                 \/ Arrive(r) \/ Abort(r) \/ ReadJob(r) \/ LockCompany(r)
                 \/ LockWithdrawal(r) \/ LockApplication(r) \/ LockItsJob(r)
                 \/ PublishJob(r) \/ LockJob(r) \/ WriteJob(r) \/ WriteAccount(r)
           \/ \E w \in Rounds :
                 StartRound(w) \/ StartTask(w) \/ SelectCandidates(w) \/ FailRound(w)
           \/ ChangePreference \/ Crash \/ NextDay
    PROVE  UNCHANGED <<application, told>>
  BY ZenonT(40) DEF vars, data, Arrive, Abort, Refuse, Begin, BeginSubmit, BeginWithdraw,
     BeginUpdate, BeginPublish, BeginJobStatus, LockAccount, ReadJob, LockCompany,
     LockWithdrawal, LockApplication, LockItsJob, PublishJob, LockJob, WriteJob,
     WriteAccount, StartRound, StartTask, SelectCandidates, FailRound, ChangePreference, Crash, NextDay

LEMMA StepMaps ==
    ASSUME TypeOK, LockedReadsHold, RecordConsistent, [Next]_vars
    PROVE  Lifecycle!LNext \/ UNCHANGED <<application, told>>
<1>1. ASSUME NEW r \in Requests, InsertApplication(r)
      PROVE  Lifecycle!LNext \/ UNCHANGED <<application, told>>
  <2>. DEFINE p == <<request[r].who, request[r].job>>
  <2>1. p \in Pairs
    BY <1>1, RequestShape DEF InsertApplication, At, TypeOK, SubmitStates, Pairs
  <2>2. CASE Refuse(r)
    BY <2>2 DEF Refuse, data
  <2>3. CASE /\ application[p] = NoApplication
             /\ application' = [application EXCEPT ![p] = NewApplication("active")]
             /\ told' = [told EXCEPT ![p] = Append(@, "received")]
    <3>1. Lifecycle!Apply(p)
      BY <2>3 DEF Lifecycle!Apply, Lifecycle!Absent, Lifecycle!AtStage, Lifecycle!Ongoing,
                  NoApplication, NewApplication
    <3>. QED
      BY <2>1, <3>1 DEF Lifecycle!LNext
  <2>. QED
    BY <1>1, <2>2, <2>3 DEF InsertApplication
<1>2. ASSUME NEW w \in Rounds, InsertRows(w)
      PROVE  Lifecycle!LNext \/ UNCHANGED <<application, told>>
  <2>. DEFINE new == {p \in round[w].rows \X {round[w].job} : application[p] = NoApplication}
  <2>1. new \subseteq Pairs
    BY <1>2, RoundShape DEF InsertRows, TypeOK, Pairs
  <2>2. application' = [p \in Pairs |->
             IF p \in new THEN NewApplication("automatic") ELSE application[p]]
    BY <1>2 DEF InsertRows
  <2>3. UNCHANGED told
    BY <1>2 DEF InsertRows
  <2>. HIDE DEF new
  <2>4. CASE new = {}
    BY <2>2, <2>3, <2>4 DEF TypeOK
  <2>5. CASE new # {}
    <3>1. \A p \in new : application[p] = NoApplication
      BY DEF new
    <3>2. Lifecycle!ApplyForThem(new)
      BY <2>2, <2>3, <2>5, <3>1
         DEF Lifecycle!ApplyForThem, Lifecycle!Absent, Lifecycle!AtStage,
             Lifecycle!Ongoing, NoApplication, NewApplication
    <3>. QED
      BY <2>1, <3>2 DEF Lifecycle!LNext
  <2>. QED
    BY <2>4, <2>5
<1>3. ASSUME NEW r \in Requests, WriteWithdrawal(r)
      PROVE  Lifecycle!LNext
  <2>. DEFINE p == request[r].of
  <2>1. p \in Pairs
    BY <1>3, RequestShape DEF WriteWithdrawal, At, TypeOK, WithdrawStates
  <2>2. application[p].status \in Active
    BY <1>3 DEF WriteWithdrawal, LockedReadsHold, ReadsHold
  <2>3. application[p].status \in Lifecycle!Ongoing /\ ~application[p].reason
    <3>1. application[p] # NoApplication
      BY <2>2 DEF Active, NoApplication
    <3>. QED
      BY <2>1, <2>2, <3>1
         DEF RecordConsistent, Consistent, Active, Lifecycle!Ongoing, TypeOK, Records
  <2>4. Withdrawn(application[p]) = Lifecycle!AtStage("withdrawn", application[p].type)
    <3>1. application[p].reason = FALSE
      BY <2>1, <2>3 DEF TypeOK, Records
    <3>. QED
      BY <3>1 DEF Withdrawn, Lifecycle!AtStage, Lifecycle!Ongoing
  <2>5. Lifecycle!Leave(p)
    BY <1>3, <2>3, <2>4 DEF WriteWithdrawal, Lifecycle!Leave
  <2>. QED
    BY <2>1, <2>5 DEF Lifecycle!LNext
<1>4. ASSUME NEW r \in Requests, WriteUpdate(r)
      PROVE  Lifecycle!LNext
  <2>. DEFINE p == request[r].of
              want == request[r].want
              a == application[p]
  <2>1. p \in Pairs /\ want \in CompanyStatuses /\ request[r].reason \in BOOLEAN
    BY <1>4, RequestShape DEF WriteUpdate, At, TypeOK, UpdateStates
  <2>2. want \in AllowedFrom(a.status) /\ (want = "not_selected" => request[r].reason)
    BY <1>4 DEF WriteUpdate, LockedReadsHold, ReadsHold, At
  <2>3. a # NoApplication /\ a \in Records
    BY <2>1, <2>2 DEF NoApplication, AllowedFrom, TypeOK
  <2>4. /\ a.status \in {"under_review", "in_selection_process"}
        /\ a.closed = FALSE /\ a.reason = FALSE
    BY <2>1, <2>2, <2>3 DEF RecordConsistent, Consistent, AllowedFrom, Records, Terminal
  <2>5. <<a.status, want>> \in Lifecycle!Forward
    BY <2>2, <2>4 DEF AllowedFrom, Lifecycle!Forward
  <2>6. Decided(a, want, request[r].reason) = Lifecycle!AtStage(want, a.type)
    <3>1. want \in {"in_selection_process", "hired", "not_selected"}
      BY <2>2, <2>4 DEF AllowedFrom
    <3>. QED
      BY <2>1, <2>2, <2>4, <3>1 DEF Decided, Lifecycle!AtStage, Lifecycle!Ongoing
  <2>7. Lifecycle!Decide(p, want)
    BY <1>4, <2>5, <2>6 DEF WriteUpdate, Lifecycle!Decide
  <2>8. want \in {"in_selection_process", "not_selected", "hired"}
    BY <2>2, <2>4 DEF AllowedFrom
  <2>. QED
    BY <2>1, <2>7, <2>8 DEF Lifecycle!LNext
<1>. QED
  BY <1>1, <1>2, <1>3, <1>4, Quiet DEF Next, Step, Advance

\* The concurrent, locking implementation is a life cycle: whatever interleaves,
\* an application appears once, moves forward, ends once and is told as it happens.
THEOREM ImplementsLifecycle == Spec => LifecycleHolds
<1>1. Init => Lifecycle!LInit
  BY DEF Init, Lifecycle!LInit, Lifecycle!Absent, NoApplication
<1>2. TypeOK /\ LockedReadsHold /\ RecordConsistent /\ [Next]_vars
         => [Lifecycle!LNext]_(Lifecycle!lifecycle)
  BY StepMaps DEF Lifecycle!lifecycle
<1>. QED
  BY <1>1, <1>2, TypeCorrect, LockedReadsAreCurrent, RecordsAreConsistent, PTL
     DEF Spec, LifecycleHolds, Lifecycle!LSpec

-------------------------------------------------------------------------------
\* The notifications about an application tell its history.

Kinds == {"received", "in_selection_process", "hired", "not_selected"}
Opening(type) == IF type = "active" THEN <<"received">> ELSE <<>>
Tales(a) == {Opening(a.type) \o story : story \in Stories(a.status)}

LEMMA AppendToOne ==
    ASSUME NEW S, NEW first \in S, NEW last \in S
    PROVE  Append(<<first>>, last) = <<first, last>>
<1>1. /\ <<first>> \in Seq(S) /\ Len(<<first>>) = 1
      /\ <<first, last>> \in Seq(S) /\ Len(<<first, last>>) = 2
  OBVIOUS
<1>2. /\ Append(<<first>>, last) \in Seq(S)
      /\ Len(Append(<<first>>, last)) = Len(<<first>>) + 1
      /\ \A i \in 1..Len(<<first>>) : Append(<<first>>, last)[i] = <<first>>[i]
      /\ Append(<<first>>, last)[Len(<<first>>) + 1] = last
  BY <1>1, AppendProperties
<1>3. Len(Append(<<first>>, last)) = 2
  BY <1>1, <1>2
<1>4. \A i \in 1..2 : Append(<<first>>, last)[i] = <<first, last>>[i]
  BY <1>1, <1>2
<1>5. \A s, t \in Seq(S) : Len(s) = 2 /\ Len(t) = 2 /\ (\A i \in 1..2 : s[i] = t[i]) => s = t
  BY SeqEqual
<1>. QED
  BY <1>1, <1>2, <1>3, <1>4, <1>5

LEMMA OpeningType ==
    ASSUME NEW type
    PROVE  Opening(type) \in Seq(Kinds)
<1>1. <<>> \in Seq(Kinds) /\ <<"received">> \in Seq(Kinds)
  BY DEF Kinds
<1>. QED
  BY <1>1 DEF Opening

\* A story is known by the status, and the next decision goes at its end.
LEMMA StoryGrows ==
    ASSUME NEW status, NEW stage, <<status, stage>> \in Lifecycle!Forward,
           NEW story \in Stories(status)
    PROVE  story \in Seq(Kinds) /\ Append(story, stage) \in Stories(stage)
<1>1. CASE status = "under_review"
  <2>1. story = <<>> /\ stage \in {"in_selection_process", "not_selected"}
    BY <1>1 DEF Stories, Lifecycle!Forward
  <2>2. Append(<<>>, stage) = <<stage>> /\ <<>> \in Seq(Kinds)
    OBVIOUS
  <2>3. <<stage>> \in Stories(stage)
    <3>1. CASE stage = "in_selection_process"
      BY <3>1 DEF Stories
    <3>2. CASE stage = "not_selected"
      BY <3>2 DEF Stories
    <3>. QED
      BY <2>1, <3>1, <3>2
  <2>. QED
    BY <2>1, <2>2, <2>3
<1>2. CASE status = "in_selection_process"
  <2>1. story = <<"in_selection_process">> /\ stage \in {"hired", "not_selected"}
    BY <1>2 DEF Stories, Lifecycle!Forward
  <2>2. Append(<<"in_selection_process">>, stage) = <<"in_selection_process", stage>>
    <3>1. "in_selection_process" \in Kinds /\ stage \in Kinds
      BY <2>1 DEF Kinds
    <3>. QED
      BY <3>1, AppendToOne
  <2>3. <<"in_selection_process", stage>> \in Stories(stage)
    <3>1. CASE stage = "hired"
      BY <3>1 DEF Stories
    <3>2. CASE stage = "not_selected"
      BY <3>2 DEF Stories
    <3>. QED
      BY <2>1, <3>1, <3>2
  <2>4. <<"in_selection_process">> \in Seq(Kinds)
    BY DEF Kinds
  <2>. QED
    BY <2>1, <2>2, <2>3, <2>4
<1>. QED
  BY <1>1, <1>2 DEF Lifecycle!Forward

LEMMA TaleGrows ==
    ASSUME NEW a, NEW tale \in Tales(a), NEW stage,
           <<a.status, stage>> \in Lifecycle!Forward
    PROVE  Append(tale, stage) \in Tales(Lifecycle!AtStage(stage, a.type))
<1>1. PICK story \in Stories(a.status) : tale = Opening(a.type) \o story
  BY DEF Tales
<1>2. story \in Seq(Kinds) /\ Append(story, stage) \in Stories(stage)
  BY <1>1, StoryGrows
<1>3. stage \in Kinds
  BY DEF Kinds, Lifecycle!Forward
<1>4. Append(Opening(a.type) \o story, stage) = Opening(a.type) \o Append(story, stage)
  BY <1>2, <1>3, OpeningType, AppendIsConcat, ConcatAssociative, ConcatProperties
<1>5. /\ Lifecycle!AtStage(stage, a.type).status = stage
      /\ Lifecycle!AtStage(stage, a.type).type = a.type
  BY DEF Lifecycle!AtStage
<1>. QED
  BY <1>1, <1>2, <1>4, <1>5 DEF Tales

\* Nobody tells of a withdrawal, so the tale of an ongoing application stands.
LEMMA TaleStands ==
    ASSUME NEW a, a.status \in Lifecycle!Ongoing
    PROVE  Tales(a) \subseteq Tales(Lifecycle!AtStage("withdrawn", a.type))
<1>1. /\ Lifecycle!AtStage("withdrawn", a.type).status = "withdrawn"
      /\ Lifecycle!AtStage("withdrawn", a.type).type = a.type
  BY DEF Lifecycle!AtStage
<1>2. Stories(a.status) \subseteq Stories("withdrawn")
  BY DEF Stories, Lifecycle!Ongoing
<1>. QED
  BY <1>1, <1>2 DEF Tales

LEMMA FirstTales ==
    /\ Tales(Lifecycle!Absent) = {<<>>}
    /\ Tales(Lifecycle!AtStage("under_review", "active")) = {<<"received">>}
    /\ Tales(Lifecycle!AtStage("under_review", "automatic")) = {<<>>}
<1>1. Stories("none") = {<<>>} /\ Stories("under_review") = {<<>>}
  BY DEF Stories
<1>2. /\ Lifecycle!Absent.status = "none" /\ Lifecycle!Absent.type = "none"
      /\ \A type : /\ Lifecycle!AtStage("under_review", type).status = "under_review"
                   /\ Lifecycle!AtStage("under_review", type).type = type
  BY DEF Lifecycle!Absent, Lifecycle!AtStage
<1>3. <<>> \o <<>> = <<>> /\ <<"received">> \o <<>> = <<"received">>
  OBVIOUS
<1>. QED
  BY <1>1, <1>2, <1>3, ZenonT(40) DEF Tales, Opening

LEMMA NextTold ==
    TypeOK /\ LockedReadsHold /\ RecordConsistent /\ [Next]_vars /\ ToldWhatHappened
       => ToldWhatHappened'
<1>. SUFFICES ASSUME TypeOK, LockedReadsHold, RecordConsistent, [Next]_vars,
                     ToldWhatHappened, NEW p \in Pairs
              PROVE  told'[p] \in Tales(application'[p])
  BY DEF ToldWhatHappened, Tales, Opening
<1>1. told[p] \in Tales(application[p])
  BY DEF ToldWhatHappened, Tales, Opening
<1>2. CASE UNCHANGED <<application, told>>
  BY <1>1, <1>2
<1>3. ASSUME NEW q \in Pairs, Lifecycle!Apply(q)
      PROVE  told'[p] \in Tales(application'[p])
  <2>1. CASE p = q
    <3>1. told[p] = <<>>
      BY <1>1, <1>3, <2>1, FirstTales DEF Lifecycle!Apply
    <3>2. told'[p] = Append(<<>>, "received") /\ Append(<<>>, "received") = <<"received">>
      BY <1>3, <2>1, <3>1 DEF Lifecycle!Apply, TypeOK
    <3>3. application'[p] = Lifecycle!AtStage("under_review", "active")
      BY <1>3, <2>1 DEF Lifecycle!Apply, TypeOK
    <3>. QED
      BY <3>2, <3>3, FirstTales
  <2>2. CASE p # q
    BY <1>1, <1>3, <2>2 DEF Lifecycle!Apply, TypeOK
  <2>. QED
    BY <2>1, <2>2
<1>4. ASSUME NEW P \in SUBSET Pairs, Lifecycle!ApplyForThem(P)
      PROVE  told'[p] \in Tales(application'[p])
  <2>1. CASE p \in P
    <3>1. told'[p] = <<>>
      BY <1>1, <1>4, <2>1, FirstTales DEF Lifecycle!ApplyForThem
    <3>2. application'[p] = Lifecycle!AtStage("under_review", "automatic")
      BY <1>4, <2>1 DEF Lifecycle!ApplyForThem
    <3>. QED
      BY <3>1, <3>2, FirstTales
  <2>2. CASE p \notin P
    BY <1>1, <1>4, <2>2 DEF Lifecycle!ApplyForThem
  <2>. QED
    BY <2>1, <2>2
<1>5. ASSUME NEW q \in Pairs, Lifecycle!Leave(q)
      PROVE  told'[p] \in Tales(application'[p])
  <2>1. CASE p = q
    <3>1. application'[p] = Lifecycle!AtStage("withdrawn", application[p].type)
      BY <1>5, <2>1 DEF Lifecycle!Leave, TypeOK
    <3>. QED
      BY <1>1, <1>5, <2>1, <3>1, TaleStands DEF Lifecycle!Leave
  <2>2. CASE p # q
    BY <1>1, <1>5, <2>2 DEF Lifecycle!Leave, TypeOK
  <2>. QED
    BY <2>1, <2>2
<1>6. ASSUME NEW q \in Pairs, NEW stage, Lifecycle!Decide(q, stage)
      PROVE  told'[p] \in Tales(application'[p])
  <2>1. CASE p = q
    <3>1. /\ application'[p] = Lifecycle!AtStage(stage, application[p].type)
          /\ told'[p] = Append(told[p], stage)
      BY <1>6, <2>1 DEF Lifecycle!Decide, TypeOK
    <3>. QED
      BY <1>1, <1>6, <2>1, <3>1, TaleGrows DEF Lifecycle!Decide
  <2>2. CASE p # q
    BY <1>1, <1>6, <2>2 DEF Lifecycle!Decide, TypeOK
  <2>. QED
    BY <2>1, <2>2
<1>. QED
  BY <1>2, <1>3, <1>4, <1>5, <1>6, StepMaps DEF Lifecycle!LNext

\* The notifications queued about an application tell its whole history and nothing
\* else, whichever requests and rounds interleave.
THEOREM NotificationsTellTheHistory == Spec => []ToldWhatHappened
<1>1. Init => ToldWhatHappened
  <2>. SUFFICES ASSUME Init, NEW p \in Pairs PROVE told[p] \in Tales(application[p])
    BY DEF ToldWhatHappened, Tales, Opening
  <2>1. told[p] = <<>> /\ application[p] = Lifecycle!Absent
    BY DEF Init, Lifecycle!Absent, NoApplication
  <2>. QED
    BY <2>1, FirstTales
<1>. QED
  BY <1>1, NextTold, TypeCorrect, LockedReadsAreCurrent, RecordsAreConsistent, PTL DEF Spec

-------------------------------------------------------------------------------
\* Reopening.

\* No request carries a later day than today.
DaysPassed == \A r \in Requests : request[r].op = "job" => request[r].day <= today

LEMMA NextDaysPassed == TypeOK /\ DaysPassed /\ [Next]_vars => DaysPassed'
<1>. SUFFICES ASSUME TypeOK, DaysPassed, [Next]_vars, NEW r \in Requests,
                     request'[r].op = "job"
              PROVE  request'[r].day <= today'
  BY DEF DaysPassed
<1>1. today \in Nat /\ (today' = today \/ today' = today + 1)
  <2>1. today \in Nat
    BY LastDayAssumption DEF TypeOK, Days
  <2>2. ASSUME NEW s \in Requests, Arrive(s) \/ Step(s) \/ Abort(s)
        PROVE  today' = today
    BY <2>2 DEF data, Arrive, Step, Abort, Refuse, Begin, BeginSubmit, BeginWithdraw,
         BeginUpdate, BeginPublish, BeginJobStatus, LockAccount, ReadJob, LockCompany,
         InsertApplication, LockWithdrawal, WriteWithdrawal, LockApplication, LockItsJob,
         WriteUpdate, PublishJob, LockJob, WriteJob, WriteAccount
  <2>3. ASSUME NEW w \in Rounds,
               StartRound(w) \/ StartTask(w) \/ Advance(w) \/ FailRound(w)
        PROVE  today' = today
    BY <2>3 DEF data, StartRound, StartTask, Advance, SelectCandidates, InsertRows, FailRound
  <2>4. CASE ChangePreference \/ Crash \/ UNCHANGED vars
    BY <2>1, <2>4 DEF ChangePreference, Crash, vars, data
  <2>5. CASE NextDay
    BY <2>1, <2>5 DEF NextDay
  <2>. QED
    BY <2>1, <2>2, <2>3, <2>4, <2>5 DEF Next
<1>2. request[r] \in RequestStates
  BY DEF TypeOK
<1>3. CASE request[r].op = "job" /\ request'[r].day = request[r].day
  <2>1. request[r].day \in Nat
    BY <1>2, <1>3, RequestShape DEF JobStates, Days
  <2>. QED
    BY <1>1, <1>3, <2>1 DEF DaysPassed
<1>4. CASE request'[r].day = today
  BY <1>1, <1>4
<1>5. \/ request[r].op = "job" /\ request'[r].day = request[r].day
      \/ request'[r].day = today
  <2>1. CASE request'[r] = request[r]
    BY <2>1
  <2>2. ASSUME NEW s \in Requests, Arrive(s) \/ Step(s) \/ Abort(s), request'[r] # request[r]
        PROVE  \/ request[r].op = "job" /\ request'[r].day = request[r].day
               \/ request'[r].day = today
    <3>1. request' = [request EXCEPT ![s] = request'[s]]
      BY <2>2
         DEF TypeOK, Arrive, Step, Abort, Refuse, Finish, Proceed, Begin, BeginSubmit,
             BeginWithdraw, BeginUpdate, BeginPublish, BeginJobStatus, LockAccount, ReadJob,
             LockCompany, InsertApplication, LockWithdrawal, WriteWithdrawal,
             LockApplication, LockItsJob, WriteUpdate, PublishJob, LockJob, WriteJob,
             WriteAccount
    <3>2. s = r
      BY <2>2, <3>1 DEF TypeOK
    <3>3. CASE Finish(r)
      BY <3>3 DEF Finish, TypeOK, Idle
    <3>4. ASSUME NEW pc, Proceed(r, pc)
          PROVE  request[r].op = "job" /\ request'[r].day = request[r].day
      <4>1. request'[r] = [request[r] EXCEPT !.pc = pc]
        BY <3>4 DEF Proceed, TypeOK
      <4>2. request[r].op = "job"
        BY <1>2, <4>1 DEF RequestStates, Idle, SubmitStates, WithdrawStates, UpdateStates,
                          JobStates, AccountStates, PublishStates
      <4>3. request[r] \in JobStates
        BY <1>2, <4>2, RequestShape
      <4>. QED
        BY <4>1, <4>2, <4>3 DEF JobStates
    <3>5. CASE BeginJobStatus(r)
      BY <3>5 DEF BeginJobStatus, Begin, TypeOK
    <3>6. CASE \/ BeginSubmit(r) \/ BeginWithdraw(r) \/ BeginUpdate(r) \/ BeginPublish(r)
               \/ LockAccount(r)
      BY <3>6 DEF BeginSubmit, BeginWithdraw, BeginUpdate, BeginPublish, LockAccount, Begin,
                  TypeOK
    <3>7. CASE ReadJob(r)
      <4>1. CASE Refuse(r)
        BY <3>3, <4>1 DEF Refuse
      <4>2. CASE request' = [request EXCEPT ![r].pc = "company",
                                ![r].open = Open(job[request[r].job], request[r].day)]
        <5>1. request[r] \in SubmitStates
          BY <1>2, <3>7, RequestShape DEF ReadJob, At
        <5>2. request'[r].op = "submit"
          BY <4>2, <5>1 DEF TypeOK, SubmitStates
        <5>. QED
          BY <5>2
      <4>. QED
        BY <3>7, <4>1, <4>2 DEF ReadJob
    <3>. QED
      BY <2>2, <3>2, <3>3, <3>4, <3>5, <3>6, <3>7
         DEF Arrive, Step, Abort, Refuse, LockCompany, InsertApplication, LockWithdrawal,
             WriteWithdrawal, LockApplication, LockItsJob, WriteUpdate, PublishJob, LockJob,
             WriteJob, WriteAccount
  <2>3. CASE Crash
    BY <2>3 DEF Crash, Idle
  <2>4. CASE \/ UNCHANGED vars \/ ChangePreference \/ NextDay
             \/ \E w \in Rounds : StartRound(w) \/ StartTask(w) \/ Advance(w) \/ FailRound(w)
    BY <2>1, <2>4 DEF vars, ChangePreference, NextDay, StartRound, StartTask,
                      Advance, SelectCandidates, InsertRows, FailRound
  <2>. QED
    BY <2>1, <2>2, <2>3, <2>4 DEF Next
<1>. QED
  BY <1>3, <1>4, <1>5

\* Reopening never moves the closing date of a job that is open: the second of two
\* reopenings finds under the job's lock that it is open (change_job_status.py:39).
THEOREM OpenJobsKeepTheirDate == Spec => ReopeningNeverMovesAnOpenJob
<1>1. Init => DaysPassed
  BY DEF Init, DaysPassed, Idle
<1>2. ASSUME TypeOK, LockedReadsHold, DaysPassed, Next, NEW j \in Jobs, Open(job[j], today)
      PROVE  job'[j].closing = job[j].closing
  <2>1. CASE job'[j] = job[j]
    BY <2>1
  <2>2. ASSUME NEW r \in Requests, PublishJob(r) PROVE job'[j].closing = job[j].closing
    BY <1>2, <2>2 DEF PublishJob, Refuse, data, Open, TypeOK
  <2>3. ASSUME NEW r \in Requests, WriteJob(r), request[r].job = j
        PROVE  job'[j].closing = job[j].closing
    <3>. DEFINE q == request[r]
    <3>1. q \in JobStates /\ job[j].closing \in Nat /\ today \in Nat
      <4>1. q \in RequestStates /\ q.op = "job"
        BY <1>2, <2>3 DEF WriteJob, At, TypeOK
      <4>2. job[j].closing \in Days /\ today \in Days
        BY <1>2 DEF TypeOK
      <4>. QED
        BY <4>1, <4>2, RequestShape, LastDayAssumption DEF Days
    <3>2. q.day <= today /\ q.day \in Nat
      BY <2>3, <3>1, <1>2 DEF WriteJob, At, DaysPassed, JobStates, Days
    <3>3. Open(job[j], q.day)
      BY <1>2, <3>1, <3>2 DEF Open
    <3>4. q.want = "closed"
      BY <1>2, <2>3, <3>3 DEF WriteJob, LockedReadsHold, ReadsHold, MayReopen
    <3>. QED
      BY <2>3, <3>4 DEF WriteJob, TypeOK
  <2>4. CASE \E r \in Requests : WriteJob(r) /\ request[r].job # j
    BY <2>1, <2>4 DEF WriteJob, TypeOK
  <2>. QED
    BY <1>2, <2>1, <2>2, <2>3, <2>4, ZenonT(40)
       DEF Next, data, Arrive, Step, Abort, Refuse, Begin, BeginSubmit, BeginWithdraw,
           BeginUpdate, BeginPublish, BeginJobStatus, LockAccount, ReadJob, LockCompany,
           InsertApplication, LockWithdrawal, WriteWithdrawal, LockApplication, LockItsJob,
           WriteUpdate, LockJob, WriteAccount, StartRound, StartTask, Advance,
           SelectCandidates, InsertRows, FailRound, ChangePreference, Crash, NextDay
<1>3. TypeOK /\ LockedReadsHold /\ DaysPassed /\ [Next]_vars =>
         [\A j \in Jobs : Open(job[j], today) => job'[j].closing = job[j].closing]_vars
  BY <1>2
<1>. QED
  BY <1>1, <1>3, NextDaysPassed, TypeCorrect, LockedReadsAreCurrent, PTL
     DEF Spec, ReopeningNeverMovesAnOpenJob

===============================================================================
