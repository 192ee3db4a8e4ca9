----------------------------- MODULE Applications -----------------------------
(***************************************************************************)
(* Applications to jobs: submitting, withdrawing and deciding on them,     *)
(* opening and closing jobs, blocking accounts, and the automatic rounds,  *)
(* all running at once.                                                    *)
(*                                                                         *)
(* A request is a thread of the API with its own PostgreSQL transaction at *)
(* READ COMMITTED: an action reads what is committed, SELECT ... FOR       *)
(* UPDATE waits in `lock', and the last action writes, commits and frees   *)
(* the locks.  An insert checks its foreign keys and its unique key in     *)
(* the action that commits it.                                             *)
(***************************************************************************)
EXTENDS Naturals, Sequences

CONSTANTS Companies, Candidates,
          Bystanders,   \* bound: users who only try to act on others' applications
          Jobs,         \* the job ids an instance can use
          Owner,        \* the company of each job
          Qualifies,    \* the pairs whose skills reach the automatic threshold
          Requests,     \* threads serving requests
          Scheduler,    \* the thread of the daily automatic round
          Tasks,        \* background tasks that evaluate a new job
          LastDay,      \* bound: the last calendar day an instance reaches
          Offered,      \* the operations an instance exercises
          None          \* no lock holder, no closing date given

Users == Companies \cup Candidates
Pairs == Candidates \X Jobs
Rows == Users \cup Jobs \cup Pairs       \* rows that are ever locked
Rounds == {Scheduler} \cup Tasks
Days == 0..LastDay

ASSUME OwnerAssumption == Owner \in [Jobs -> Companies]
ASSUME QualifiesAssumption == Qualifies \subseteq Pairs
ASSUME LastDayAssumption == LastDay \in Nat
ASSUME NobodyAssumption == None \notin Requests /\ None \notin Days
ASSUME PartiesAssumption == Companies \cap Candidates = {}
ASSUME RowsAssumption == Users \cap Jobs = {} /\ (Users \cup Jobs) \cap Pairs = {}

VARIABLES application,  \* the application row of each pair
          told,         \* the notifications queued about it, oldest first
          job,          \* each job's status and closing date
          account,      \* each user's account status
          willing,      \* candidates available and accepting automatic applications
          today,
          lock,         \* the request that holds each row's lock
          request,      \* what each thread is doing
          pending,      \* new jobs whose background evaluation has not started
          round         \* what each automatic round is doing

data == <<application, told, job, account, willing, today, pending>>
vars == <<data, lock, request, round>>

JobStatuses == {"absent", "draft", "under_review", "published", "paused",
                "expired", "closed"}
Closable == {"published", "paused", "expired"}
Reopenable == {"closed", "paused", "expired", "published"}

Active == {"applied", "under_review", "in_selection_process"}
Terminal == {"hired", "not_selected", "withdrawn", "expired"}
CompanyStatuses == {"under_review", "in_selection_process", "hired", "not_selected"}
AllowedFrom(status) ==
    CASE status = "applied" -> {"under_review"}
      [] status = "under_review" -> {"in_selection_process", "not_selected"}
      [] status = "in_selection_process" -> {"hired", "not_selected"}
      [] OTHER -> {}

Records == [status : Active \cup Terminal \cup {"none"},
            type : {"none", "active", "automatic"}, closed : BOOLEAN, reason : BOOLEAN]
NoApplication ==
    [status |-> "none", type |-> "none", closed |-> FALSE, reason |-> FALSE]
NewApplication(type) ==
    [status |-> "under_review", type |-> type, closed |-> FALSE, reason |-> FALSE]

Idle == [op |-> "idle"]
Resting == [pc |-> "rest"]
Stopped == [pc |-> "stopped"]            \* by an exception or a restart

\* What a request carries from one of its statements to the next.
SubmitStates ==
    [op : {"submit"}, pc : {"read", "company", "insert"}, who : Candidates,
     job : Jobs, day : Days, open : BOOLEAN]
WithdrawStates ==
    [op : {"withdraw"}, pc : {"lock", "write"}, who : Candidates, of : Pairs]
UpdateStates ==
    [op : {"update"}, pc : {"application", "job", "write"}, who : Companies,
     of : Pairs, want : CompanyStatuses, reason : BOOLEAN]
JobStates ==
    [op : {"job"}, pc : {"lock", "write"}, who : Companies, job : Jobs,
     want : {"closed", "published"}, closing : Days \cup {None}, day : Days]
AccountStates ==
    [op : {"account"}, pc : {"write"}, who : Users, want : {"active", "blocked"}]
PublishStates ==
    [op : {"publish"}, pc : {"insert"}, who : Companies, job : Jobs, closing : Days]
RequestStates == {Idle} \cup SubmitStates \cup WithdrawStates \cup UpdateStates
                        \cup JobStates \cup AccountStates \cup PublishStates

RoundStates ==
    {Resting, Stopped}
    \cup [pc : {"select"}, left : SUBSET Jobs]
    \cup [pc : {"insert"}, left : SUBSET Jobs, job : Jobs, rows : SUBSET Candidates]

TypeOK ==
    /\ application \in [Pairs -> Records]
    /\ told \in [Pairs -> Seq({"received"} \cup CompanyStatuses)]
    /\ job \in [Jobs -> [status : JobStatuses, closing : Days]]
    /\ account \in [Users -> {"active", "blocked"}]
    /\ willing \in [Candidates -> BOOLEAN]
    /\ today \in Days
    /\ lock \in [Rows -> Requests \cup {None}]
    /\ request \in [Requests -> RequestStates]
    /\ pending \subseteq Jobs
    /\ round \in [Rounds -> RoundStates]

Init ==
    /\ application = [p \in Pairs |-> NoApplication]
    /\ told = [p \in Pairs |-> <<>>]
    /\ job = [j \in Jobs |-> [status |-> "absent", closing |-> 0]]
    /\ account = [u \in Users |-> "active"]
    /\ willing = [c \in Candidates |-> TRUE]
    /\ today = 0
    /\ lock = [x \in Rows |-> None]
    /\ request = [r \in Requests |-> Idle]
    /\ pending = {}
    /\ round = [w \in Rounds |-> Resting]

-------------------------------------------------------------------------------
\* Transactions.

At(r, op, pc) == request[r].op = op /\ request[r].pc = pc

\* The caller's account was active when the request was authenticated.
Begin(r, op, caller, state) ==
    /\ op \in Offered
    /\ request[r] = Idle
    /\ account[caller] = "active"
    /\ request' = [request EXCEPT ![r] = state]
    /\ UNCHANGED <<data, lock, round>>

Proceed(r, pc) == request' = [request EXCEPT ![r].pc = pc]
Free(x) == lock[x] = None
Acquire(r, x) == Free(x) /\ lock' = [lock EXCEPT ![x] = r]

\* Commit or rollback: the locks are released and the thread is idle again.
Finish(r) ==
    /\ request' = [request EXCEPT ![r] = Idle]
    /\ lock' = [x \in Rows |-> IF lock[x] = r THEN None ELSE lock[x]]

\* Mutant of Refuse: the error path leaves the transaction open, locks included.
RefuseKeepingLocks(r) ==
    /\ request' = [request EXCEPT ![r] = Idle]
    /\ UNCHANGED <<data, lock, round>>

\* The request ends with an error and has written nothing.
Refuse(r) == Finish(r) /\ UNCHANGED <<data, round>>

Open(posting, day) == posting.status = "published" /\ day <= posting.closing
Accepting(j, day) == Open(job[j], day) /\ account[Owner[j]] # "blocked"
-------------------------------------------------------------------------------
\* A candidate applies.

BeginSubmit(r) == \E c \in Candidates \ Bystanders, j \in Jobs :
    Begin(r, "submit", c, [op |-> "submit", pc |-> "read", who |-> c, job |-> j,
                           day |-> today, open |-> FALSE])

\* The job is read without a lock.
ReadJob(r) ==
    /\ At(r, "submit", "read")
    /\ LET q == request[r] IN
       \/ /\ job[q.job].status = "absent"
          /\ Refuse(r)
       \/ /\ job[q.job].status # "absent"
          /\ request' = [request EXCEPT ![r].pc = "company",
                                        ![r].open = Open(job[q.job], q.day)]
          /\ UNCHANGED <<data, lock, round>>

\* Mutant of LockCompany: the account is read without FOR UPDATE.
ReadCompany(r) ==
    /\ At(r, "submit", "company")
    /\ request[r].open /\ account[Owner[request[r].job]] # "blocked"
    /\ Proceed(r, "insert")
    /\ UNCHANGED <<data, lock, round>>

\* The company's account is locked, then read.
LockCompany(r) ==
    /\ At(r, "submit", "company")
    /\ LET q == request[r]
           company == Owner[q.job]
       IN \/ /\ q.open /\ account[company] # "blocked"
             /\ Acquire(r, company)
             /\ Proceed(r, "insert")
             /\ UNCHANGED <<data, round>>
          \/ /\ ~q.open \/ account[company] = "blocked"
             /\ Free(company)
             /\ Refuse(r)

\* Insert, notify the company, commit.  The foreign key waits for the job's lock,
\* and a pair that already has an application refuses a second one.
InsertApplication(r) ==
    /\ At(r, "submit", "insert")
    /\ LET p == <<request[r].who, request[r].job>> IN
       /\ Free(request[r].job)
       /\ \/ /\ application[p] = NoApplication
             /\ application' = [application EXCEPT ![p] = NewApplication("active")]
             /\ told' = [told EXCEPT ![p] = Append(@, "received")]
             /\ Finish(r)
             /\ UNCHANGED <<job, account, willing, today, pending, round>>
          \/ /\ application[p] # NoApplication
             /\ Refuse(r)

-------------------------------------------------------------------------------
\* A candidate leaves a process.

\* Any candidate, with the id of any application there is.
BeginWithdraw(r) == \E c \in Candidates, p \in Pairs :
    /\ application[p] # NoApplication
    /\ Begin(r, "withdraw", c, [op |-> "withdraw", pc |-> "lock", who |-> c, of |-> p])

\* Mutant of LockWithdrawal: no FOR UPDATE.
ReadWithdrawal(r) ==
    /\ At(r, "withdraw", "lock")
    /\ request[r].of[1] = request[r].who
    /\ application[request[r].of].status \in Active
    /\ Proceed(r, "write")
    /\ UNCHANGED <<data, lock, round>>

\* Mutant of LockWithdrawal: the look-up does not filter by candidate.
LockAnybodysWithdrawal(r) ==
    /\ At(r, "withdraw", "lock")
    /\ application[request[r].of].status \in Active
    /\ Acquire(r, request[r].of)
    /\ Proceed(r, "write")
    /\ UNCHANGED <<data, round>>

\* The application is looked up among the caller's own, locked, then checked.
LockWithdrawal(r) ==
    /\ At(r, "withdraw", "lock")
    /\ LET q == request[r]
           found == application[q.of] # NoApplication /\ q.of[1] = q.who
       IN \/ /\ found /\ application[q.of].status \in Active
             /\ Acquire(r, q.of)
             /\ Proceed(r, "write")
             /\ UNCHANGED <<data, round>>
          \/ /\ ~found \/ application[q.of].status \notin Active
             /\ found => Free(q.of)
             /\ Refuse(r)

Withdrawn(a) ==
    [status |-> "withdrawn", type |-> a.type, closed |-> TRUE, reason |-> a.reason]

WriteWithdrawal(r) ==
    /\ At(r, "withdraw", "write")
    /\ application' = [application EXCEPT ![request[r].of] = Withdrawn(@)]
    /\ Finish(r)
    /\ UNCHANGED <<told, job, account, willing, today, pending, round>>

-------------------------------------------------------------------------------
\* A company decides on an application.

\* Any company, with the id of any application there is.
BeginUpdate(r) ==
    \E k \in Companies, p \in Pairs, s \in CompanyStatuses, why \in BOOLEAN :
       /\ application[p] # NoApplication
       /\ s = "not_selected" => why        \* the request schema demands a reason
       /\ Begin(r, "update", k, [op |-> "update", pc |-> "application", who |-> k,
                                 of |-> p, want |-> s, reason |-> why])

\* Mutant of LockApplication: FOR UPDATE OF the job alone.
ReadApplication(r) ==
    /\ At(r, "update", "application")
    /\ application[request[r].of] # NoApplication
    /\ Owner[request[r].of[2]] = request[r].who
    /\ Proceed(r, "job")
    /\ UNCHANGED <<data, lock, round>>

\* Mutant of LockApplication: the look-up does not filter by company.
LockAnybodysApplication(r) ==
    /\ At(r, "update", "application")
    /\ Acquire(r, request[r].of)
    /\ Proceed(r, "job")
    /\ UNCHANGED <<data, round>>

\* One statement locks the application, then its job ...
LockApplication(r) ==
    /\ At(r, "update", "application")
    /\ LET q == request[r]
           found == application[q.of] # NoApplication /\ Owner[q.of[2]] = q.who
       IN \/ /\ found
             /\ Acquire(r, q.of)
             /\ Proceed(r, "job")
             /\ UNCHANGED <<data, round>>
          \/ /\ ~found
             /\ Refuse(r)

\* ... and the status is checked under both locks.
LockItsJob(r) ==
    /\ At(r, "update", "job")
    /\ LET q == request[r]
           status == application[q.of].status
       IN \/ /\ status \notin Terminal /\ q.want \in AllowedFrom(status)
             /\ Acquire(r, q.of[2])
             /\ Proceed(r, "write")
             /\ UNCHANGED <<data, round>>
          \/ /\ status \in Terminal \/ q.want \notin AllowedFrom(status)
             /\ Free(q.of[2])
             /\ Refuse(r)

\* Mutant of WriteUpdate: only hiring stamps the closing time.
WriteUpdateOpen(r) ==
    /\ At(r, "update", "write")
    /\ LET q == request[r] IN
       /\ application' = [application EXCEPT
              ![q.of].status = q.want, ![q.of].closed = q.want = "hired",
              ![q.of].reason = q.want = "not_selected"]
       /\ told' = [told EXCEPT ![q.of] = Append(@, q.want)]
    /\ Finish(r)
    /\ UNCHANGED <<job, account, willing, today, pending, round>>

\* Closing and the reason are only ever added.
Decided(a, want, why) ==
    [status |-> want, type |-> a.type,
     closed |-> a.closed \/ want \in {"hired", "not_selected"},
     reason |-> a.reason \/ (want = "not_selected" /\ why)]

\* The notification's foreign key waits for a lock on the candidate's account.
WriteUpdate(r) ==
    /\ At(r, "update", "write")
    /\ LET q == request[r] IN
       /\ Free(q.of[1])
       /\ application' = [application EXCEPT ![q.of] = Decided(@, q.want, q.reason)]
       /\ told' = [told EXCEPT ![q.of] = Append(@, q.want)]
    /\ Finish(r)
    /\ UNCHANGED <<job, account, willing, today, pending, round>>

-------------------------------------------------------------------------------
\* A company publishes, closes and reopens jobs.

\* The closing date is checked against the day of the request ...
BeginPublish(r) == \E j \in Jobs, closing \in Days :
    /\ job[j].status = "absent"
    /\ closing >= today
    /\ Begin(r, "publish", Owner[j], [op |-> "publish", pc |-> "insert", who |-> Owner[j],
                                      job |-> j, closing |-> closing])

\* ... and the job is inserted; its evaluation is queued after the response.  An id
\* that another request has used meanwhile is refused.
PublishJob(r) ==
    /\ At(r, "publish", "insert")
    /\ LET q == request[r] IN
       \/ /\ job[q.job].status = "absent"
          /\ job' = [job EXCEPT ![q.job] = [status |-> "published", closing |-> q.closing]]
          /\ pending' = pending \cup {q.job}
          /\ Finish(r)
          /\ UNCHANGED <<application, told, account, willing, today, round>>
       \/ /\ job[q.job].status # "absent"
          /\ Refuse(r)

BeginJobStatus(r) ==
    \E k \in Companies \ Bystanders, j \in Jobs, want \in {"closed", "published"},
       closing \in Days \cup {None} :
       /\ want = "closed" => closing = None
       /\ Begin(r, "job", k, [op |-> "job", pc |-> "lock", who |-> k, job |-> j,
                              want |-> want, closing |-> closing, day |-> today])

ClosingDate(q) == IF q.closing = None THEN job[q.job].closing ELSE q.closing
MayClose(posting) == posting.status \in Closable
MayReopen(posting, closing, day) ==
    /\ ~Open(posting, day)
    /\ posting.status \in Reopenable
    /\ closing >= day

\* Mutant of LockJob: the job is read without FOR UPDATE.
ReadJobToChange(r) ==
    /\ At(r, "job", "lock")
    /\ LET q == request[r] IN
       /\ Owner[q.job] = q.who
       /\ IF q.want = "closed" THEN MayClose(job[q.job])
          ELSE MayReopen(job[q.job], ClosingDate(q), q.day)
    /\ Proceed(r, "write")
    /\ UNCHANGED <<data, lock, round>>

\* The job is locked, then checked.
LockJob(r) ==
    /\ At(r, "job", "lock")
    /\ LET q == request[r]
           found == job[q.job].status # "absent" /\ Owner[q.job] = q.who
           may == IF q.want = "closed" THEN MayClose(job[q.job])
                  ELSE MayReopen(job[q.job], ClosingDate(q), q.day)
       IN \/ /\ found /\ may
             /\ Acquire(r, q.job)
             /\ Proceed(r, "write")
             /\ UNCHANGED <<data, round>>
          \/ /\ ~(found /\ may)
             /\ found => Free(q.job)
             /\ Refuse(r)

\* Closing keeps the closing date; reopening sets it.
WriteJob(r) ==
    /\ At(r, "job", "write")
    /\ LET q == request[r]
           closing == IF q.want = "closed" THEN job[q.job].closing ELSE ClosingDate(q)
       IN job' = [job EXCEPT ![q.job] = [status |-> q.want, closing |-> closing]]
    /\ Finish(r)
    /\ UNCHANGED <<application, told, account, willing, today, pending, round>>

-------------------------------------------------------------------------------
\* An administrator blocks or reactivates; a candidate changes a preference.

LockAccount(r) == \E u \in Users \ Bystanders, want \in {"active", "blocked"} :
    /\ "account" \in Offered
    /\ request[r] = Idle
    /\ account[u] # want
    /\ Acquire(r, u)
    /\ request' = [request EXCEPT ![r] = [op |-> "account", pc |-> "write",
                                          who |-> u, want |-> want]]
    /\ UNCHANGED <<data, round>>

WriteAccount(r) ==
    /\ At(r, "account", "write")
    /\ account' = [account EXCEPT ![request[r].who] = request[r].want]
    /\ Finish(r)
    /\ UNCHANGED <<application, told, job, willing, today, pending, round>>

ChangePreference == \E c \in Candidates :
    /\ "preference" \in Offered
    /\ account[c] = "active"
    /\ willing' = [willing EXCEPT ![c] = ~@]
    /\ UNCHANGED <<application, told, job, account, today, pending, lock, request, round>>

-------------------------------------------------------------------------------
\* Automatic applications.

\* A round rests once no job is left.
Continue(w, left) ==
    round' = [round EXCEPT ![w] =
                 IF left = {} THEN Resting ELSE [pc |-> "select", left |-> left]]

\* The daily round lists the jobs that are open as it starts.
StartRound(w) ==
    /\ w = Scheduler
    /\ "round" \in Offered
    /\ round[w] \in {Resting, Stopped}
    /\ Continue(w, {j \in Jobs : Accepting(j, today)})
    /\ UNCHANGED <<data, lock, request>>

\* The background task of a job just published.
StartTask(w) == \E j \in pending :
    /\ w # Scheduler
    /\ "round" \in Offered
    /\ round[w] \in {Resting, Stopped}
    /\ pending' = pending \ {j}
    /\ Continue(w, {i \in {j} : Accepting(i, today)})
    /\ UNCHANGED <<application, told, job, account, willing, today, lock, request>>

Eligible(c, j) ==
    /\ <<c, j>> \in Qualifies
    /\ account[c] = "active"
    /\ willing[c]
    /\ application[<<c, j>>] = NoApplication

\* Mutant of SelectCandidates: a job with nobody to apply ends the whole round.
SelectOrStop(w) ==
    /\ round[w].pc = "select"
    /\ \E j \in round[w].left :
          LET rows == {c \in Candidates : Eligible(c, j)}
          IN IF rows = {} THEN Continue(w, {})
             ELSE round' = [round EXCEPT ![w] = [pc |-> "insert", job |-> j,
                              left |-> round[w].left \ {j}, rows |-> rows]]
    /\ UNCHANGED <<data, lock, request>>

\* The professionals to apply to the next job are read; nothing is locked.
SelectCandidates(w) ==
    /\ round[w].pc = "select"
    /\ \E j \in round[w].left :
          LET left == round[w].left \ {j}
              rows == {c \in Candidates : Eligible(c, j)}
          IN IF rows = {} THEN Continue(w, left)
             ELSE round' = [round EXCEPT ![w] = [pc |-> "insert", left |-> left,
                                                 job |-> j, rows |-> rows]]
    /\ UNCHANGED <<data, lock, request>>

\* Mutants of InsertRows: ON CONFLICT DO UPDATE; a type the column does not have.
UpsertRows(w) ==
    /\ round[w].pc = "insert"
    /\ application' = [p \in Pairs |->
          IF p \in round[w].rows \X {round[w].job} THEN NewApplication("automatic")
          ELSE application[p]]
    /\ Continue(w, round[w].left)
    /\ UNCHANGED <<told, job, account, willing, today, pending, lock, request>>

InsertOtherType(w) ==
    /\ round[w].pc = "insert"
    /\ application' = [p \in Pairs |->
          IF p \in round[w].rows \X {round[w].job} THEN NewApplication("suggested")
          ELSE application[p]]
    /\ Continue(w, round[w].left)
    /\ UNCHANGED <<told, job, account, willing, today, pending, lock, request>>

\* ON CONFLICT DO NOTHING: whoever applied meanwhile keeps that application.
InsertRows(w) ==
    /\ round[w].pc = "insert"
    /\ Free(round[w].job)
    /\ LET new == {p \in round[w].rows \X {round[w].job} :
                      application[p] = NoApplication}
       IN application' = [p \in Pairs |->
             IF p \in new THEN NewApplication("automatic") ELSE application[p]]
    /\ Continue(w, round[w].left)
    /\ UNCHANGED <<told, job, account, willing, today, pending, lock, request>>

-------------------------------------------------------------------------------
\* Failures and time.

\* Any statement may raise, a lost connection included.
Abort(r) == request[r] # Idle /\ Refuse(r)

FailRound(w) ==
    /\ round[w] \notin {Resting, Stopped}
    /\ round' = [round EXCEPT ![w] = Stopped]
    /\ UNCHANGED <<data, lock, request>>

\* The process dies: transactions roll back and queued evaluations are forgotten.
Crash ==
    /\ "crash" \in Offered
    /\ request' = [r \in Requests |-> Idle]
    /\ round' = [w \in Rounds |-> Stopped]
    /\ lock' = [x \in Rows |-> None]
    /\ pending' = {}
    /\ UNCHANGED <<application, told, job, account, willing, today>>

NextDay ==
    /\ today < LastDay
    /\ today' = today + 1
    /\ UNCHANGED <<application, told, job, account, willing, pending, lock, request, round>>

Arrive(r) == \/ BeginSubmit(r) \/ BeginWithdraw(r) \/ BeginUpdate(r)
             \/ BeginPublish(r) \/ BeginJobStatus(r) \/ LockAccount(r)

Step(r) == \/ ReadJob(r) \/ LockCompany(r) \/ InsertApplication(r)
           \/ LockWithdrawal(r) \/ WriteWithdrawal(r)
           \/ LockApplication(r) \/ LockItsJob(r) \/ WriteUpdate(r)
           \/ PublishJob(r) \/ LockJob(r) \/ WriteJob(r) \/ WriteAccount(r)

Advance(w) == SelectCandidates(w) \/ InsertRows(w)

Next ==
    \/ \E r \in Requests : Arrive(r) \/ Step(r) \/ Abort(r)
    \/ \E w \in Rounds : StartRound(w) \/ StartTask(w) \/ Advance(w) \/ FailRound(w)
    \/ ChangePreference \/ Crash \/ NextDay

Spec == Init /\ [][Next]_vars

\* Threads keep running and a row lock is granted in turn; the scheduler thread
\* starts round after round, and failures and restarts do not stop it for ever.
Fairness ==
    /\ \A r \in Requests : SF_vars(Step(r))
    /\ WF_vars(StartRound(Scheduler)) /\ SF_vars(Advance(Scheduler))
    /\ <>[](round[Scheduler] # Stopped)

FairSpec == Spec /\ Fairness

-------------------------------------------------------------------------------
\* Properties.

ReadsHold(r) ==
    LET q == request[r] IN
    /\ At(r, "submit", "insert") =>
          lock[Owner[q.job]] = r /\ account[Owner[q.job]] # "blocked"
    /\ At(r, "withdraw", "write") =>
          lock[q.of] = r /\ q.of[1] = q.who /\ application[q.of].status \in Active
    /\ At(r, "update", "job") =>
          lock[q.of] = r /\ Owner[q.of[2]] = q.who /\ application[q.of] # NoApplication
    /\ At(r, "update", "write") =>
          /\ lock[q.of] = r /\ lock[q.of[2]] = r
          /\ Owner[q.of[2]] = q.who /\ q.want \in AllowedFrom(application[q.of].status)
    /\ q.op = "update" => (q.want = "not_selected" => q.reason)
    /\ At(r, "job", "write") =>
          /\ lock[q.job] = r /\ Owner[q.job] = q.who
          /\ IF q.want = "closed" THEN MayClose(job[q.job])
             ELSE MayReopen(job[q.job], ClosingDate(q), q.day)
    /\ At(r, "account", "write") => lock[q.who] = r /\ account[q.who] # q.want

\* Whatever a request checked under a row lock still holds when it writes: the
\* read-check-write of withdrawing, deciding, reopening and blocking is atomic
\* although other requests commit in between (withdraw_application.py:38-41).
LockedReadsHold == \A r \in Requests : ReadsHold(r)

Consistent(a) ==
    a # NoApplication =>
       /\ a.type \in {"active", "automatic"}
       /\ a.status \in {"under_review", "in_selection_process", "hired",
                        "not_selected", "withdrawn"}
       /\ a.closed <=> a.status \in Terminal
       /\ a.reason <=> a.status = "not_selected"

\* An application is closed exactly in an end status, carries a reason exactly
\* when the company turned it down, and never reaches `applied' or `expired'.
RecordConsistent == \A p \in Pairs : Consistent(application[p])

\* What the notifications about an application may say, by its status.
Stories(status) ==
    CASE status = "in_selection_process" -> {<<"in_selection_process">>}
      [] status = "hired" -> {<<"in_selection_process", "hired">>}
      [] status = "not_selected" -> {<<"not_selected">>,
                                     <<"in_selection_process", "not_selected">>}
      [] status = "withdrawn" -> {<<>>, <<"in_selection_process">>}
      [] OTHER -> {<<>>}

\* The notifications queued about an application tell its whole history and
\* nothing else: one to the company when a candidate applied, one to the candidate
\* per decision, none about an automatic application, a withdrawal, or a decision
\* that was rolled back.
ToldWhatHappened == \A p \in Pairs :
    LET start == IF application[p].type = "active" THEN <<"received">> ELSE <<>>
    IN told[p] \in {start \o story : story \in Stories(application[p].status)}

Applies(p, type) ==
    application[p] = NoApplication /\ application'[p] = NewApplication(type)

\* A candidate's own application never commits while the job's company is
\* blocked, however the block and the submission interleave
\* (docs/APPLICATIONS.md: the company row is locked before that check).
NoSubmissionWhileBlocked ==
    [][\A p \in Pairs : Applies(p, "active") => account[Owner[p[2]]] # "blocked"]_vars

\* An application is withdrawn by a request of its own candidate, and decided on by
\* one of the company that owns the job, whoever else asks for it with its id and
\* whatever else commits (withdraw_application.py:54, update_application_status.py:96).
OnlyThePartiesAct ==
    [][\A p \in Pairs :
         application[p] # NoApplication /\ application'[p] # application[p] =>
           \E r \in Requests :
              /\ request[r].op \in {"withdraw", "update"} /\ request'[r] = Idle
              /\ request[r].of = p
              /\ \/ /\ application'[p].status = "withdrawn"
                    /\ request[r].op = "withdraw" /\ request[r].who = p[1]
                 \/ /\ application'[p].status \in CompanyStatuses
                    /\ request[r].op = "update" /\ request[r].who = Owner[p[2]]]_vars

\* Reopening never moves the closing date of a job that is open: of two
\* requests that reopen it at once, the second finds it open.
ReopeningNeverMovesAnOpenJob ==
    [][\A j \in Jobs : Open(job[j], today) => job'[j].closing = job[j].closing]_vars

Lifecycle == INSTANCE ApplicationLifecycle

\* Every behaviour is one the abstract life cycle allows: an application appears
\* once, moves forward, ends once, and is never revived by a late request or an
\* automatic round.
LifecycleHolds == Lifecycle!LSpec

\* No request waits for a row lock for ever, each thread is idle again and again: the
\* order in which the handlers lock applications, jobs and accounts has no cycle, and
\* every path frees them.
EveryRequestEnds == \A r \in Requests : []<>(request[r] = Idle)

\* A professional who stays eligible for a job that stays open ends up with an
\* application, even if the background task of the new job was lost.
EligibleEventuallyApplied == \A p \in Qualifies :
    <>[](/\ Accepting(p[2], today) /\ account[p[1]] = "active" /\ willing[p[1]])
       => <>(application[p] # NoApplication)

\* docs/APPLICATIONS.md: the job must be open when a candidate, or an automatic
\* round, applies to it.
AppliesOnlyToOpenJobs ==
    [][\A p \in Pairs, type \in {"active", "automatic"} :
         Applies(p, type) => Accepting(p[2], today)]_vars
===============================================================================
