# Formal models of seniors-empregabilidade-backend

The backend matches professionals with jobs: people and companies register,
companies publish jobs, professionals apply or are applied automatically, and
everybody is told by in-app notifications and e-mail. It is a FastAPI
application over PostgreSQL (READ COMMITTED, `autoflush=False`), with handlers
that run in a thread pool and two daemon threads started by `main.py`'s lifespan
(`EmailDispatcher` and `AutomaticApplicationScheduler`). Amazon SES, Cognito and
S3 are called from inside transactions they take no part in. What is hard here is
therefore not the algorithms but **concurrent transactions**, **calls that happen
although the transaction does not, or the other way round**, and **restarts**.

Paths below are relative to `src/app/` unless they start with `docs/`.

## 1. Inventory

| Component | State | Operations | Must be true |
|---|---|---|---|
| Applications (`applications/services`) | `application` rows, one per candidate and job | submit, withdraw, company decision | one application per pair; it moves forward, ends once, and is never revived; only the parties act; every change notified once |
| Automatic applications (`generate_automatic_applications.py`, `automatic_application_scheduler.py`) | the round in progress (memory) | daily round, background task of a new job | never overwrites an application; a professional who stays eligible gets one although tasks are lost |
| Jobs (`jobs/services`) | `job` status and closing date | publish, edit, close, reopen, search, list | checks made under a lock hold at the write; reopening never moves an open job |
| Account management (`account_management/`) | `app_user.account_status`, audit `event` | block, reactivate, list, export | a blocked company receives no applications from candidates; the log tells the status |
| Notifications and outbox (`notifications/`) | `notification`, `email_delivery` | notify, claim, send, record, page, mark read | at-least-once e-mail; two dispatchers never send one row; what is settled is not sent again |
| E-mail senders (`email/`) | none | `send` | an error says that the message was not accepted |
| Certification documents (`certification_documents.py`, `storage/`) | `attached_certificate` rows, S3 objects | add, attach, replace, remove | a row's object exists; an object without a row is only left by a failure |
| Registration (`register_company.py`, `register_professional.py`) | `app_user` + `company`/`candidate` rows, Cognito identities | register, confirm, retry | one account per address and document; no identity is taken over; a retry finds its way |
| Résumé records (`experiences.py`, `education.py`, `certifications.py`, `resumes.py`) | résumé rows with a period | add, update, remove | a period never ends before it begins; one résumé per candidate |
| Skills (`skills/`, `candidates/services/skills.py`) | catalogue and links | find or create, rename, deactivate, link | one row per name; creators do not deadlock; a selection is replaced as a whole |
| Company review and profile (`companies/services`) | `company.status`, its address row | review, edit, read the status | decided once; a rejection is explained; no address without its company |
| Contacts (`contacts/`) | `contact_request`, a notification | contact a professional listed for a job | neither account is blocked when the contact commits |
| Notification inbox (`notifications/services`) | cursors held by clients | page, count, mark one or all as read | a walk repeats nothing and misses nothing that was there when it began |
| Authentication (`auth/`), identity (`identity/`) | none / Cognito | authenticate, authorise, reset a password | role and status are read once, when a request begins |
| Job search, compatibility, indicators, exports, lists | none | read-only queries, a score | the score and its order; a rule written twice says the same twice |
| Schema, migrations and seed (`alembic/versions/`, `scripts/`) | the schema and its revision | upgrade, downgrade, seed, link | what people saved survives; the seed completes and overwrites nothing |
| HTTP plumbing | configuration | | |

How they interact. Handlers share nothing in memory; they meet in PostgreSQL,
through row locks (`SELECT ... FOR UPDATE`), unique columns and foreign keys. A
business transaction writes its notification and its e-mail (`notify_user`) in the
same commit; the dispatcher thread picks the e-mail up later. Publishing a job
queues its automatic evaluation in memory, after the response. Blocking an account
is seen by other requests when they begin, and by a submission again under a lock
on the company's row.

The hazards, each at its line, are listed in `PROJECT.json` ("hazards") with the
properties that cover it, or the reason why none does.

## 2. Modules

| Module | Models |
|---|---|
| `ApplicationLifecycle` | abstract: what may happen to an application |
| `Applications` | applications, job status, account status and automatic rounds, as concurrent transactions |
| `ApplicationsProofs` | theorems about it |
| `EmailPromise` | abstract: an e-mail is settled once, sent only if accepted, failed only after every try |
| `EmailOutbox` | the dispatchers of `email_delivery` |
| `EmailOutboxProofs` | theorems about it |
| `CertificateDocuments` | the documents of certifications, in a table and a bucket |
| `CertificateDocumentsProofs` | theorems about it |
| `RegistrationPromise` | abstract: who may open which account |
| `Registration` | the two registrations, the rows, the identity and the commit |
| `RegistrationProofs` | theorems about it |
| `SkillCatalog` | the catalogue of skills under companies that post and administrators that edit |
| `Resumes` | extends it with the résumés that link its skills, and their records with a period |
| `ResumesProofs` | theorems about both |
| `Ordering` | operators: rows in an order, as `ORDER BY`, `LIMIT`, `sorted` and filters give them |
| `OrderingProofs` | theorems about them |
| `Compatibility` | operators: the score of a professional for a job, its ranking and thresholds; when a résumé is complete |
| `Contacts` | company review and profile, account status, listing applicants and contacting them, as concurrent transactions |
| `ContactsProofs` | theorems about it |
| `NotificationInbox` | pages of notifications under producers and marks |
| `Directory` | the searches, lists, indicators and exports, statement by statement |
| `Schema` | operators: the tables and their foreign keys |
| `SchemaHistory` | the migrations up and down, between writes of the program |
| `SeedData` | the seed and the linking of its accounts, run again and again |
| `Services` | composes `Contacts`, `NotificationInbox`, `Directory`, `SchemaHistory` and `SeedData`, each in an area of its own |
| `ServicesProofs` | theorems about the last four and about the composition |
| `MCServices`, `MCApplications`, `MCCertificateDocuments`, `MCRegistration`, `MCResumes` | constants for TLC; symmetry where the properties checked are safety only |
| `MCResumesHistory` | `Resumes` with the history of the skills withdrawn from a résumé |

`Resumes` composes with `SkillCatalog`: a link waits for the row lock of an
administrator, and what a request read of a skill may change before its link is
written. `Contacts` and `Directory` extend `Compatibility`, `SchemaHistory` and
`SeedData` extend `Schema`. Whatever is arranged (pages, ranks, the array that a
downgrade aggregates from the links) uses `Ordering`. The other concrete modules are independent: each closes over the tables its
operations read and write. The outbox begins where `notify_user` ends;
`Applications` keeps in `told` the notifications its handlers queue.

### How transactions are modelled

A request is a record in a function over threads, with a program counter (`pc`)
and what it carries between statements. Each statement that reads or locks is an
action that sees what is committed at that moment. `SELECT ... FOR UPDATE` is
enabled only while nobody else holds the row in `lock`, and the checks that follow
it belong to the same action, because no other transaction can touch the row in
between. The writes of a transaction become visible in one action, the commit,
which also frees its locks: at READ COMMITTED nobody sees them before. A statement
that only needs a foreign key (`FOR KEY SHARE`) waits for a row lock to be free but
takes none: it conflicts only with `FOR UPDATE`, and it is followed by the commit at
once.

### `Applications`

| Definition | Code |
|---|---|
| `BeginSubmit`, `ReadJob`, `LockCompany`, `InsertApplication` | `submit_application`: the job is read without a lock, the company's `app_user` row is locked, then one insert and its notification commit |
| `BeginWithdraw`, `LockWithdrawal`, `WriteWithdrawal` | `withdraw_application` |
| `BeginUpdate`, `LockApplication`, `LockItsJob`, `WriteUpdate` | `update_application_status`; its statement locks two tables, one row after the other |
| `BeginPublish`, `PublishJob`; `BeginJobStatus`, `LockJob`, `WriteJob` | `publish_job`: the closing date is compared with the day of the request, then the job is inserted; `change_job_status` |
| `LockAccount`, `WriteAccount` | `change_account_status` |
| `ChangePreference` | `update_profile`, its switch for automatic applications |
| `StartRound`, `StartTask`, `SelectCandidates`, `InsertRows` | the daily round; a new job's task; the two transactions of `_apply_to_job` |
| `Abort`, `FailRound`, `Crash`, `NextDay` | an exception in a request; one in a round; a restart; the calendar |

Abstractions. Whether a candidate's skills reach the automatic threshold is the
constant `Qualifies`. `willing` is "available and accepts automatic applications".
A round takes its jobs in any order (the code takes them by publication). Every
account starts active and every job absent. The reason of a rejection is present or
not. `closed_at`, `published_at` and `updated_at` are kept only as "closed or not".
Nothing in the code writes the status `suspended`, nor an application's `applied` or
`expired`; the checks that mention them are modelled, and `RecordConsistent` says that
they are never reached. A multi-row insert is atomic. The id in a request is that of an
application that exists, anybody's (with any other the answer is a 404 that changes
nothing), so a company may name an application to another's job and a candidate another
candidate's. `Bystanders` are users that do only that; it bounds what a run explores.
`publish_job` compares with the date of the process (`date.today()`) where other handlers
take the local date: the model has one calendar. The skills that a post finds or creates
are in `SkillCatalog`.

### `EmailOutbox`

`delivery[d].due` is the number of minutes until `next_attempt_at`, so that time is
relative and finite. `Claim` picks the row that has been due longest and is not
locked (`FOR UPDATE SKIP LOCKED`), ties in any order. `Send` may accept the message
and still raise, as `SesEmailSender` does on a read timeout. `Disconnect` is the
database dropping a connection while its dispatcher is sending, which frees the row
for another. `Tick` stops once a row or a claim is `MaxLate` minutes overdue, a
bound on how late the system may run. `sent_at` and `last_error` are left out. A call is
one `send`. The client of SES may repeat the request inside it (`total_max_attempts: 2`,
`email/integrations/ses.py:23`), so a call that counts once here may reach SES twice: two
copies, which at-least-once allows, of one recorded attempt.

### `CertificateDocuments`

`Put` stores an object under a new key, `CommitAttach` names it in a row and hands
the object it replaces to `Clean`; `CommitDetach` serves the removal of a document
and of its certification. `Faults` says what may go wrong: the storage refuses,
or stores and answers too late; the commit fails; the commit is applied and its
answer lost; the connection is dropped, and with it the lock; the process dies. A
lock is a *set* of requests, so that a mutant that forgets to lock is a state and
not a blocked action. The history variables `doubtful` and `abandoned` record which
keys met a failure. The dates of a certification, and the refusal of a file by its
type or size, change nothing here.

### `Registration`

The two handlers take the same steps, so one module serves both; a document is a
CNPJ or a CPF. A person stands for the password they type, and an identity remembers
who created it (`owner`). A uniqueness conflict is decided at the insert, which waits
while another transaction holds the same value uncommitted. The identity's subject is
that of its address, so its unique column can only repeat what the address's column
says. What is refused before the first insert (a malformed document, a blocked
segment, a minor) is never begun. Accounts are never deleted, as in the code. Password
resets are Cognito's and not modelled.

### `SkillCatalog` and `Resumes`

| Definition | Code |
|---|---|
| `BeginPost`, `InsertName`, `ResolveNames`, `LinkJob` | `publish_job` and `update_job`: `find_or_create_skills` inserts the missing names in order with `ON CONFLICT DO NOTHING`, then reads all of them; `set_job_skills` and the commit |
| `CreateSkill`; `LockSkill`, `UpdateSkill`, `RenameSkill` | the administrators' `create_skill` and `update_skill` |
| `AddSkill`, `AddRecord`, `AddSummary`; `ReadResume`, `CreateResume`, `SaveSkill`, `SaveRecord` | `add_skill`, the three `add_*` of records and the summary of `update_profile`; all call `get_or_create_resume` |
| `ReadSkills`, `LockCandidate`, `CheckKept`, `DeleteLinks`, `InsertLinks` | `replace_skills`, statement by statement |
| `FindLink`, `RemoveSkill`; `ReadRecord`, `UpdateRecord`; `RemoveRecord` | `remove_skill`; the three `update_*`; the three `remove_*` |
| `Abort`, `AbortCatalog` | a failed statement, or the victim PostgreSQL picks in a deadlock |

What a transaction has inserted or is renaming and has not committed is in its
request (`made`, `pc = "index"`): `Holds` says which names other inserts must wait for.
`by` marks the links that one selection's transaction wrote; it is a history variable,
as is `gone`, a removal whose row was deleted by someone else after it was read.
A name is a number, so that the order in which the code sorts names is `<=`.

Abstractions. The links of a job are not kept, since nothing here reads them. The last
insert of a transaction and its commit are one action. The insert of a résumé row is
merged with the check of its foreign key, which waits for the candidate's lock, and in
`replace_skills` `LockCandidate` is also the `get_or_create_resume` that follows the lock;
where that insert meets another's row (`IntegrityError`, `candidates/services/resumes.py:16`)
the request ends as in `Abort`.
An experience always has its beginning, so its periods are a subset of `Periods`. Rows
of somebody else are 404s that change nothing and are never begun.

### `Compatibility`

`Score` splits the required skills into matched and missing; `Percentage` is in
hundredths and rounds half up, as `ROUND_HALF_UP` does; `Reaches` compares the exact
ratio, so that a percentage rounded up to a threshold does not pass it. `Rank` is the
stable sort of `rank`. `MissingResumeFields` is the rule in Python, `ResumeIsComplete`
the one in SQL.

### `Contacts`

| Definition | Code |
|---|---|
| `AskContact`, `LockAvailableCompany`, `ReadApplicants`, `ReadMatches`, `ReadResumeSkills`, `LockAvailableProfessional`, `SendContact` | `contact_professional`: the company's account `FOR SHARE`, the listing it calls, the professional's account `FOR SHARE`, the insert |
| `AskList`, then the same three reads, `Finish` | `list_job_applicants` by itself |
| `AskReview`, `LockCompanyForReview`, `ReviewCompany` | `review_company` |
| `AskStatus`, `ReadCompanyStatus` | `get_company_status`: the status, then the reason of a rejection |
| `AskProfile`, `FindCompanyForUpdate`, `UpdateCompanyProfile` | `update_company_profile` |
| `AskChange`, `LockAccount`, `ChangeAccountStatus` | `change_account_status` with its event |
| `Apply`, `EditResume` | what professionals commit meanwhile, each in one step |

A call remembers the rows it locked (`shared`, `owned`, `held`), and a statement that
locks is enabled when nobody holds the row in a conflicting mode. An application of a
professional is one step here and several in `Applications`: the listing sees only what
has committed. Of a profile only the address is told apart, since it is a row of its
own; a company without one is an instance's choice (`Unaddressed`), as the foreign key
allows. `known` is a history variable: the professionals that belonged on a list at
every moment since the list began.

### `NotificationInbox`

`BeginNotice` dates a row by the start of its transaction and `EndNotice` commits it or
not, so rows appear out of the order of their dates. `ListMyNotifications` and
`CountUnread` are the two statements of a page, `NextPage` follows its cursor, and
`MarkNotificationAsRead` and `MarkAllNotificationsAsRead` come between them. A row that
commits behind the cursor is missed by the walk, which `docs/NOTIFICATIONS.md` accepts
("Decisions"): the property promises only what was there when the walk began.

### `Directory`

Each view (`SearchJobs`, `ListMyApplications`, `ListCompanyJobs`, `ListProfessionals`,
`ListAccounts`, `GetAccount`, `GetPlatformIndicators`, `ExportAccounts`) takes its
statements one by one into `got`; the `Edit...` actions, `MovePipeline`,
`RecordGuidance` and `PassDate` commit between them. `disturbed` records whether
anything did. Three kinds of statement are kept apart: what holds in every state
because two rules agree (`RulesAgree`), what holds of a view whatever commits while it
is read (`ViewsHold`), and what holds only of a view nothing disturbed
(`UndisturbedViewsAgree`). Texts are absent, blank or given; the search term, wages and
the layout of a file are left out. `ListMyApplications` asks for the suggestions of each
application that was not selected in a statement of its own, in any order. The accounts
listed and shown are those of candidates: a company's account, with the number of its
published jobs (`get_account.py:111`), is left out, and so are the filters by range of
completion (`list_accounts.py:107-114`). An application here is only "applied" or "not
selected", the two that the views tell apart.

### `Schema`, `SchemaHistory` and `SeedData`

`Schema` lists the tables in the order of the `create_table` calls with what each
refers to. `SchemaHistory` has the revisions as the graph of `Parents`, and the data
each of them touches: the arrays of skill identifiers that became join tables, the
spellings of the catalogue that were normalized, the baseline skills, the proofs of
certifications. `UpgradeRefuses` and `DowngradeRefuses` are the revisions that raise. A
command runs any number of revisions in one transaction (`alembic/env.py`), and a
refusal or a lost connection undoes them all. The program writes only between
commands, as where the instructions run them (`docs/APPLICATIONS.md`, before the server
is started); what a write during a migration would do is not modelled.
Downgrading and upgrading again loses opt-outs from automatic applications and the
links to proofs, as the revisions say; the model loses them too and no property
promises them. `recorded` is a history variable, the skills that were last saved.

`SeedData` has the statements of `seed_database` in their order, each `ON CONFLICT DO
NOTHING`, and the linking of the test accounts to their identities, which calls the
provider inside a transaction it takes no part in. `docs/ARCHITECTURE.md` calls the
seed "idempotent and non-destructive". People remove, replace, claim and edit rows
between two seeds.

### `Services`

`Contacts`, `NotificationInbox`, `Directory`, `SchemaHistory` and `SeedData` share no
state, so nothing is learnt from interleaving them. A behaviour chooses an `area` at
first and stays in it: one run explores the sum of the five state spaces and not their
product. `MCServices` gives it the constants of an instance. That nothing is lost is a
theorem: the composition implements the specification of each of the five
(`ServicesAreIndependent`).

### `Ordering`

An order is a relation, strict and total on the set it arranges. `InOrder` puts each
element in the place that has as many places before it as the element has others before
it; `First` is `LIMIT`, `Filter` keeps the members of a set and their order. `ORDER BY
created_at DESC, id DESC`, the stable `sorted(..., key=-percentage)` of the rank and the
page of a search are instances, each with the order its code names.

## 3. Runs

| Run | Instance | Shows |
|---|---|---|
| `applications_requests` | 2 requests, one job, its company and one candidate that applies, a company and a candidate with nothing of their own, two days, no round | the row locks keep every check true until its write; only the parties act; notifications tell the whole history; the abstract life cycle is implemented; nobody waits for ever |
| `applications_rounds` | the daily round, one background task, one request, two jobs, restarts | rounds never revive or duplicate; whoever stays eligible is applied |
| `applications_closed_job` | 2 requests and the round | *violation*, see Findings |
| `outbox_dispatch` | 2 dispatchers, a delivery with and one without e-mail, 3 tries, 2 failures | exclusive claims, accounted calls, the promise, and that everything settles |
| `outbox_refused` | 1 dispatcher, 1 delivery, no failure but unanswered calls | *violation*, see Findings |
| `documents_faults` | 2 requests, 2 certifications, 3 keys, every fault | rows and objects agree up to recorded failures |
| `documents_answer` | 1 request, 1 certification, lost commit answers | *violation*, see Findings |
| `registration_attempts` | 2 people whose forms meet in an address or a document, 2 threads, 2 failures | conflicts are decided before the provider is called; the promise; a retry succeeds |
| `resumes_editing` | 2 requests (symmetric), one candidate, two names, skills and dates, a record | names and links unique, no deadlock of creators, selections whole, periods broken only by overlapping edits |
| `resumes_periods` | 2 requests, one record | *violation*, see Findings |
| `resumes_withdrawn` | 2 requests, no record, with the history | *violation*, see Findings |
| `services` | five areas: 2 callers (symmetric) making 3 calls, one company and job, 2 professionals, 3 skills; 3 notifications of 2 users, 1 client, pages of 1; 2 jobs and 2 candidates, 1 viewer, 2 commits; 2 commands of Alembic and 2 writes between them; 2 seeds and 2 uses of their rows | no contact with a blocked account; the log tells each status; decisions and edits of a company behave as one after the other; lists name everybody once and in order; walks are complete; rules written twice agree; migrations and seeds keep what people saved |

Why the bounds are enough. The properties relate one application, delivery,
certification or address to the requests that touch it; two requests are the least
that race. In `applications_requests` the second is enough also to act between two
steps of the first, whatever its operation; a round beside them is in
`applications_closed_job`. The bystanders there, a company and a candidate, are enough for
somebody who is not a party to ask with the id of the one application. In `services` a third call may follow when one of the two has
ended: a contact, a block and the call that meets what they left. Three skills tell
a share below the half that makes a match from one above it, and the job of two skills
in `Directory` is met by exactly the half. Three notifications are two pages of one user,
whose rows tie in their date or commit late, and a row of somebody else. One viewer and
two commits are a view put together from three states of the database. Two commands are
an upgrade and the downgrade that follows it, in any number of revisions each. Two days
tell an open job from an expired one and a reopening with a later date from one
without. Three tries tell the first failure, a repeated one and the last. Two
failures allow one while another is being recovered from. Three keys let a document
be replaced twice. The theorems hold for every size.

No run turns deadlock checking off: requests can always begin, and where a bound on
them is reached (`CallsEnded`, `RunsEnded`, `SeedsEnded`) the model says so and stays.

### Fairness

- `Applications`: a statement that can be executed infinitely often is
  (`SF` per request), because PostgreSQL grants row locks in the order of arrival;
  the scheduler loops for ever (`_loop` catches every exception), its round advances
  although row locks make it wait, and it does not end in an exception or a restart
  each and every time (`<>[](round[Scheduler] # Stopped)`): nothing could be promised
  otherwise. Background tasks are *not* fair: they are lost at a restart.
- `EmailOutbox`: `WF` of each dispatcher's next step and of time. Failures are bounded
  by `MaxFaults`; a refusal is no failure and needs no bound, since tries are counted.
- `Registration`: handlers run, a waiting insert is woken when the transaction it
  waits for ends (`SF`), and people do what the documentation asks of them: they enter
  the code and submit the form again. Without those two nothing would ever be retried.
- `CertificateDocuments`, `Resumes` and the modules of `Services` state no fairness:
  their properties are about safety only.

## 4. What is proved

TLAPS checks these for every number of users, jobs, requests, dispatchers, keys and
failures, from the assumptions on the constants stated in each module.

- **`ApplicationsProofs`**: `TypeOK`; `LockedReadsHold`; `RecordConsistent`;
  `NoSubmissionWhileBlocked`; `OnlyThePartiesAct`; `LifecycleHolds` (the
  implementation of `ApplicationLifecycle`); `ToldWhatHappened`;
  `ReopeningNeverMovesAnOpenJob`. The invariant is `TypeOK /\
  LockedReadsHold /\ RecordConsistent`. `LockedReadsHold` is what makes it inductive: it
  says, for each program counter past a lock, that the row is held and that what was
  read in it is still so. The proof goes by the frame: a request that commits writes
  only rows it holds, so nobody else's reads are disturbed. The action properties then
  follow from the invariant at the one action that could break them. `OnlyThePartiesAct`
  speaks of any company and any candidate: who changes an existing application is its
  candidate or the owner of its job, by a request that named it.
  `ToldWhatHappened` rests on the life cycle: the notifications of an application are one
  of a few tales, each step of the life cycle continues the tale it is in, and so the
  tale and the status always agree. `ReopeningNeverMovesAnOpenJob` needs that a request's
  day is never later than the present one (`DaysPassed`), so that a job that had expired
  when its row was locked has expired when it is written.
- **`EmailOutboxProofs`**: `TypeOK`, `ClaimsHold`, `OneSenderAtATime`,
  `SettledIsNotSent`, `KeepsPromise`. The invariant is the types and `ClaimsHold`: a row
  whose lock a dispatcher holds is the one it claimed, pending, with tries left. A
  dispatcher that lost its row is caught by `lock[d] # w` and `faults > 0`.
  `EveryCallIsAccounted` counts dispatchers (`CallsCounted`): the calls made for a
  delivery are its recorded attempts, the interrupted ones and one for each dispatcher
  that is `Waiting` to record; the interrupted ones and the `Strays`, dispatchers that
  work without the lock they claimed with, are no more than the failures. A step changes
  what one dispatcher adds to each count.
- **`CertificateDocumentsProofs`**: `TypeOK`, `DocumentsAreStored`,
  `OrphansHaveACause`. The invariant adds three facts: a request past its lock holds it
  unless its connection dropped (`LocksHold`), no key is in two hands (`KeysApart`), and
  a key about to be deleted is in no row or is in doubt (`CleansGone`).
- **`RegistrationProofs`**: `TypeOK`, `NoLateConflict`, `OrphansAreReported`,
  `KeepsPromise`. The invariant joins the exclusion between uncommitted rows with the
  fact that whoever is about to link an identity owns it.

- **`ResumesProofs`**: `TypeOK`, `NamesAreUnique`, `CreatorsNeverDeadlock`,
  `LinksAreUnique`, `SelectionIsOneRequests`, `PeriodsBreakOnlyByOverlap`. Uniqueness is
  not inductive by itself: it needs that uncommitted rows differ from the committed ones
  and from one another (`RowsAreApart`), that a locked skill belongs to an update
  (`LocksAreUpdates`) and that a post has inserted only names below the next one
  (`InsertedInOrder`). The deadlock theorem follows from the last: in a circle each
  request's next name is smaller than that of the one it waits for, so the sets of
  requests above each would shrink for ever, against the well-foundedness of strict
  inclusion on a finite set. Selections need that one replacement at a time is past its
  lock, and that what it will not delete was added singly (`ReplacementsTakeTurns`).

- **`ContactsProofs`**: `ContactTypeOK`, `CompanyChangesAreSerial`,
  `OnlyAvailableAccountsMeet`, `AuditLogIsTrue`. The invariant `CallsInv` says what a call
  carries at each statement (`Shape`), which rows it has locked there (`Locks`), that
  what it read of a locked row is still so (`Reads`) and that no two calls hold a row in
  modes that conflict (`Apart`). `DecidedOnce` and `AddressesAreOwned` are part of it,
  because a decision is written on what was read under the lock. The log is proved from
  that: an event is appended with the status read under the lock of the account, which
  is the status of its last event.

  `ListsEveryProfessionalOnce` adds `ListInv`, in three layers. `RankedListHolds` says
  what `_ranked_list` computes from any applicants, candidates and skills, and rests on
  `InOrderLists`, `FilterKeeps` and `PercentageGrows`. `ListInv` says of a listing at each
  of its statements that whoever is in `known` is among what it has read or has applied
  since. A professional has one application for a job, so the applicants and the
  candidates among whom the automatic matches are looked for never meet.
  `PercentageGrows` is the one place where a number matters: two percentages that differ
  by one skill stay apart when they are rounded to two places, because a job requires at
  most `MostSkills` = 100 skills (`jobs/schemas/job.py`), so the assumption on `Required`
  states that bound.

- **`OrderingProofs`**: `InOrderLists` (every element of a finite set once, in its order)
  and `FilterKeeps`. There is no induction over the length of a list: the elements before
  `x` are counted. Smaller elements have fewer before them, so the count is one-to-one
  from the set into `0..Cardinality(S) - 1`, and a one-to-one map between finite sets of
  the same size reaches every place.

- **`ServicesProofs`**, one section for each service and one for their composition:
  - *Inbox*, `WalksAreComplete`. The invariant says, between two pages, that what was
    served is not after the cursor and that what is due was served or is after it; after
    the last page nothing is left after the cursor. A page is the first rows of
    `InOrder`, which has every row of a finite set: finitely many have been written at any
    time, whatever `Notes` is (`WrittenNotes`).
  - *Seed*, `SeedTypeOK` and `SeedIsWhole`. The invariant is stronger than what holds
    between seeds: at every moment of one, a row that is present has the rows it refers
    to (`Closed`), now and in the state the seed began with. Rows are added after the ones
    they refer to, and what people remove takes along what refers to it. `SeedFits` checks
    the references of every row against the tables of the head of `SchemaHistory`.
  - *Migrations*, `HistoryTypeOK`, `SelectionsSurvive`, `CatalogStaysWhole` and
    `TablesFit`. The invariant says that the database is sound, and the one to which a
    command would roll back, and that both keep what was recorded, in arrays or in join
    tables as their revision has it (`IsSound`, `Keeps`). Soundness is one lemma per
    revision and direction: the revisions applied contain the parents of each, the tables
    are those that they create, normalized names are keys, and links are to skills.
    The orders in which the graph can be climbed are not enumerated.
  - *Directory*, `DirectoryTypeOK` and `ViewsAgree`. What a request has read is described
    by two kinds of facts. Some stay true whatever commits, because a page holds distinct
    rows and applications and guidances are only added; they give `ViewsHold`. The others
    equate what was read with the database as it is while the view is not `disturbed`;
    they give `UndisturbedViewsAgree`. `RulesAgree` needs no invariant but the types: it is
    about rules that are written twice, and `CompletenessAgrees` states the most used of
    them for any résumé.
  - *Composition*: a step of `ServicesNext` is a step of one service and a stutter of the
    others, so `ServicesSpec` implies each service's own specification. `TypeOK`,
    `WhatIsShownAgrees` and `HistoryIsKept` follow from the theorems of the services.

Assumptions these proofs need, and why they hold of the code: the tables a view reads
are finite (`IsFiniteSet(Postings)`, `People`, `Talents`); the baseline skills are finitely
many and no two of them have the same normalized form, as the revision that seeds them
lists them; a job requires between none and 100 skills. TLC evaluates all of them.

Model-checked only: the four properties about liveness (`EveryRequestEnds`,
`EligibleEventuallyApplied`, `EveryDeliverySettles`, `RetrySucceeds`), since what fairness
and `ENABLED` imply is out of the prover's reach. Every other property of the passing
runs, safety and action, is stated by a theorem.

## 5. Findings

- **An application can be inserted for a job that is closed**
  (`applications_closed_job`). `docs/APPLICATIONS.md` says that the job must be open.
  The submission locks the company's row but reads the job without a lock
  (`submit_application.py:61`); the round reads the open jobs once
  (`generate_automatic_applications.py:90`). Both insert although the job was closed
  meanwhile.
- **A failed delivery may have been delivered** (`outbox_refused`). `EmailSendError`
  is documented as "the provider did not accept the message"; a read timeout raises it
  too.
- **An upload may delete the object its own row names** (`documents_answer`). If the
  commit is applied and its answer lost, the handler takes it for a failure and deletes
  the object it stored, against what `remove_quietly` says of itself.
- **Overlapping partial updates store a period that ends before it begins**
  (`resumes_periods`). `docs/CERTIFICATIONS.md` says that the expiration date cannot
  precede the issue date. Each update validates its date against the row as it read it,
  without a lock, and writes only the column that changed.
- **A withdrawn skill returns without being reactivated** (`resumes_withdrawn`).
  `docs/SKILL_CATALOG.md` says that an inactive skill removed from a résumé returns only
  after reactivation. The status is read first and the link written later, with no lock
  on the skill between the two.

## 6. Plan

Done: `Applications` and its life cycle, `EmailOutbox` and its promise,
`CertificateDocuments`, `Registration` and its promise, `SkillCatalog` and `Resumes`,
`Contacts`, `Compatibility`, `NotificationInbox`, `Directory`, `Schema`, `SchemaHistory`
and `SeedData`, with the proofs of section 4: every safety property that a passing run checks
has a theorem.

What would come next:

1. CPF and CNPJ check digits, the minimum age, and the delay between two tries, against
   reference definitions over bounded inputs.
2. The order in which two rounds insert the same rows, and in which a first résumé
   record and a first replacement of skills take their locks: the deadlocks that the
   hazards of `generate_automatic_applications.py:138` and `resumes.py:16` describe. They
   need multi-row inserts taken row by row.
3. The steps on which the liveness properties rest, as action properties that can be
   proved: what a waiting request waits for, and what each retry makes smaller.

## 7. Not modelled

Tokens, password resets and the rules for acceptable passwords are Cognito's. The
contents of messages, profiles and summaries are not told apart by any property, nor are
the search term and the layout of an exported file. Rate and body limits, middleware,
logging and configuration have no step that the properties could see.
`PROJECT.json` lists each part with its reason.
