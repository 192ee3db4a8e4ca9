------------------------------ MODULE Registration ------------------------------
(***************************************************************************)
(* register_company and register_professional: a person opens an account   *)
(* with an e-mail address and a document (a CNPJ or a CPF).                *)
(*                                                                         *)
(* The local rows are inserted first, so that PostgreSQL's unique columns  *)
(* settle who goes on; then the identity is created at the provider, which *)
(* takes no part in the transaction; then the transaction commits.  Any of *)
(* these may fail or succeed without an answer.  Identities are never      *)
(* deleted: whoever was left without an account registers again.           *)
(***************************************************************************)
EXTENDS Naturals

CONSTANTS People,       \* each with one password
          Emails,
          Documents,
          Forms,        \* what each person submits: a set of [email, document]
          Threads,      \* threads serving registrations
          MaxFaults,    \* failures in a behaviour
          Nobody        \* the owner of an address without an identity

ASSUME FormsAssumption ==
    Forms \in [People -> SUBSET [email : Emails, document : Documents]]
ASSUME NobodyAssumption == Nobody \notin People
ASSUME FaultsAssumption == MaxFaults \in Nat

VARIABLES accounts,     \* committed rows of app_user with their company or candidate
          owner,        \* identity provider: whose password each identity has
          confirmed,    \* identity provider: the confirmed addresses
          attempt,      \* what each thread is doing
          faults,       \* failures so far
          reported,     \* history: addresses logged as identity_registration_incomplete
          unseen        \* history: identities left behind with nobody to log it

provider == <<owner, confirmed>>
history == <<reported, unseen>>
vars == <<accounts, provider, attempt, faults, history>>

Accounts == [email : Emails, document : Documents, by : People, confirmed : BOOLEAN]

Idle == [pc |-> "idle"]
Inserting == [pc : {"user", "profile", "provider"}, by : People, connected : BOOLEAN,
              email : Emails, document : Documents]
Linking == [pc : {"link"}, by : People, connected : BOOLEAN, email : Emails,
            document : Documents, confirmed : BOOLEAN]

TypeOK ==
    /\ accounts \subseteq Accounts
    /\ owner \in [Emails -> People \cup {Nobody}]
    /\ confirmed \subseteq Emails
    /\ attempt \in [Threads -> {Idle} \cup Inserting \cup Linking]
    /\ faults \in 0..MaxFaults
    /\ reported \subseteq Emails /\ unseen \subseteq Emails

Init ==
    /\ accounts = {}
    /\ owner = [e \in Emails |-> Nobody] /\ confirmed = {}
    /\ attempt = [t \in Threads |-> Idle]
    /\ faults = 0
    /\ reported = {} /\ unseen = {}

-------------------------------------------------------------------------------
\* Helpers.

At(t, pc) == attempt[t].pc = pc
Goto(t, state) == attempt' = [attempt EXCEPT ![t] = state]
Proceed(t, pc) == attempt' = [attempt EXCEPT ![t].pc = pc]
Finish(t) == Goto(t, Idle)
Fault == faults < MaxFaults /\ faults' = faults + 1

\* Uncommitted rows: whoever inserts the same value into a unique column waits for them.
InsertedUser(t, e) ==
    /\ attempt[t].pc \in {"profile", "provider", "link"}
    /\ attempt[t].connected /\ attempt[t].email = e
InsertedProfile(t, d) ==
    /\ attempt[t].pc \in {"provider", "link"}
    /\ attempt[t].connected /\ attempt[t].document = d

-------------------------------------------------------------------------------
\* The local rows.

\* Documents, addresses and segments that are not acceptable are refused before this.
Begin(t, p, form) ==
    /\ At(t, "idle")
    /\ Goto(t, [pc |-> "user", by |-> p, connected |-> TRUE,
                email |-> form.email, document |-> form.document])
    /\ UNCHANGED <<accounts, provider, faults, history>>

\* Mutant of InsertUser: the address is looked up, not left to a unique column.
LookUpUser(t) ==
    /\ At(t, "user") /\ attempt[t].connected
    /\ LET e == attempt[t].email IN
       \/ \E a \in accounts : a.email = e /\ Finish(t)
       \/ (\A a \in accounts : a.email # e) /\ Proceed(t, "profile")
    /\ UNCHANGED <<accounts, provider, faults, history>>

\* app_user.email is unique among companies and professionals.
InsertUser(t) ==
    /\ At(t, "user") /\ attempt[t].connected
    /\ LET e == attempt[t].email IN
       /\ \A s \in Threads : ~InsertedUser(s, e)
       /\ \/ \E a \in accounts : a.email = e /\ Finish(t)
          \/ (\A a \in accounts : a.email # e) /\ Proceed(t, "profile")
    /\ UNCHANGED <<accounts, provider, faults, history>>

\* So are company.cnpj and candidate.cpf; company.corporate_email repeats the address.
InsertProfile(t) ==
    /\ At(t, "profile") /\ attempt[t].connected
    /\ LET d == attempt[t].document IN
       /\ \A s \in Threads : ~InsertedProfile(s, d)
       /\ \/ \E a \in accounts : a.document = d /\ Finish(t)
          \/ (\A a \in accounts : a.document # d) /\ Proceed(t, "provider")
    /\ UNCHANGED <<accounts, provider, faults, history>>

-------------------------------------------------------------------------------
\* The identity.

\* The identity is known and its subject is about to be stored.
Identified(t, isConfirmed) ==
    LET q == attempt[t] IN
    Goto(t, [pc |-> "link", by |-> q.by, connected |-> q.connected, email |-> q.email,
             document |-> q.document, confirmed |-> isConfirmed])

\* A new identity waits for the code sent to its address.
SignUp(t) ==
    /\ At(t, "provider")
    /\ owner[attempt[t].email] = Nobody
    /\ owner' = [owner EXCEPT ![attempt[t].email] = attempt[t].by]
    /\ Identified(t, FALSE)
    /\ UNCHANGED <<accounts, confirmed, faults, history>>

\* The identity was created, but the answer is lost or an error.
SignUpUnanswered(t) ==
    /\ Fault
    /\ At(t, "provider")
    /\ owner[attempt[t].email] = Nobody
    /\ owner' = [owner EXCEPT ![attempt[t].email] = attempt[t].by]
    /\ unseen' = unseen \cup {attempt[t].email}
    /\ Finish(t)
    /\ UNCHANGED <<accounts, confirmed, reported>>

\* Mutant of Recover: a matching address is taken as proof.
RecoverUnproven(t) ==
    /\ At(t, "provider")
    /\ LET e == attempt[t].email IN
       /\ owner[e] # Nobody
       /\ Identified(t, e \in confirmed)
    /\ UNCHANGED <<accounts, provider, faults, history>>

\* Mutant of Recover: an identity that exists is always somebody else's.
RecoverNever(t) ==
    /\ At(t, "provider")
    /\ owner[attempt[t].email] # Nobody
    /\ Finish(t)
    /\ UNCHANGED <<accounts, provider, faults, history>>

\* The address has an identity already: the password proves that it is the same person's.
Recover(t) ==
    /\ At(t, "provider")
    /\ LET e == attempt[t].email IN
       /\ owner[e] = attempt[t].by /\ e \in confirmed
       /\ Identified(t, TRUE)
    /\ UNCHANGED <<accounts, provider, faults, history>>

\* Or the password is wrong, or the address is yet to be confirmed.
RefuseIdentity(t) ==
    /\ At(t, "provider")
    /\ LET e == attempt[t].email IN
       owner[e] # Nobody /\ ~(owner[e] = attempt[t].by /\ e \in confirmed)
    /\ Finish(t)
    /\ UNCHANGED <<accounts, provider, faults, history>>

\* The code sent to the address is entered.
Confirm(e) ==
    /\ owner[e] # Nobody
    /\ confirmed' = confirmed \cup {e}
    /\ UNCHANGED <<accounts, owner, attempt, faults, history>>

-------------------------------------------------------------------------------
\* The commit.

\* Mutant of Store: the identity's subject is stored for its confirmation.
StoreSubject(t) ==
    LET q == attempt[t] IN
    /\ At(t, "link") /\ q.connected
    /\ accounts' = accounts \cup {[email |-> q.email, document |-> q.document, by |-> q.by,
                                   confirmed |-> owner[q.email]]}

\* The subject is stored with the rows, and whether it was confirmed.
Store(t) ==
    LET q == attempt[t] IN
    /\ At(t, "link") /\ q.connected
    /\ accounts' = accounts \cup {[email |-> q.email, document |-> q.document, by |-> q.by,
                                   confirmed |-> q.confirmed]}

Commit(t) ==
    /\ Store(t)
    /\ Finish(t)
    /\ UNCHANGED <<provider, faults, history>>

\* The commit is applied and its answer is lost: the handler rolls back and logs.
CommitUnanswered(t) ==
    /\ Fault
    /\ Store(t)
    /\ reported' = reported \cup {attempt[t].email}
    /\ Finish(t)
    /\ UNCHANGED <<provider, unseen>>

\* Mutant of FailCommit: a failed commit is not logged.
FailCommitSilently(t) ==
    /\ At(t, "link")
    /\ UNCHANGED faults
    /\ Finish(t)
    /\ UNCHANGED <<accounts, provider, history>>

\* The statement or the commit fails: the identity stays, and that is logged.
FailCommit(t) ==
    /\ At(t, "link")
    /\ Fault \/ (~attempt[t].connected /\ UNCHANGED faults)
    /\ reported' = reported \cup {attempt[t].email}
    /\ Finish(t)
    /\ UNCHANGED <<accounts, provider, unseen>>

-------------------------------------------------------------------------------
\* Failures before there is an identity.

\* A statement fails, or the provider is unavailable.
Fail(t) ==
    /\ attempt[t].pc \in {"user", "profile", "provider"}
    /\ \/ Fault
       \/ attempt[t].pc # "provider" /\ ~attempt[t].connected /\ UNCHANGED faults
    /\ Finish(t)
    /\ UNCHANGED <<accounts, provider, history>>

\* The database drops a connection and the rows it inserted.
Disconnect(t) ==
    /\ Fault
    /\ ~At(t, "idle") /\ attempt[t].connected
    /\ attempt' = [attempt EXCEPT ![t].connected = FALSE]
    /\ UNCHANGED <<accounts, provider, history>>

Crash ==
    /\ Fault
    /\ attempt' = [t \in Threads |-> Idle]
    /\ unseen' = unseen \cup {attempt[t].email : t \in {s \in Threads : At(s, "link")}}
    /\ UNCHANGED <<accounts, provider, reported>>

Handle(t) ==
    \/ InsertUser(t) \/ InsertProfile(t)
    \/ SignUp(t) \/ Recover(t) \/ RefuseIdentity(t)
    \/ Commit(t) \/ FailCommit(t) \/ Fail(t)

Next ==
    \/ \E t \in Threads :
          \/ \E p \in People : \E form \in Forms[p] : Begin(t, p, form)
          \/ Handle(t) \/ SignUpUnanswered(t) \/ CommitUnanswered(t) \/ Disconnect(t)
    \/ \E e \in Emails : Confirm(e)
    \/ Crash

Spec == Init /\ [][Next]_vars

\* Handlers run, and a waiting insert is woken by the end of the transaction it waits
\* for; people enter the codes they receive and submit the form again, as the
\* documentation tells them to.
Fairness ==
    /\ \A t \in Threads : WF_vars(Handle(t)) /\ SF_vars(InsertUser(t)) /\ SF_vars(InsertProfile(t))
    /\ \A p \in People : \A form \in Forms[p] : SF_vars(\E t \in Threads : Begin(t, p, form))
    /\ \A e \in Emails : WF_vars(Confirm(e))

FairSpec == Spec /\ Fairness

-------------------------------------------------------------------------------
\* Properties.

\* Once its row is in, nobody else can take an attempt's address, and then its
\* document: neither the link nor the commit can meet a conflict any more
\* (docs/COMPANY_REGISTRATION.md, "Database uniqueness constraints arbitrate concurrent
\* requests before any identity creation").
NoLateConflict ==
    \A t \in Threads :
       /\ \A e \in Emails : InsertedUser(t, e) =>
             /\ \A a \in accounts : a.email # e
             /\ \A s \in Threads : InsertedUser(s, e) => s = t
       /\ \A d \in Documents : InsertedProfile(t, d) =>
             /\ \A a \in accounts : a.document # d
             /\ \A s \in Threads : InsertedProfile(s, d) => s = t

\* An identity without an account was logged, belongs to an attempt about to link it,
\* or was left by a lost answer of the provider or a crash (the docstring of
\* _log_incomplete_identity).
OrphansAreReported ==
    \A e \in Emails : owner[e] # Nobody =>
       \/ \E a \in accounts : a.email = e
       \/ \E t \in Threads : At(t, "link") /\ attempt[t].email = e
       \/ e \in reported \cup unseen

Promise == INSTANCE RegistrationPromise

\* Whatever fails, accounts open once per address and document, for the person who
\* owns the address's identity, and as confirmed only if it was.
KeepsPromise == Promise!PSpec

\* A person who confirms and submits the same form again ends up with an account, unless
\* somebody else has the address or the document (docs/COMPANY_REGISTRATION.md,
\* "confirm the email, then submit the same registration again").
RetrySucceeds ==
    \A p \in People : \A f \in Forms[p] :
       <>(\/ \E a \in accounts : a.email = f.email \/ a.document = f.document
          \/ owner[f.email] \notin {p, Nobody})
===============================================================================
