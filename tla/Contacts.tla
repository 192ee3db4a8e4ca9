-------------------------------- MODULE Contacts --------------------------------
(***************************************************************************)
(* Administrators decide on companies and block accounts, while companies  *)
(* edit their profile, list the applicants of their jobs and write to the  *)
(* professionals listed, and professionals apply and edit their résumés.   *)
(*                                                                         *)
(* A call is a handler in the middle of its transaction: what it has read, *)
(* and the rows it has locked.  A statement that locks a row waits for the *)
(* transactions that hold it, and then reads what they committed.          *)
(***************************************************************************)
EXTENDS Compatibility

CONSTANTS Companies,
          Professionals,  \* identifiers, which are ordered
          Skills,
          Jobs,
          Owner,          \* the company of each job
          Required,       \* the skills each job requires
          Activity,       \* the economic activity registered for each company
          Unaddressed,    \* companies whose row names no address
          Callers,
          Portfolios,     \* the sets of skills a résumé may list
          Editors,        \* the professionals who edit their résumés
          MaxCalls,       \* how many calls begin
          Nobody          \* stands for NULL

MostSkills == 100   \* of a job, as its requests are validated

ASSUME ContactsAssumption ==
    /\ Professionals \subseteq Nat
    /\ Owner \in [Jobs -> Companies]
    /\ Required \in [Jobs -> SUBSET Skills]
    /\ \A j \in Jobs : IsFiniteSet(Required[j]) /\ Cardinality(Required[j]) <= MostSkills
    /\ Activity \in [Companies -> {"allowed", "blocked", "unknown"}]
    /\ Unaddressed \subseteq Companies
    /\ Portfolios \subseteq SUBSET Skills /\ {} \in Portfolios
    /\ Editors \subseteq Professionals
    /\ MaxCalls \in Nat
    /\ Companies \cap Professionals = {}
    /\ Nobody \notin Companies \cup Professionals \cup Jobs \cup Callers

VARIABLES account,    \* app_user.account_status
          standing,   \* company.status
          addresses,  \* the address rows written for each company
          events,     \* the audit log of the changes of account status
          notices,    \* notifications, oldest first
          contacts,   \* contact_request, oldest first
          applied,    \* the applications to each job, oldest first
          resume,     \* the skills and the availability of each professional
          call,
          begun,      \* how many calls have begun
          known       \* history: see Track

decisions == <<standing, addresses>>
contactVars == <<account, decisions, events, notices, contacts, applied, resume,
                 call, begun, known>>

Accounts == Companies \cup Professionals
AccountStatuses == {"active", "blocked"}
Decisions == {"approved", "rejected"}

Idle == [op |-> "none", at |-> "idle", co |-> Nobody, who |-> Nobody, job |-> Nobody,
         value |-> "none", was |-> "none", shared |-> {}, owned |-> Nobody, held |-> Nobody,
         rows |-> <<>>, matches |-> {}, skills |-> [p \in Professionals |-> {}]]

CallStates ==
    [op : {"none", "contact", "list", "review", "change", "status", "profile"},
     at : {"idle", "company", "applicants", "matches", "skills", "listed", "send",
           "lock", "write", "reason", "told"},
     co : Companies \cup {Nobody}, who : Accounts \cup {Nobody}, job : Jobs \cup {Nobody},
     value : AccountStatuses \cup Decisions \cup {"none"},
     was : AccountStatuses \cup {"none", "absent", "present"},
     shared : SUBSET Accounts,              \* app_user rows locked FOR SHARE
     owned : Accounts \cup {Nobody},        \* the app_user row locked FOR UPDATE
     held : Companies \cup {Nobody},        \* the company row locked FOR UPDATE
     rows : Seq(Professionals), matches : SUBSET Professionals,
     skills : [Professionals -> SUBSET Skills]]

ContactInit ==
    /\ account = [a \in Accounts |-> "active"]
    /\ standing = [co \in Companies |-> "pending"]
    /\ addresses = [co \in Companies |-> IF co \in Unaddressed THEN 0 ELSE 1]
    /\ events = <<>>
    /\ notices = <<>>
    /\ contacts = <<>>
    /\ applied = [j \in Jobs |-> <<>>]
    /\ resume = [p \in Professionals |-> [skills |-> {}, available |-> TRUE]]
    /\ call = [c \in Callers |-> Idle]
    /\ begun = 0
    /\ known = [c \in Callers |-> {}]

-----------------------------------------------------------------------------
\* Locks.  A reference to an account or a company locks its row FOR KEY SHARE,
\* which waits only for a transaction that holds it FOR UPDATE.

FreeToRefer(c, a) == \A d \in Callers \ {c} : call[d].owned # a
FreeToShare(c, a) == FreeToRefer(c, a)
FreeToUpdate(c, a) == \A d \in Callers \ {c} : call[d].owned # a /\ a \notin call[d].shared
CompanyFree(c, co) == \A d \in Callers \ {c} : call[d].held # co

Return(c) == call' = [call EXCEPT ![c] = Idle]
ReadOnly == UNCHANGED <<account, decisions, events, notices, contacts, applied, resume, begun>>

\* What the role checks let in: they read the account once, before the handler.
IsActive(a) == account[a] = "active"
IsApprovedCompany(co) == IsActive(co) /\ standing[co] = "approved"

Begin(c, request) ==
    /\ call[c].at = "idle"
    /\ begun < MaxCalls
    /\ begun' = begun + 1
    /\ call' = [call EXCEPT ![c] = request]
    /\ UNCHANGED <<account, decisions, events, notices, contacts, applied, resume>>

-----------------------------------------------------------------------------
\* Listing the applicants of a job, by itself or for a contact.

AskList(c) ==
    \E co \in Companies, j \in Jobs :
        /\ IsApprovedCompany(co)
        /\ Begin(c, [Idle EXCEPT !.op = "list", !.at = "applicants", !.co = co, !.job = j])

AskContact(c) ==
    \E co \in Companies, j \in Jobs, p \in Professionals :
        /\ IsApprovedCompany(co)
        /\ Begin(c, [Idle EXCEPT !.op = "contact", !.at = "company", !.co = co,
                                 !.job = j, !.who = p])

LockAvailableCompany(c) ==
    LET co == call[c].co IN
    /\ call[c].op = "contact" /\ call[c].at = "company"
    /\ FreeToShare(c, co)
    /\ IF IsApprovedCompany(co)
       THEN call' = [call EXCEPT ![c].at = "applicants", ![c].shared = {co}]
       ELSE Return(c)
    /\ ReadOnly

\* A job of another company is answered like one that does not exist.
ReadApplicants(c) ==
    LET j == call[c].job IN
    /\ call[c].at = "applicants"
    /\ IF Owner[j] = call[c].co
       THEN call' = [call EXCEPT ![c].rows = applied[j],
                                 ![c].at = IF Required[j] = {} THEN "listed" ELSE "matches"]
       ELSE Return(c)
    /\ ReadOnly

HasApplied(p, j) == \E i \in DOMAIN applied[j] : applied[j][i] = p

\* Mutant of AutomaticMatchCandidates: whoever has applied is a match as well.
EveryMatchCandidate(j) ==
    {p \in Professionals : /\ resume[p].skills \cap Required[j] # {}
                           /\ IsActive(p)
                           /\ resume[p].available}

AutomaticMatchCandidates(j) ==
    {p \in Professionals : /\ resume[p].skills \cap Required[j] # {}
                           /\ IsActive(p)
                           /\ resume[p].available
                           /\ ~ HasApplied(p, j)}

ReadMatches(c) ==
    /\ call[c].at = "matches"
    /\ call' = [call EXCEPT ![c].matches = AutomaticMatchCandidates(call[c].job),
                            ![c].at = "skills"]
    /\ ReadOnly

Applicants(c) == {call[c].rows[i] : i \in DOMAIN call[c].rows}

ReadResumeSkills(c) ==
    /\ call[c].at = "skills"
    /\ call' = [call EXCEPT ![c].at = "listed",
                            ![c].skills = [p \in Professionals |->
                                IF p \in Applicants(c) \cup call[c].matches
                                THEN resume[p].skills ELSE {}]]
    /\ ReadOnly

\* Applicants in the order they applied, then matches in the order of their
\* identifiers, all ranked together; a match below the threshold is left out.
RankedList(rows, matches, skills, required) ==
    LET applicants == {rows[i] : i \in DOMAIN rows}
        kept == applicants \cup {p \in matches : IsAutomaticMatch(Score(required, skills[p]))}
    IN  Filter(Rank(rows \o InOrder(matches, Ascending), required, skills), kept)

ListedApplicants(c) ==
    IF Required[call[c].job] = {} THEN call[c].rows
    ELSE RankedList(call[c].rows, call[c].matches, call[c].skills, Required[call[c].job])

IsListed(c, p) ==
    \/ p \in Applicants(c)
    \/ p \in call[c].matches
       /\ IsAutomaticMatch(Score(Required[call[c].job], call[c].skills[p]))

\* An answer, or an error that rolls the transaction back, lets every lock go.
\* What waits for a lock goes on waiting.
Finish(c) ==
    /\ call[c].at \notin {"idle", "company", "lock"}
    /\ call[c].op = "contact" /\ call[c].at = "listed" => ~ IsListed(c, call[c].who)
    /\ Return(c)
    /\ ReadOnly

\* Mutant of LockAvailableProfessional: the account is read without FOR SHARE.
ReadAvailableProfessional(c) ==
    LET p == call[c].who IN
    /\ call[c].op = "contact" /\ call[c].at = "listed"
    /\ IsListed(c, p)
    /\ IF IsActive(p)
       THEN call' = [call EXCEPT ![c].at = "send",
                         ![c].rows = <<>>, ![c].matches = {}, ![c].skills = Idle.skills]
       ELSE Return(c)
    /\ ReadOnly

\* The professional's account is locked after the list was read, and read again.
LockAvailableProfessional(c) ==
    LET p == call[c].who IN
    /\ call[c].op = "contact" /\ call[c].at = "listed"
    /\ IsListed(c, p)
    /\ FreeToShare(c, p)
    /\ IF IsActive(p)
       THEN call' = [call EXCEPT ![c].at = "send", ![c].shared = @ \cup {p},
                         ![c].rows = <<>>, ![c].matches = {}, ![c].skills = Idle.skills]
       ELSE Return(c)
    /\ ReadOnly

\* Mutant of SendContact: company and professional are exchanged in the row.
SendContactExchanged(c) ==
    LET p == call[c].who IN
    /\ call[c].at = "send"
    /\ FreeToRefer(c, p) /\ FreeToRefer(c, call[c].co) /\ CompanyFree(c, call[c].co)
    /\ contacts' = Append(contacts, [co |-> p, who |-> call[c].co, job |-> call[c].job])
    /\ notices' = Append(notices, [to |-> p, kind |-> "contact"])
    /\ Return(c)
    /\ UNCHANGED <<account, decisions, events, applied, resume, begun>>

SendContact(c) ==
    LET p == call[c].who IN
    /\ call[c].at = "send"
    /\ FreeToRefer(c, p) /\ FreeToRefer(c, call[c].co) /\ CompanyFree(c, call[c].co)
    /\ contacts' = Append(contacts, [co |-> call[c].co, who |-> p, job |-> call[c].job])
    /\ notices' = Append(notices, [to |-> p, kind |-> "contact"])
    /\ Return(c)
    /\ UNCHANGED <<account, decisions, events, applied, resume, begun>>

-----------------------------------------------------------------------------
\* The decision on a company, and the answer the company gets about it.

DecisionReasonIsValid(decision, reasoned) == reasoned = (decision = "rejected")

AskReview(c) ==
    \E co \in Companies, d \in Decisions, reasoned \in BOOLEAN :
        /\ DecisionReasonIsValid(d, reasoned)
        /\ Begin(c, [Idle EXCEPT !.op = "review", !.at = "lock", !.co = co, !.value = d])

CnaeIsAllowed(co) == Activity[co] = "allowed"

\* Mutant of LockCompanyForReview: the company is read without FOR UPDATE.
ReadCompanyForReview(c) ==
    LET co == call[c].co IN
    /\ call[c].op = "review" /\ call[c].at = "lock"
    /\ IF standing[co] = "pending" /\ (call[c].value = "approved" => CnaeIsAllowed(co))
       THEN call' = [call EXCEPT ![c].at = "write"]
       ELSE Return(c)
    /\ ReadOnly

LockCompanyForReview(c) ==
    LET co == call[c].co IN
    /\ call[c].op = "review" /\ call[c].at = "lock"
    /\ CompanyFree(c, co)
    /\ IF standing[co] = "pending" /\ (call[c].value = "approved" => CnaeIsAllowed(co))
       THEN call' = [call EXCEPT ![c].at = "write", ![c].held = co]
       ELSE Return(c)
    /\ ReadOnly

ReviewCompany(c) ==
    LET co == call[c].co IN
    /\ call[c].op = "review" /\ call[c].at = "write"
    /\ standing' = [standing EXCEPT ![co] = call[c].value]
    /\ IF call[c].value = "rejected"
       THEN /\ FreeToRefer(c, co)
            /\ notices' = Append(notices, [to |-> co, kind |-> "rejected"])
       ELSE UNCHANGED notices
    /\ Return(c)
    /\ UNCHANGED <<account, addresses, events, contacts, applied, resume, begun>>

AskStatus(c) ==
    \E co \in Companies :
        /\ IsActive(co)
        /\ Begin(c, [Idle EXCEPT !.op = "status", !.at = "company", !.co = co])

RejectionNotices(co) ==
    {i \in DOMAIN notices : notices[i] = [to |-> co, kind |-> "rejected"]}

\* The status is read first; the reason is read by a statement of its own.
ReadCompanyStatus(c) ==
    /\ call[c].op = "status"
    /\ \/ /\ call[c].at = "company"
          /\ call' = IF standing[call[c].co] = "rejected"
                     THEN [call EXCEPT ![c].at = "reason", ![c].value = "rejected"]
                     ELSE [call EXCEPT ![c].at = "told"]
       \/ /\ call[c].at = "reason"
          /\ call' = [call EXCEPT ![c].at = "told",
                          ![c].was = IF RejectionNotices(call[c].co) = {}
                                     THEN "absent" ELSE "present"]
    /\ ReadOnly

-----------------------------------------------------------------------------
\* The profile of a company: only the address is a row of its own.

AskProfile(c) ==
    \E co \in Companies :
        /\ IsApprovedCompany(co)
        /\ Begin(c, [Idle EXCEPT !.op = "profile", !.at = "lock", !.co = co])

FindCompanyForUpdate(c) ==
    /\ call[c].op = "profile" /\ call[c].at = "lock"
    /\ CompanyFree(c, call[c].co)
    /\ call' = [call EXCEPT ![c].at = "write", ![c].held = call[c].co,
                    ![c].was = IF addresses[call[c].co] = 0 THEN "absent" ELSE "present"]
    /\ ReadOnly

\* A new address is written only when the company had none.
UpdateCompanyProfile(c) ==
    /\ call[c].op = "profile" /\ call[c].at = "write"
    /\ addresses' = [addresses EXCEPT
           ![call[c].co] = IF call[c].was = "absent" THEN @ + 1 ELSE @]
    /\ Return(c)
    /\ UNCHANGED <<account, standing, events, notices, contacts, applied, resume, begun>>

-----------------------------------------------------------------------------
\* Blocking and reactivating, with the event in the same transaction.

AskChange(c) ==
    \E a \in Accounts, s \in AccountStatuses :
        Begin(c, [Idle EXCEPT !.op = "change", !.at = "lock", !.who = a, !.value = s])

\* Mutant of LockAccount: the account is read without FOR UPDATE.
ReadAccountToChange(c) ==
    LET a == call[c].who IN
    /\ call[c].op = "change" /\ call[c].at = "lock"
    /\ IF account[a] = call[c].value
       THEN Return(c)
       ELSE call' = [call EXCEPT ![c].at = "write", ![c].was = account[a]]
    /\ ReadOnly

LockAccount(c) ==
    LET a == call[c].who IN
    /\ call[c].op = "change" /\ call[c].at = "lock"
    /\ FreeToUpdate(c, a)
    /\ IF account[a] = call[c].value
       THEN Return(c)
       ELSE call' = [call EXCEPT ![c].at = "write", ![c].owned = a, ![c].was = account[a]]
    /\ ReadOnly

ChangeAccountStatus(c) ==
    LET a == call[c].who IN
    /\ call[c].op = "change" /\ call[c].at = "write"
    /\ account' = [account EXCEPT ![a] = call[c].value]
    /\ events' = Append(events, [target |-> a, from |-> call[c].was, to |-> call[c].value])
    /\ Return(c)
    /\ UNCHANGED <<decisions, notices, contacts, applied, resume, begun>>

-----------------------------------------------------------------------------
\* What professionals commit meanwhile, each in one transaction of their own.

Apply(p, j) ==
    /\ IsActive(p) /\ ~ HasApplied(p, j)
    /\ IsApprovedCompany(Owner[j])
    /\ FreeToShare(Nobody, Owner[j]) /\ FreeToRefer(Nobody, p)
    /\ applied' = [applied EXCEPT ![j] = Append(@, p)]
    /\ UNCHANGED <<account, decisions, events, notices, contacts, resume, call, begun>>

EditResume(p) ==
    /\ IsActive(p) /\ p \in Editors
    /\ \/ \E skills \in Portfolios : resume' = [resume EXCEPT ![p].skills = skills]
       \/ \E available \in BOOLEAN : resume' = [resume EXCEPT ![p].available = available]
    /\ UNCHANGED <<account, decisions, events, notices, contacts, applied, call, begun>>

-----------------------------------------------------------------------------
\* History, read by no action: the professionals a listing ought to show,
\* because at every moment since it began each of them was either an
\* applicant or an available professional who matches.

Presentable(j) ==
    {p \in Professionals :
        \/ HasApplied(p, j)
        \/ /\ p \in AutomaticMatchCandidates(j)
           /\ IsAutomaticMatch(Score(Required[j], resume[p].skills))}

Lists(c) == call[c].op \in {"contact", "list"}

Track ==
    known' = [c \in Callers |->
        IF ~ Lists(c)' THEN {}
        ELSE IF Lists(c) THEN known[c] \cap Presentable(call[c].job)'
        ELSE Presentable(call[c].job)']

-----------------------------------------------------------------------------
CallStep(c) ==
    \/ AskList(c) \/ AskContact(c) \/ AskReview(c) \/ AskStatus(c)
    \/ AskProfile(c) \/ AskChange(c)
    \/ LockAvailableCompany(c) \/ ReadApplicants(c) \/ ReadMatches(c)
    \/ ReadResumeSkills(c) \/ LockAvailableProfessional(c) \/ SendContact(c)
    \/ LockCompanyForReview(c) \/ ReviewCompany(c) \/ ReadCompanyStatus(c)
    \/ FindCompanyForUpdate(c) \/ UpdateCompanyProfile(c)
    \/ LockAccount(c) \/ ChangeAccountStatus(c)
    \/ Finish(c)

\* The bound on the calls is reached and all of them have ended.
CallsEnded ==
    /\ begun = MaxCalls /\ \A c \in Callers : call[c].at = "idle"
    /\ ReadOnly /\ UNCHANGED call

ContactNext ==
    /\ \/ \E c \in Callers : CallStep(c)
       \/ \E p \in Professionals, j \in Jobs : Apply(p, j)
       \/ \E p \in Professionals : EditResume(p)
       \/ CallsEnded
    /\ Track

ContactSpec == ContactInit /\ [][ContactNext]_contactVars

-----------------------------------------------------------------------------
\* The variables keep their types.
ContactTypeOK ==
    /\ account \in [Accounts -> AccountStatuses]
    /\ standing \in [Companies -> {"pending"} \cup Decisions]
    /\ addresses \in [Companies -> Nat]
    /\ events \in Seq([target : Accounts, from : AccountStatuses, to : AccountStatuses])
    /\ notices \in Seq([to : Accounts, kind : {"contact", "rejected"}])
    /\ contacts \in Seq([co : Companies, who : Professionals, job : Jobs])
    /\ applied \in [Jobs -> Seq(Professionals)]
    /\ resume \in [Professionals -> [skills : SUBSET Skills, available : BOOLEAN]]
    /\ call \in [Callers -> CallStates]
    /\ begun \in Nat
    /\ known \in [Callers -> SUBSET Professionals]

\* A contact is committed only while neither account is blocked and the
\* company is approved, whatever an administrator decides meanwhile, and only
\* about a job of that company.  (contact_professional locks both accounts.)
OnlyAvailableAccountsMeet ==
    [][contacts' # contacts =>
           LET sent == contacts'[Len(contacts')] IN
           /\ account[sent.co] = "active" /\ account[sent.who] = "active"
           /\ standing[sent.co] = "approved"
           /\ Owner[sent.job] = sent.co]_contactVars

\* Each account is what its last event says, and its events follow on from
\* one another.  (change_account_status writes both in one transaction.)
LastEvents(a) ==
    {i \in DOMAIN events : /\ events[i].target = a
                           /\ \A j \in DOMAIN events : events[j].target = a => j <= i}
AuditLogIsTrue ==
    /\ \A a \in Accounts :
          IF LastEvents(a) = {} THEN account[a] = "active"
          ELSE \A i \in LastEvents(a) : account[a] = events[i].to
    /\ \A i, j \in DOMAIN events :
          /\ i < j /\ events[i].target = events[j].target
          /\ \A k \in (i + 1)..(j - 1) : events[k].target # events[i].target
          => events[i].to = events[j].from

\* A company is decided once: it was told of a rejection exactly once if it was
\* rejected and never otherwise, whoever asks for the status is given the
\* reason, and no company is approved for an activity that is not allowed.
RejectionIsExplained ==
    \A co \in Companies :
        Cardinality(RejectionNotices(co)) = IF standing[co] = "rejected" THEN 1 ELSE 0
StatusIsExplained ==
    \A c \in Callers :
        call[c].op = "status" /\ call[c].at = "told" /\ call[c].value = "rejected"
        => call[c].was = "present"
DecidedOnce ==
    /\ RejectionIsExplained
    /\ StatusIsExplained
    /\ \A co \in Companies : standing[co] = "approved" => CnaeIsAllowed(co)

\* No address is left without its company, however many edits of a profile that
\* had none run at once.  (update_company_profile locks the company's row.)
AddressesAreOwned == \A co \in Companies : addresses[co] <= 1

\* Decisions, their answers and the edits of a profile take their turns on the
\* row of the company, with the same result as one after the other.
CompanyChangesAreSerial == DecidedOnce /\ AddressesAreOwned

\* A list names nobody twice, and orders professionals by the share of the
\* required skills they have; ties list applicants first, in the order they
\* applied.  Whoever is missing although there was not a moment when they should
\* not have been listed has applied since the list of applicants was read.
InListOrder(c, p, q) ==
    LET required == Required[call[c].job]
        share(r) == Cardinality(required \cap call[c].skills[r])
        position(r) == CHOOSE i \in DOMAIN call[c].rows : call[c].rows[i] = r
    IN  share(p) = share(q) =>
            IF q \in Applicants(c) THEN p \in Applicants(c) /\ position(p) < position(q)
            ELSE p \in Applicants(c) \/ p < q
ListsEveryProfessionalOnce ==
    \A c \in Callers : Lists(c) /\ call[c].at = "listed" =>
        LET list == ListedApplicants(c)
            required == Required[call[c].job]
        IN  /\ \A i, j \in DOMAIN list : i < j =>
                  /\ list[i] # list[j]
                  /\ Cardinality(required \cap call[c].skills[list[i]])
                         >= Cardinality(required \cap call[c].skills[list[j]])
                  /\ InListOrder(c, list[i], list[j])
            /\ \A p \in Professionals :
                  IsListed(c, p) <=> \E i \in DOMAIN list : list[i] = p
            /\ required # {} => \A p \in known[c] \ Applicants(c) :
                  IsListed(c, p) \/ HasApplied(p, call[c].job)

=============================================================================
