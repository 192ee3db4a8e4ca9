------------------------------- MODULE Directory -------------------------------
(***************************************************************************)
(* What the product shows of its database: the search for jobs, a job's    *)
(* page, a candidate's applications, a company's jobs, the lists of        *)
(* professionals and of accounts, the indicators and the exports.          *)
(*                                                                         *)
(* Each of them is one or several statements, and every statement sees     *)
(* what has committed when it runs (READ COMMITTED): a view can be put     *)
(* together from several states of the database.  Many rules are written   *)
(* twice, in SQL for one view and in Python for another.                   *)
(***************************************************************************)
EXTENDS Compatibility

CONSTANTS Postings,     \* jobs by their identifiers, which are ordered
          Firms,
          FirmOf,
          Talents,      \* skills
          FirstSkills,  \* the skills each job requires at first
          People,       \* candidates by their identifiers, which are ordered
          FirstPeople,  \* the candidates at first
          FirstPipeline,\* the applications at first
          Viewers,
          ViewLimit,    \* rows of a page
          EditedPeople, \* the candidates, and the texts of their résumés, that
          EditedTexts,  \* change here
          LastDate,     \* bound on the days
          MaxEdits      \* bound on the transactions that change what is shown

\* "section" is whether the résumé has a row of that kind.
Persons == [account : {"active", "blocked"}, text : [ResumeTexts -> Texts],
            available : BOOLEAN, employment : {"unknown", "unemployed", "employed"},
            section : [ResumeSections -> BOOLEAN], skills : SUBSET Talents]
Stages == {"none", "applied", "not_selected"}

ASSUME DirectoryAssumption ==
    /\ Postings \subseteq Nat /\ People \subseteq Nat
    /\ IsFiniteSet(Postings) /\ IsFiniteSet(People) /\ IsFiniteSet(Talents)
    /\ FirmOf \in [Postings -> Firms]
    /\ FirstSkills \in [Postings -> SUBSET Talents]
    /\ FirstPeople \in [People -> Persons]
    /\ FirstPipeline \in [People \X Postings -> Stages]
    /\ EditedTexts \subseteq ResumeTexts /\ EditedPeople \subseteq People
    /\ ViewLimit \in Nat \ {0} /\ LastDate \in Nat /\ MaxEdits \in Nat

VARIABLES date,
          posting,      \* job, with its skills
          firm,         \* a company: its account and its approval
          person,       \* candidate, with the account and the résumé
          pipeline,     \* application
          guided,       \* candidates with a guidance on record
          exported,     \* the rows of the exports in the administrative log
          edits,
          viewer        \* what each request has read so far

shown == <<date, posting, firm, person, pipeline, guided>>
directoryVars == <<shown, exported, edits, viewer>>

Posted == [status : {"published", "closed"}, closing : 0..LastDate, skills : SUBSET Talents]
FirmStates == [account : {"active", "blocked"}, approved : BOOLEAN]

NoView == [view |-> "none", who |-> 0, offset |-> 0, filter |-> "any", got |-> <<>>,
           disturbed |-> FALSE]

DirectoryInit ==
    /\ date = 0
    /\ posting = [j \in Postings |->
                     [status |-> "published", closing |-> 0, skills |-> FirstSkills[j]]]
    /\ firm = [f \in Firms |-> [account |-> "active", approved |-> TRUE]]
    /\ person = FirstPeople
    /\ pipeline = FirstPipeline
    /\ guided = {}
    /\ exported = {}
    /\ edits = 0
    /\ viewer = [v \in Viewers |-> NoView]

-----------------------------------------------------------------------------
\* What others commit while a view is being read.

Commit ==
    /\ edits < MaxEdits
    /\ edits' = edits + 1
    /\ viewer' = [v \in Viewers |->
                     IF viewer[v].got = <<>> THEN viewer[v]
                     ELSE [viewer[v] EXCEPT !.disturbed = TRUE]]
    /\ UNCHANGED exported

EditPosting(j) ==
    /\ \/ \E skills \in (SUBSET Talents) \ {{}} : posting' = [posting EXCEPT ![j].skills = skills]
       \/ posting[j].status = "published" /\ posting' = [posting EXCEPT ![j].status = "closed"]
       \/ /\ \E last \in date..LastDate :
                posting' = [posting EXCEPT ![j].status = "published", ![j].closing = last]
          /\ ~ (posting[j].status = "published" /\ posting[j].closing >= date)
    /\ Commit
    /\ UNCHANGED <<date, firm, person, pipeline, guided>>

EditPerson(p) ==
    /\ \/ \E f \in EditedTexts, text \in Texts : person' = [person EXCEPT ![p].text[f] = text]
       \/ \E f \in {"experiences", "education"}, rows \in BOOLEAN :
             person' = [person EXCEPT ![p].section[f] = rows]
       \/ \E skills \in SUBSET Talents :
             person' = [person EXCEPT ![p].skills = skills, ![p].section["skills"] = skills # {}]
       \/ \E available \in BOOLEAN : person' = [person EXCEPT ![p].available = available]
       \/ \E work \in {"unemployed", "employed"} :
             person' = [person EXCEPT ![p].employment = work]
    /\ Commit
    /\ UNCHANGED <<date, posting, firm, pipeline, guided>>

EditAccount ==
    /\ \E status \in {"active", "blocked"} :
          \/ /\ \E p \in People : person' = [person EXCEPT ![p].account = status]
             /\ UNCHANGED firm
          \/ /\ \E f \in Firms : firm' = [firm EXCEPT ![f].account = status]
             /\ UNCHANGED person
    /\ Commit
    /\ UNCHANGED <<date, posting, pipeline, guided>>

MovePipeline(p, j) ==
    /\ \/ /\ pipeline[<<p, j>>] = "none"
          /\ posting[j].status = "published" /\ posting[j].closing >= date
          /\ pipeline' = [pipeline EXCEPT ![<<p, j>>] = "applied"]
       \/ /\ pipeline[<<p, j>>] = "applied"
          /\ pipeline' = [pipeline EXCEPT ![<<p, j>>] = "not_selected"]
    /\ Commit
    /\ UNCHANGED <<date, posting, firm, person, guided>>

RecordGuidance(p) ==
    /\ guided' = guided \cup {p}
    /\ Commit
    /\ UNCHANGED <<date, posting, firm, person, pipeline>>

PassDate ==
    /\ date < LastDate
    /\ date' = date + 1
    /\ Commit
    /\ UNCHANGED <<posting, firm, person, pipeline, guided>>

-----------------------------------------------------------------------------
\* The rules of the views, each as its own statement states it.

IsOpen(j) == posting[j].status = "published" /\ posting[j].closing >= date
PublisherIsNotBlocked(j) == firm[FirmOf[j]].account # "blocked"

\* A page: the rows of a set in an order, from an offset on.
Rows(S, before, offset, limit) ==
    LET rows == First(InOrder(S, before), offset + limit)
    IN  SubSeq(rows, offset + 1, Len(rows))
PageFrom(S, before, offset) == Rows(S, before, offset, ViewLimit)

\* search_jobs: matched skills first; every job here was published at once.
OpenJobs == {j \in Postings : IsOpen(j) /\ PublisherIsNotBlocked(j)}
SearchPage(skills, offset) ==
    LET matched(j) == Cardinality(posting[j].skills \cap skills)
        before == {x \in Postings \X Postings :
                      \/ matched(x[1]) > matched(x[2])
                      \/ matched(x[1]) = matched(x[2]) /\ x[1] < x[2]}
    IN  PageFrom(OpenJobs, before, offset)

RequiredSkills(jobs) == [j \in jobs |-> posting[j].skills]

\* get_job_detail: an open job the candidate has not applied to can be applied to.
HasPipeline(p, j) == pipeline[<<p, j>>] # "none"
JobIsFound(j) == PublisherIsNotBlocked(j)
JobDetail(p, j) ==
    [open |-> IsOpen(j), applied |-> HasPipeline(p, j),
     expired |-> posting[j].status = "published" /\ ~ IsOpen(j),
     applicable |-> IsOpen(j) /\ ~ HasPipeline(p, j)]

SimilarityLimit == 5
SimilarJobs(p, j) ==
    LET similar == {k \in Postings \ {j} : /\ posting[k].skills \cap posting[j].skills # {}
                                           /\ ~ HasPipeline(p, k)
                                           /\ IsOpen(k) /\ PublisherIsNotBlocked(k)}
        common(k) == Cardinality(posting[k].skills \cap posting[j].skills)
        before == {x \in Postings \X Postings :
                      \/ common(x[1]) > common(x[2])
                      \/ common(x[1]) = common(x[2]) /\ x[1] < x[2]}
    IN  Rows(similar, before, 0, SimilarityLimit)

MyApplications(p) == {[job |-> j, status |-> pipeline[<<p, j>>]] : j \in {k \in Postings : HasPipeline(p, k)}}

CompanyJobs(f) == {j \in Postings : FirmOf[j] = f}
ApplicationCounts(jobs) == [j \in jobs |-> Cardinality({p \in People : HasPipeline(p, j)})]
PublishedJobCount(f) == Cardinality({j \in CompanyJobs(f) : posting[j].status = "published"})

MissingFields(p) == MissingResumeFields(person[p].text, person[p].section)
ResumeComplete(p) == ResumeIsComplete(person[p].text, person[p].section)

\* list_professionals filters in Python, list_accounts in SQL.
ProfessionalPage(filter, offset) ==
    LET selected == {p \in People : /\ filter = "complete" => MissingFields(p) = {}
                                    /\ filter = "incomplete" => MissingFields(p) # {}
                                    /\ filter = "contacted" => p \in guided
                                    /\ filter = "not_contacted" => p \notin guided}
    IN  PageFrom(selected, Ascending, offset)

FilteredCandidates(filter) ==
    {p \in People : /\ filter = "complete" => ResumeComplete(p)
                    /\ filter = "incomplete" => ~ ResumeComplete(p)
                    /\ filter = "active" => person[p].account = "active"
                    /\ filter = "blocked" => person[p].account = "blocked"}
AccountSummaries(filter, offset) ==
    LET page == PageFrom(FilteredCandidates(filter), Ascending, offset)
    IN  [i \in DOMAIN page |-> [id |-> page[i], missing |-> MissingFields(page[i])]]

\* The indicators, without a period: each is a count of its own.
Candidates(filter) ==
    {p \in People : filter \in {"active", "blocked"} => person[p].account = filter}
CandidatesWithoutPlacement(filter) ==
    {p \in Candidates(filter) : person[p].employment = "unemployed"}
CandidatesWithUnknownEmployment(filter) ==
    {p \in Candidates(filter) : person[p].employment = "unknown"}
IncompleteResumes(filter) == {p \in Candidates(filter) : ~ ResumeComplete(p)}
CompaniesCounted(filter) ==
    {f \in Firms : filter \in {"active", "blocked"} => firm[f].account = filter}
ApplicationsCounted == {x \in People \X Postings : pipeline[x] # "none"}
Matches ==
    {x \in People \X Postings :
        LET common == Cardinality(person[x[1]].skills \cap posting[x[2]].skills)
            requirements == Cardinality(posting[x[2]].skills)
        IN  /\ posting[x[2]].status = "published" /\ posting[x[2]].closing >= date
            /\ firm[FirmOf[x[2]]].approved /\ firm[FirmOf[x[2]]].account = "active"
            /\ person[x[1]].account = "active"
            /\ common > 0 /\ common * 100 >= HighlightThreshold * requirements}

\* list_job_applicants, in one statement: Contacts has the several it makes.
AutomaticMatches(j) ==
    {p \in People : /\ person[p].account = "active" /\ person[p].available
                    /\ ~ HasPipeline(p, j)
                    /\ person[p].skills \cap posting[j].skills # {}
                    /\ IsAutomaticMatch(Score(posting[j].skills, person[p].skills))}

-----------------------------------------------------------------------------
\* A request takes its statements one by one, and answers after the last.

Open(v, view, who, offset, filter, first) ==
    /\ viewer[v].view = "none"
    /\ viewer' = [viewer EXCEPT ![v] =
                     [NoView EXCEPT !.view = view, !.who = who, !.offset = offset,
                                    !.filter = filter, !.got = <<first>>]]
    /\ UNCHANGED <<shown, exported, edits>>

Take(v, view, step, value) ==
    /\ viewer[v].view = view /\ Len(viewer[v].got) = step - 1
    /\ viewer' = [viewer EXCEPT ![v].got = Append(@, value)]
    /\ UNCHANGED <<shown, exported, edits>>

SearchJobs(v) ==
    LET got == viewer[v].got IN
    \/ \E p \in People, offset \in 0..1 :
          /\ person[p].account = "active"
          /\ Open(v, "search", p, offset, "any", person[p].skills)
    \/ /\ Len(got) = 1 /\ viewer[v].view = "search"
       /\ Take(v, "search", 2, SearchPage(got[1], viewer[v].offset))
    \/ /\ Len(got) = 2 /\ viewer[v].view = "search"
       /\ Take(v, "search", 3, RequiredSkills({got[2][i] : i \in DOMAIN got[2]}))

\* After the rows, one statement for the suggestions of each application that was
\* not selected.
ListMyApplications(v) ==
    LET got == viewer[v].got
        unselected == {r.job : r \in {x \in got[1] : x.status = "not_selected"}}
        answered == {got[k].job : k \in 2..Len(got)}
    IN  \/ \E p \in People :
              person[p].account = "active" /\ Open(v, "applications", p, 0, "any", MyApplications(p))
        \/ /\ viewer[v].view = "applications"
           /\ \E j \in unselected \ answered :
                 Take(v, "applications", Len(got) + 1,
                      [job |-> j, similar |-> SimilarJobs(viewer[v].who, j)])

ListCompanyJobs(v) ==
    LET got == viewer[v].got IN
    \/ \E f \in Firms :
          /\ firm[f].account = "active" /\ firm[f].approved
          /\ Open(v, "jobs", 0, 0, "any", CompanyJobs(f))
    \/ viewer[v].view = "jobs" /\ Take(v, "jobs", 2, RequiredSkills(got[1]))
    \/ viewer[v].view = "jobs" /\ Take(v, "jobs", 3, ApplicationCounts(got[1]))

ListProfessionals(v) ==
    LET got == viewer[v].got IN
    \/ \E filter \in {"complete", "incomplete", "contacted", "not_contacted"}, offset \in 0..1 :
          Open(v, "professionals", 0, offset, filter, ProfessionalPage(filter, offset))
    \/ /\ viewer[v].view = "professionals"
       /\ Take(v, "professionals", 2, guided \cap {got[1][i] : i \in DOMAIN got[1]})

ListAccounts(v) ==
    \/ \E filter \in {"complete", "incomplete", "active", "blocked"}, offset \in 0..1 :
          Open(v, "accounts", 0, offset, filter, AccountSummaries(filter, offset))
    \/ Take(v, "accounts", 2, Cardinality(FilteredCandidates(viewer[v].filter)))

\* The account's row, then each section of the résumé, then the applications.
GetAccount(v) ==
    LET p == viewer[v].who IN
    \/ \E q \in People : Open(v, "account", q, 0, "any", person[q].text)
    \/ \E step \in 2..4 :
          /\ viewer[v].view = "account"
          /\ Take(v, "account", step, person[p].section[<<"", "experiences", "education", "skills">>[step]])
    \/ /\ viewer[v].view = "account"
       /\ Take(v, "account", 5, Cardinality({j \in Postings : HasPipeline(p, j)}))

AccountMissingFields(got) ==
    MissingResumeFields(got[1], [experiences |-> got[2], education |-> got[3], skills |-> got[4]])

GetPlatformIndicators(v) ==
    LET filter == viewer[v].filter IN
    \/ \E f \in {"any", "active"} :
          Open(v, "indicators", 0, 0, f, Cardinality(Candidates(f)))
    \/ Take(v, "indicators", 2, Cardinality(CompaniesCounted(filter)))
    \/ Take(v, "indicators", 3, Cardinality(Postings))
    \/ Take(v, "indicators", 4, Cardinality(ApplicationsCounted))
    \/ Take(v, "indicators", 5, Cardinality(Matches))
    \/ Take(v, "indicators", 6, Cardinality(CandidatesWithoutPlacement(filter)))
    \/ Take(v, "indicators", 7, Cardinality(CandidatesWithUnknownEmployment(filter)))
    \/ Take(v, "indicators", 8, Cardinality(IncompleteResumes(filter)))

\* An export reads the list without pages, logs how many rows it took, and only
\* then has a file to return.
ExportAccounts(v) ==
    \/ \E filter \in {"complete", "active"} :
          Open(v, "export", 0, 0, filter, FilteredCandidates(filter))
    \/ /\ viewer[v].view = "export" /\ Len(viewer[v].got) = 1
       /\ exported' = exported \cup {[by |-> v, rows |-> Cardinality(viewer[v].got[1])]}
       /\ viewer' = [viewer EXCEPT ![v].got = Append(@, "file")]
       /\ UNCHANGED <<shown, edits>>

\* The answer, or an error before it.
CloseView(v) ==
    /\ viewer[v].view # "none"
    /\ viewer' = [viewer EXCEPT ![v] = NoView]
    /\ UNCHANGED <<shown, exported, edits>>

DirectoryNext ==
    \/ \E j \in Postings : EditPosting(j) \/ \E p \in People : MovePipeline(p, j)
    \/ \E p \in EditedPeople : EditPerson(p)
    \/ \E p \in People : RecordGuidance(p)
    \/ EditAccount \/ PassDate
    \/ \E v \in Viewers :
          \/ SearchJobs(v) \/ ListMyApplications(v) \/ ListCompanyJobs(v)
          \/ ListProfessionals(v) \/ ListAccounts(v) \/ GetAccount(v)
          \/ GetPlatformIndicators(v) \/ ExportAccounts(v) \/ CloseView(v)

DirectorySpec == DirectoryInit /\ [][DirectoryNext]_directoryVars

-----------------------------------------------------------------------------
\* The variables keep their types; what a viewer got is told by its view.
DirectoryTypeOK ==
    /\ date \in 0..LastDate
    /\ posting \in [Postings -> Posted]
    /\ firm \in [Firms -> FirmStates]
    /\ person \in [People -> Persons]
    /\ pipeline \in [People \X Postings -> Stages]
    /\ guided \subseteq People
    /\ edits \in 0..MaxEdits

\* Two rules written apart agree in every state: the completeness that filters
\* accounts in SQL and the missing fields the views show; the openness of the
\* search, of the page of a job and of the suggestions; and the matches, which
\* count every automatic match of an open job whoever its company is shown.
RulesAgree ==
    /\ \A p \in People : ResumeComplete(p) <=> MissingFields(p) = {}
    /\ \A p \in People : MissingFields(p) = {} <=> ResumeCompletionPercentage(MissingFields(p)) = 100
    /\ \A p \in People, j \in Postings :
          /\ j \in OpenJobs <=> JobIsFound(j) /\ JobDetail(p, j).open
          /\ LET similar == SimilarJobs(p, j)
             IN  \A i \in DOMAIN similar : JobDetail(p, similar[i]).applicable
          /\ p \in AutomaticMatches(j) /\ IsOpen(j)
                /\ firm[FirmOf[j]] = [account |-> "active", approved |-> TRUE]
             <=> <<p, j>> \in Matches /\ person[p].available /\ ~ HasPipeline(p, j)

Answered(v, view, statements) == viewer[v].view = view /\ Len(viewer[v].got) = statements

\* Whatever commits between the statements of a view: no page of the search
\* repeats a job; a job already applied to is never suggested; whoever is listed
\* as contacted is shown with a guidance; a file never leaves unrecorded.
ViewsHold ==
    \A v \in Viewers :
        LET got == viewer[v].got IN
        /\ Answered(v, "search", 3) =>
              \A i, j \in DOMAIN got[2] : i # j => got[2][i] # got[2][j]
        /\ viewer[v].view = "applications" =>
              \A k \in 2..Len(got) : \A i \in DOMAIN got[k].similar :
                  \A r \in got[1] : r.job # got[k].similar[i]
        /\ Answered(v, "professionals", 2) /\ viewer[v].filter = "contacted" =>
              \A i \in DOMAIN got[1] : got[1][i] \in got[2]
        /\ Answered(v, "export", 2) => [by |-> v, rows |-> Cardinality(got[1])] \in exported

\* A view during which nothing was committed is consistent: the search is in
\* the order of the matches it shows, a total covers its page, the page of an
\* account misses the fields its list says, and no segment exceeds its whole.
UndisturbedViewsAgree ==
    \A v \in Viewers :
        LET got == viewer[v].got IN
        ~ viewer[v].disturbed =>
            /\ Answered(v, "search", 3) =>
                  /\ \A j \in DOMAIN got[3] : JobDetail(viewer[v].who, j).open
                  /\ \A i, j \in DOMAIN got[2] : i < j =>
                        MatchSkills(got[3][got[2][i]], got[1]).matched
                            >= MatchSkills(got[3][got[2][j]], got[1]).matched
            /\ Answered(v, "accounts", 2) =>
                  /\ viewer[v].offset + Len(got[1]) <= got[2] \/ got[1] = <<>>
                  /\ \A i \in DOMAIN got[1] :
                        /\ viewer[v].filter = "complete" => got[1][i].missing = {}
                        /\ viewer[v].filter = "incomplete" => got[1][i].missing # {}
            /\ Answered(v, "account", 5) => AccountMissingFields(got) = MissingFields(viewer[v].who)
            /\ Answered(v, "indicators", 8) => got[6] + got[7] <= got[1] /\ got[8] <= got[1]
            /\ Answered(v, "jobs", 3) =>
                  \A j \in got[1] : got[3][j] <= Cardinality(ApplicationsCounted)

\* What the product shows is consistent.
ViewsAgree == RulesAgree /\ ViewsHold /\ UndisturbedViewsAgree

=============================================================================
