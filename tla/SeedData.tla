--------------------------------- MODULE SeedData ---------------------------------
(***************************************************************************)
(* The seed of a local or test database, which may run again at any time:  *)
(* every row has an identifier of its own and is inserted in order, in one *)
(* transaction, with ON CONFLICT DO NOTHING.  Its rows are ordinary rows   *)
(* to the program, which people use meanwhile once their accounts are      *)
(* linked to the identity provider.                                        *)
(***************************************************************************)
EXTENDS Schema

CONSTANTS MaxSeeds,    \* bound on the seeds that begin
          MaxUses      \* bound on what people do with the rows

ASSUME SeedAssumption == MaxSeeds \in Nat /\ MaxUses \in Nat

VARIABLES row,        \* the seed's rows: absent, there, or replaced (see RowStates)
          seed,       \* the transaction of a running seed
          subject,    \* the accounts whose row names an identity
          identity,   \* the identities the provider has for them
          linking,    \* the accounts the running linking has still to do
          uses,
          seeds

seedVars == <<row, seed, subject, identity, linking, uses, seeds>>

SeedRow(id, table, refs) == [id |-> id, table |-> table, refs |-> refs]

\* The statements of seed_database, with what each row refers to.
CandidateRows ==
    <<SeedRow("address", "address", {}),
      SeedRow("skill", "skill", {}),
      SeedRow("user-candidate", "app_user", {}),
      SeedRow("user-company", "app_user", {}),
      SeedRow("user-administrator", "app_user", {}),
      SeedRow("candidate", "candidate", {"user-candidate"}),
      SeedRow("resume", "resume", {"candidate"}),
      SeedRow("resume-skill", "resume_skill", {"resume", "skill"}),
      SeedRow("experience", "experience", {"resume"}),
      SeedRow("education", "education", {"resume"}),
      SeedRow("certification", "certification", {"resume"}),
      SeedRow("language", "language", {"resume"}),
      SeedRow("attached", "attached_certificate", {"certification"})>>
CompanyRows ==
    <<SeedRow("company", "company", {"user-company", "address"}),
      SeedRow("administrator", "administrator", {"user-administrator"}),
      SeedRow("job", "job", {"company"}),
      SeedRow("job-skill", "job_skill", {"job", "skill"}),
      SeedRow("application", "application", {"candidate", "job"}),
      SeedRow("training", "training", {}),
      SeedRow("event", "event", {"user-candidate"}),
      SeedRow("notification", "notification", {"user-candidate"})>>
SeedRows == CandidateRows \o CompanyRows
SeedIds == {SeedRows[i].id : i \in DOMAIN SeedRows}
ReferredBy(id) == SeedRows[CHOOSE i \in DOMAIN SeedRows : SeedRows[i].id = id].refs

\* The accounts that are linked to identities, in the order of TEST_USERS.
TestUsers == <<"user-candidate", "user-company", "user-administrator">>
SeedUsers == {TestUsers[i] : i \in DOMAIN TestUsers}

\* A row is there with the seed's identifier, or another row of the program
\* holds what must be unique about it: the name of a skill, the address of an
\* account, the pair of a link, the certification of a document.
RowStates == {"absent", "there", "edited", "replaced"}
Removable == {"resume-skill", "experience", "education", "certification", "attached", "job-skill"}
Replaceable == {"resume-skill", "attached", "job-skill"}
Claimable == {"skill"} \cup SeedUsers
Editable == {"resume", "experience", "education"}

SeedInit ==
    /\ row = [id \in SeedIds |-> "absent"]
    /\ seed = [next |-> 0, before |-> row]
    /\ subject = {} /\ identity = {} /\ linking = <<>>
    /\ uses = 0 /\ seeds = 0

Present(id) == row[id] \in {"there", "edited"}

-----------------------------------------------------------------------------
BeginSeed ==
    /\ seed.next = 0 /\ linking = <<>> /\ seeds < MaxSeeds
    /\ seeds' = seeds + 1
    /\ seed' = [next |-> 1, before |-> row]
    /\ UNCHANGED <<row, subject, identity, linking, uses>>

UndoSeed ==
    /\ row' = seed.before
    /\ seed' = [next |-> 0, before |-> seed.before]
    /\ UNCHANGED <<subject, identity, linking, uses, seeds>>

\* Mutant of AddIfMissing: a conflict updates the row that is there.
AddOrOverwrite ==
    LET id == SeedRows[seed.next].id IN
    /\ seed.next \in DOMAIN SeedRows
    /\ \A ref \in ReferredBy(id) : Present(ref)
    /\ row' = [row EXCEPT ![id] = "there"]
    /\ seed' = [seed EXCEPT !.next = @ + 1]
    /\ UNCHANGED <<subject, identity, linking, uses, seeds>>

\* A conflict skips the row; a reference to a row that is not there is an error.
AddIfMissing ==
    LET id == SeedRows[seed.next].id IN
    /\ seed.next \in DOMAIN SeedRows
    /\ IF row[id] # "absent" THEN UNCHANGED row
       ELSE /\ \A ref \in ReferredBy(id) : Present(ref)
            /\ row' = [row EXCEPT ![id] = "there"]
    /\ seed' = [seed EXCEPT !.next = @ + 1]
    /\ UNCHANGED <<subject, identity, linking, uses, seeds>>

FailSeed ==
    /\ seed.next \in DOMAIN SeedRows
    /\ row[SeedRows[seed.next].id] = "absent"
    /\ \E ref \in ReferredBy(SeedRows[seed.next].id) : ~ Present(ref)
    /\ UndoSeed

CrashSeed == seed.next # 0 /\ UndoSeed

CommitSeed ==
    /\ seed.next = Len(SeedRows) + 1
    /\ seed' = [next |-> 0, before |-> row]
    /\ UNCHANGED <<row, subject, identity, linking, uses, seeds>>

-----------------------------------------------------------------------------
\* The accounts: the provider is called inside one transaction of the
\* database, which it takes no part in.

BeginLinking ==
    /\ seed.next = 0 /\ linking = <<>> /\ subject # SeedUsers
    /\ linking' = TestUsers
    /\ UNCHANGED <<row, seed, subject, identity, uses, seeds>>

EnsureAccount ==
    /\ linking # <<>>
    /\ identity' = identity \cup {Head(linking)}
    /\ linking' = Tail(linking)
    /\ subject' = IF linking' = <<>> THEN {u \in SeedUsers : Present(u)} ELSE subject
    /\ UNCHANGED <<row, seed, uses, seeds>>

FailLinking ==
    /\ linking # <<>>
    /\ linking' = <<>>
    /\ \E made \in SUBSET {Head(linking)} : identity' = identity \cup made
    /\ UNCHANGED <<row, seed, subject, uses, seeds>>

-----------------------------------------------------------------------------
\* What the program does with the rows between two seeds.

Use(rows) ==
    /\ seed.next = 0 /\ linking = <<>> /\ uses < MaxUses
    /\ row' = rows
    /\ uses' = uses + 1
    /\ UNCHANGED <<seed, subject, identity, linking, seeds>>

\* Rows that refer to a removed one go with it when the reference cascades.
Cascades(id) == {id} \cup {r \in SeedIds : id \in ReferredBy(r)}
Remove ==
    \E id \in Removable :
        /\ row[id] # "absent"
        /\ Use([r \in SeedIds |-> IF r \in Cascades(id) THEN "absent" ELSE row[r]])
Replace ==
    \E id \in Replaceable :
        /\ \A ref \in ReferredBy(id) : Present(ref)
        /\ Use([row EXCEPT ![id] = "replaced"])
Claim == \E id \in Claimable : row[id] = "absent" /\ Use([row EXCEPT ![id] = "replaced"])
Edit == \E id \in Editable : Present(id) /\ Use([row EXCEPT ![id] = "edited"])

\* The bound on the seeds is reached.
SeedsEnded ==
    seed.next = 0 /\ linking = <<>> /\ seeds = MaxSeeds /\ UNCHANGED seedVars

SeedNext ==
    \/ BeginSeed \/ AddIfMissing \/ FailSeed \/ CrashSeed \/ CommitSeed
    \/ BeginLinking \/ EnsureAccount \/ FailLinking
    \/ Remove \/ Replace \/ Claim \/ Edit
    \/ SeedsEnded

SeedSpec == SeedInit /\ [][SeedNext]_seedVars

-----------------------------------------------------------------------------
\* The variables keep their types.
SeedTypeOK ==
    /\ row \in [SeedIds -> RowStates]
    /\ seed.next \in 0..(Len(SeedRows) + 1) /\ seed.before \in [SeedIds -> RowStates]
    /\ subject \subseteq SeedUsers /\ identity \subseteq SeedUsers
    /\ linking \in Seq(SeedUsers)

\* The seed is all or nothing, completes what is missing, and leaves alone what
\* people made of its rows; its statements make every reference that the
\* schema asks for; and an account names an identity only when there is one.
TableOf(id) == SeedRows[CHOOSE i \in DOMAIN SeedRows : SeedRows[i].id = id].table
SeedIsWhole ==
    /\ \A id \in SeedIds : \E table \in HeadTables :
          table.name = TableOf(id) /\ Targets(table) = {TableOf(ref) : ref \in ReferredBy(id)}
    /\ seed.next = 0 =>
          \A id \in SeedIds : Present(id) =>
              \A ref \in ReferredBy(id) : Present(ref)
    /\ seed.next = 0 => (Present("training") <=> Present("notification"))
    /\ seed.next = Len(SeedRows) + 1 => \A id \in SeedIds : row[id] # "absent"
    /\ \A id \in SeedIds : seed.next # 0 /\ seed.before[id] # "absent" => row[id] = seed.before[id]
    /\ subject \subseteq identity /\ \A u \in subject : Present(u)

=============================================================================
