------------------------------ MODULE SchemaHistory ------------------------------
(***************************************************************************)
(* The migrations, run up and down between the writes of the program: what *)
(* each revision refuses, converts and drops.  One command of Alembic      *)
(* takes any number of revisions in one transaction (env.py), so that a    *)
(* revision that refuses undoes the ones before it.                        *)
(***************************************************************************)
EXTENDS Schema, Ordering

CONSTANTS SkillIds,    \* skills by their identifiers, which are ordered
          Spellings,   \* names as people type them
          FormOf,      \* the normalized name of each spelling
          TooLong,     \* normalized names that do not fit their column
          Baseline,    \* spellings of the skills every catalogue starts with
          MaxSkills,   \* bound on the skills the program creates
          MaxWrites,   \* bound on the writes of the program
          MaxRuns      \* bound on the commands of Alembic

ASSUME HistoryAssumption ==
    /\ \A n \in Spellings : FormOf[n] # "" /\ FormOf[n] \in STRING
    /\ Baseline \subseteq Spellings /\ IsFiniteSet(Baseline)
    /\ \A a, b \in Baseline : FormOf[a] = FormOf[b] => a = b
    /\ SkillIds \subseteq Nat
    /\ Cardinality(SkillIds) >= MaxSkills + Cardinality(Baseline)
    /\ MaxWrites \in Nat /\ MaxRuns \in Nat

VARIABLES schema,      \* the database
          migration,   \* the command that is running
          recorded,    \* history: the skills last saved for a résumé and a job
          writes,
          runs

historyVars == <<schema, migration, recorded, writes, runs>>

Parents ==
    [initial |-> {}, identity |-> {"initial"}, age |-> {"identity"}, links |-> {"age"},
     closed |-> {"links"}, names |-> {"closed"}, reason |-> {"names"}, counts |-> {"reason"},
     baseline |-> {"counts"}, index |-> {"counts"}, proofs |-> {"index"},
     merge |-> {"baseline", "proofs"}, guidance |-> {"merge"}, deliveries |-> {"guidance"},
     active |-> {"deliveries"}, automatic |-> {"active"}, contact |-> {"automatic"},
     fields |-> {"contact"}]
Revisions == DOMAIN Parents

Kinds == {"hard", "soft"}
Owners == {"resume", "job"}
\* The form is empty while the table has no column for it.
Forms == {FormOf[n] : n \in Spellings} \cup {""}
Entries == [name : Spellings, kind : Kinds, form : Forms]
References == [skill : SkillIds, upper : BOOLEAN]

\* "catalog" is the rows of skill, a function on the identifiers in use;
\* "listed" the arrays of identifiers, "linked" the rows of the join tables.
EmptySchema ==
    [applied |-> {}, tables |-> {}, catalog |-> <<>>,
     listed |-> [o \in Owners |-> <<>>], linked |-> [o \in Owners |-> {}],
     users |-> FALSE, automatic |-> FALSE, attached |-> FALSE]

HistoryInit ==
    /\ schema = EmptySchema
    /\ migration = [dir |-> "none", before |-> EmptySchema]
    /\ recorded = [o \in Owners |-> {}]
    /\ writes = 0
    /\ runs = 0

Applied(r) == r \in schema.applied

-----------------------------------------------------------------------------
\* What the program writes, as the revision of its database allows.

Write(s) ==
    /\ migration.dir = "none" /\ Applied("initial") /\ writes < MaxWrites
    /\ schema' = s
    /\ writes' = writes + 1
    /\ UNCHANGED <<migration, runs>>

SkillsInUse == DOMAIN schema.catalog
WithSkill(s, id, entry) ==
    [s EXCEPT !.catalog = [i \in DOMAIN s.catalog \cup {id} |->
                              IF i = id THEN entry ELSE s.catalog[i]]]

SameSkill(a, b) == IF Applied("names") THEN FormOf[a.name] = FormOf[b.name]
                   ELSE a.name = b.name /\ a.kind = b.kind

SaveSkill ==
    \E id \in SkillIds \ SkillsInUse, n \in Spellings, k \in Kinds :
        LET entry == [name |-> n, kind |-> k,
                      form |-> IF Applied("names") THEN FormOf[n] ELSE ""]
        IN  /\ Cardinality(SkillsInUse) < MaxSkills
            /\ \A i \in SkillsInUse : ~ SameSkill(schema.catalog[i], entry)
            /\ Applied("names") => FormOf[n] \notin TooLong
            /\ Write(WithSkill(schema, id, entry))
            /\ UNCHANGED recorded

\* Before the join tables nothing checks what an array names; an identifier in
\* a job's array is text, in either case.
SaveSelection ==
    \E o \in Owners :
        IF Applied("links")
        THEN \E kept \in SUBSET SkillsInUse :
                /\ Write([schema EXCEPT !.linked[o] = kept])
                /\ recorded' = [recorded EXCEPT ![o] = kept]
        ELSE \E refs \in UNION {[1..n -> References] : n \in 0..2} :
                /\ o = "resume" => \A i \in DOMAIN refs : ~ refs[i].upper
                /\ Write([schema EXCEPT !.listed[o] = refs])
                /\ recorded' = [recorded EXCEPT ![o] = {refs[i].skill : i \in DOMAIN refs}]

SaveAccount ==
    /\ \/ Write([schema EXCEPT !.users = TRUE])
       \/ Applied("automatic") /\ \E b \in BOOLEAN : Write([schema EXCEPT !.automatic = b])
       \/ Applied("proofs") /\ Write([schema EXCEPT !.attached = TRUE])
    /\ UNCHANGED recorded

-----------------------------------------------------------------------------
\* Upgrades.

Listed(s, o) == {s.listed[o][i].skill : i \in DOMAIN s.listed[o]}
UnknownReferences(s) == (UNION {Listed(s, o) : o \in Owners}) \ DOMAIN s.catalog

\* Mutant of Readable: the query compares identifiers without lower().
ReadableAsWritten(ref) == ref

\* lower() in the query makes both cases of an identifier the same.
Readable(ref) == [ref EXCEPT !.upper = FALSE]
CopiedLinks(s, o) ==
    {id \in DOMAIN s.catalog : \E i \in DOMAIN s.listed[o] :
        Readable(s.listed[o][i]) = [skill |-> id, upper |-> FALSE]}

OutgrowTheirColumn(s) == {i \in DOMAIN s.catalog : FormOf[s.catalog[i].name] \in TooLong}
BecomeDuplicates(s) ==
    {i \in DOMAIN s.catalog : \E j \in DOMAIN s.catalog \ {i} :
        FormOf[s.catalog[i].name] = FormOf[s.catalog[j].name]}

UpgradeRefuses(s, r) ==
    \/ r = "links" /\ UnknownReferences(s) # {}
    \/ r = "names" /\ (OutgrowTheirColumn(s) # {} \/ BecomeDuplicates(s) # {})

NewTables(r) ==
    CASE r = "initial" -> InitialTables
      [] r = "links" -> JoinTables
      [] r = "guidance" -> GuidanceTable
      [] r = "deliveries" -> DeliveryTable
      [] r = "contact" -> ContactTable
      [] OTHER -> <<>>
TablesOf(r) == {NewTables(r)[i] : i \in DOMAIN NewTables(r)}

Link(s) == [s EXCEPT !.linked = [o \in Owners |-> CopiedLinks(s, o)],
                     !.listed = EmptySchema.listed]

FillNames(s) ==
    [s EXCEPT !.catalog = [i \in DOMAIN s.catalog |->
                              [s.catalog[i] EXCEPT !.form = FormOf[s.catalog[i].name]]]]

MissingBaseline(s) ==
    {n \in Baseline : \A i \in DOMAIN s.catalog : s.catalog[i].form # FormOf[n]}
WithBaseline(s, ids) ==
    [s EXCEPT !.catalog = [i \in DOMAIN s.catalog \cup {ids[n] : n \in DOMAIN ids} |->
        IF i \in DOMAIN s.catalog THEN s.catalog[i]
        ELSE LET n == CHOOSE b \in DOMAIN ids : ids[b] = i
             IN  [name |-> n, kind |-> "soft", form |-> FormOf[n]]]]

LinkProofs(s) ==
    [s EXCEPT !.attached = FALSE,
              !.tables = {t \in @ : t.name # "attached_certificate"} \cup {ProofTable}]

Upgraded(s, r) ==
    CASE r = "links" -> {Link(s)}
      [] r = "names" -> {FillNames(s)}
      [] r = "baseline" ->
            {WithBaseline(s, ids) :
                ids \in {f \in [MissingBaseline(s) -> SkillIds \ DOMAIN s.catalog] :
                            \A a, b \in DOMAIN f : f[a] = f[b] => a = b}}
      [] r = "proofs" -> {LinkProofs(s)}
      [] r = "automatic" -> {[s EXCEPT !.automatic = TRUE]}
      [] OTHER -> {s}

-----------------------------------------------------------------------------
\* Downgrades.

DowngradeRefuses(s, r) ==
    \/ r = "identity" /\ s.users
    \/ r = "names" /\ \E i, j \in DOMAIN s.catalog :
          i # j /\ s.catalog[i].name = s.catalog[j].name /\ s.catalog[i].kind = s.catalog[j].kind

InOrderOfIds(ids) == InOrder(ids, Ascending)

Unlink(s) ==
    [s EXCEPT !.linked = EmptySchema.linked,
              !.listed = [o \in Owners |->
                  LET ids == InOrderOfIds(s.linked[o])
                  IN  [i \in DOMAIN ids |-> [skill |-> ids[i], upper |-> FALSE]]]]

UnlinkProofs(s) ==
    [s EXCEPT !.tables = {t \in @ : t.name # "attached_certificate"}
                             \cup {RecordTables[1]}]

\* The downgrades of "baseline" and "automatic" leave the rows as they are; the
\* first revision drops every table with its rows.
Downgraded(s, r) ==
    CASE r = "initial" -> EmptySchema
      [] r = "links" -> Unlink(s)
      [] r = "names" -> [s EXCEPT !.catalog = [i \in DOMAIN s.catalog |->
                                                  [s.catalog[i] EXCEPT !.form = ""]]]
      [] r = "proofs" -> UnlinkProofs(s)
      [] OTHER -> s

-----------------------------------------------------------------------------
\* A command: any number of revisions, committed together or not at all.

BeginRun ==
    /\ migration.dir = "none" /\ runs < MaxRuns
    /\ \E dir \in {"up", "down"} : migration' = [dir |-> dir, before |-> schema]
    /\ runs' = runs + 1
    /\ UNCHANGED <<schema, recorded, writes>>

Rollback ==
    /\ schema' = migration.before
    /\ migration' = [dir |-> "none", before |-> EmptySchema]
    /\ UNCHANGED <<recorded, writes, runs>>

Upgrade(r) ==
    /\ migration.dir = "up"
    /\ ~ Applied(r) /\ Parents[r] \subseteq schema.applied
    /\ \/ UpgradeRefuses(schema, r) /\ Rollback
       \/ /\ ~ UpgradeRefuses(schema, r)
          /\ \E s \in Upgraded(schema, r) :
                schema' = [s EXCEPT !.applied = @ \cup {r}, !.tables = @ \cup TablesOf(r)]
          /\ UNCHANGED <<migration, recorded, writes, runs>>

Downgrade(r) ==
    /\ migration.dir = "down"
    /\ Applied(r) /\ \A child \in schema.applied : r \notin Parents[child]
    /\ \/ DowngradeRefuses(schema, r) /\ Rollback
       \/ /\ ~ DowngradeRefuses(schema, r)
          /\ schema' = [Downgraded(schema, r) EXCEPT !.applied = @ \ {r},
                                                     !.tables = @ \ TablesOf(r)]
          /\ UNCHANGED <<migration, recorded, writes, runs>>

\* What the database forgot with its tables nobody misses.
CommitRun ==
    /\ migration.dir # "none"
    /\ migration' = [dir |-> "none", before |-> EmptySchema]
    /\ recorded' = IF Applied("initial") THEN recorded ELSE [o \in Owners |-> {}]
    /\ UNCHANGED <<schema, writes, runs>>

\* The process or its connection ends.
FailRun == migration.dir # "none" /\ Rollback

\* The bound on the commands is reached.
RunsEnded == migration.dir = "none" /\ runs = MaxRuns /\ UNCHANGED historyVars

HistoryNext ==
    \/ SaveSkill \/ SaveSelection \/ SaveAccount
    \/ BeginRun \/ CommitRun \/ FailRun \/ RunsEnded
    \/ \E r \in Revisions : Upgrade(r) \/ Downgrade(r)

HistorySpec == HistoryInit /\ [][HistoryNext]_historyVars

-----------------------------------------------------------------------------
\* The variables keep their types.
HistoryTypeOK ==
    /\ schema.applied \subseteq Revisions
    /\ DOMAIN schema.catalog \subseteq SkillIds
    /\ \A i \in DOMAIN schema.catalog : schema.catalog[i] \in Entries
    /\ \A o \in Owners : /\ schema.listed[o] \in Seq(References)
                         /\ schema.linked[o] \subseteq SkillIds
    /\ {schema.users, schema.automatic, schema.attached} \subseteq BOOLEAN
    /\ migration.dir \in {"none", "up", "down"}
    /\ recorded \in [Owners -> SUBSET SkillIds]

\* Whatever is migrated up and down, and however often a run fails or refuses,
\* a résumé and a job keep exactly the skills that were last saved for them.
SelectionsSurvive ==
    migration.dir = "none" =>
        \A o \in Owners :
            recorded[o] = IF Applied("links") THEN schema.linked[o] ELSE Listed(schema, o)

\* Once names are normalized no two skills are the same, every link is to a
\* skill, the baseline is in the catalogue, and a downgrade finds nothing to
\* refuse but accounts.
CatalogStaysWhole ==
    /\ Applied("names") =>
          /\ \A i, j \in DOMAIN schema.catalog :
                i # j => schema.catalog[i].form # schema.catalog[j].form
          /\ \A i \in DOMAIN schema.catalog :
                schema.catalog[i].form = FormOf[schema.catalog[i].name]
          /\ ~ DowngradeRefuses(schema, "names")
    /\ Applied("links") => UNION {schema.linked[o] : o \in Owners} \subseteq SkillsInUse
    /\ Applied("baseline") => MissingBaseline(schema) = {}

\* The initial revision creates and drops its tables in an order that its references allow.
InitialSchemaFits ==
    CreatedInOrder(InitialTables, {}) /\ DroppedInOrder(InitialDrops, TablesOf("initial"))

\* Every table is created after, and dropped before, the ones it refers to.
TablesFit ==
    /\ ReferencesExist(schema.tables)
    /\ InitialSchemaFits
    /\ Applied("initial") <=> schema.tables # {}
    /\ schema.applied = Revisions => schema.tables = HeadTables

=============================================================================
