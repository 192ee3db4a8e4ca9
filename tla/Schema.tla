--------------------------------- MODULE Schema ---------------------------------
(***************************************************************************)
(* The tables of the database and what their rows refer to, as the         *)
(* migrations create them.  No state: the history of the migrations and    *)
(* the seed are modules of their own.                                      *)
(***************************************************************************)
EXTENDS Naturals, Sequences, FiniteSets

Cascade(table) == [to |-> table, on |-> "cascade"]
SetNull(table) == [to |-> table, on |-> "set null"]
Restricted(table) == [to |-> table, on |-> "restrict"]
Table(name, refs) == [name |-> name, refs |-> refs]

\* The initial schema, in the order of its create_table calls.
CatalogTables ==
    <<Table("address", {}), Table("app_user", {}), Table("skill", {}), Table("training", {})>>
AccountTables ==
    <<Table("administrator", {Cascade("app_user")}),
      Table("candidate", {Cascade("app_user")}),
      Table("company", {SetNull("address"), Cascade("app_user")})>>
ActivityTables ==
    <<Table("event", {SetNull("app_user")}),
      Table("notification", {Cascade("app_user")}),
      Table("job", {Cascade("company")})>>
ResumeTable == <<Table("resume", {Cascade("candidate")})>>
ApplicationTable == <<Table("application", {Cascade("candidate"), Cascade("job")})>>
RecordTables ==
    <<Table("attached_certificate", {Cascade("resume")}),
      Table("certification", {Cascade("resume")}),
      Table("education", {Cascade("resume")}),
      Table("experience", {Cascade("resume")}),
      Table("language", {Cascade("resume")})>>
InitialTables ==
    CatalogTables \o AccountTables \o ActivityTables \o ResumeTable \o ApplicationTable
        \o RecordTables
InitialDrops ==
    <<"language", "experience", "education", "certification", "attached_certificate",
      "application", "resume", "job", "notification", "event", "company", "candidate",
      "administrator", "training", "skill", "app_user", "address">>

\* What later revisions add, and the one that moves a reference.
JoinTables ==
    <<Table("resume_skill", {Cascade("resume"), Cascade("skill")}),
      Table("job_skill", {Cascade("job"), Cascade("skill")})>>
GuidanceTable ==
    <<Table("resume_guidance", {Cascade("candidate"), Restricted("administrator")})>>
DeliveryTable == <<Table("email_delivery", {Cascade("notification")})>>
ContactTable ==
    <<Table("contact_request", {Cascade("candidate"), Cascade("company"), Cascade("job"),
                                Cascade("notification"), SetNull("app_user")})>>
ProofTable == Table("attached_certificate", {Cascade("certification")})

\* A reference is accepted only when the table it names is there already, and
\* a table is dropped only when no other one refers to it any more.
Targets(table) == {ref.to : ref \in table.refs}
NamesOf(tables) == {table.name : table \in tables}
CreatedInOrder(tables, present) ==
    \A i \in DOMAIN tables :
        Targets(tables[i]) \subseteq present \cup {tables[j].name : j \in 1..(i - 1)}
DroppedInOrder(names, tables) ==
    \A i \in DOMAIN names : \A table \in tables :
        names[i] \in Targets(table) => \E j \in 1..(i - 1) : names[j] = table.name
HeadTables ==
    LET all == InitialTables \o JoinTables \o GuidanceTable \o DeliveryTable \o ContactTable
    IN  {ProofTable} \cup {all[i] : i \in {j \in DOMAIN all : all[j].name # ProofTable.name}}

ReferencesExist(tables) == \A table \in tables : Targets(table) \subseteq NamesOf(tables)

=============================================================================
