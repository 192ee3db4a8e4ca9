-------------------------------- MODULE Services --------------------------------
(***************************************************************************)
(* The services that share no state here, each in an area of its own: a    *)
(* behaviour stays in the area its first state chose.                      *)
(***************************************************************************)
EXTENDS Contacts, NotificationInbox, Directory, SchemaHistory, SeedData

VARIABLE area
Areas == {"contacts", "inbox", "directory", "history", "seed"}

ServicesInit ==
    /\ area \in Areas
    /\ ContactInit /\ InboxInit /\ DirectoryInit /\ HistoryInit /\ SeedInit

Others(own) ==
    /\ own # "contacts" => UNCHANGED contactVars
    /\ own # "inbox" => UNCHANGED inboxVars
    /\ own # "directory" => UNCHANGED directoryVars
    /\ own # "history" => UNCHANGED historyVars
    /\ own # "seed" => UNCHANGED seedVars

ServicesNext ==
    /\ UNCHANGED area
    /\ \/ area = "contacts" /\ ContactNext /\ Others("contacts")
       \/ area = "inbox" /\ InboxNext /\ Others("inbox")
       \/ area = "directory" /\ DirectoryNext /\ Others("directory")
       \/ area = "history" /\ HistoryNext /\ Others("history")
       \/ area = "seed" /\ SeedNext /\ Others("seed")

ServicesSpec == ServicesInit /\ [][ServicesNext]_<<area, contactVars, inboxVars,
                                    directoryVars, historyVars, seedVars>>

\* Every module's variables keep their types.
TypeOK ==
    /\ area = "contacts" => ContactTypeOK
    /\ area = "inbox" => InboxTypeOK
    /\ area = "directory" => DirectoryTypeOK
    /\ area = "history" => HistoryTypeOK
    /\ area = "seed" => SeedTypeOK

\* What the product shows of its database is consistent.
WhatIsShownAgrees == area = "directory" => ViewsAgree

\* What people saved outlives migrations and seeds.
HistoryIsKept ==
    /\ area = "history" => SelectionsSurvive /\ CatalogStaysWhole /\ TablesFit
    /\ area = "seed" => SeedIsWhole

=============================================================================
