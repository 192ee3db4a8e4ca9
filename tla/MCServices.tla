------------------------------- MODULE MCServices -------------------------------
EXTENDS Services, TLC

CONSTANTS acme, post, s1, s2, s3, ana, bia, desk, k1, k2

OneCompany == [j \in Jobs |-> acme]
ThreeSkills == [j \in Jobs |-> {s1, s2, s3}]
AllowedActivity == [co \in Companies |-> "allowed"]
SomePortfolios == {{}, {s1}, {s1, s2}}

TwoOwn == [n \in Notes |-> IF n = 2 THEN bia ELSE ana]
AnaReads == [r \in Readers |-> ana]

OneFirm == [j \in Postings |-> desk]
TwoJobs == [j \in Postings |-> IF j = 1 THEN {k1, k2} ELSE {k2}]
TwoPeople ==
    [p \in People |->
        [account |-> "active", text |-> [f \in ResumeTexts |-> "given"], available |-> TRUE,
         employment |-> IF p = 1 THEN "unemployed" ELSE "unknown",
         section |-> [f \in ResumeSections |-> p = 1],
         skills |-> IF p = 1 THEN {k1} ELSE {}]]
OneRefusal == [x \in People \X Postings |-> IF x = <<1, 1>> THEN "not_selected" ELSE "none"]

TwoForms == [n \in Spellings |-> IF n = "ETICA" THEN "etica" ELSE n]

Symmetry == Permutations(Callers)
===============================================================================
