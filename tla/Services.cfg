SPECIFICATION ServicesSpec
CONSTANTS
  acme = acme
  post = post
  s1 = s1
  s2 = s2
  s3 = s3
  ana = ana
  bia = bia
  desk = desk
  k1 = k1
  k2 = k2
  Companies = {acme}
  Professionals = {1, 2}
  Skills = {s1, s2, s3}
  Jobs = {post}
  Owner <- OneCompany
  Required <- ThreeSkills
  Activity <- AllowedActivity
  Unaddressed = {acme}
  Callers = {t1, t2}
  Portfolios <- SomePortfolios
  Editors = {1}
  MaxCalls = 3
  Nobody = Nobody
  Notes = {1, 2, 3}
  NoteUsers = {ana, bia}
  NoteOwner <- TwoOwn
  Readers = {r1}
  ReaderUser <- AnaReads
  PageLimit = 1
  MaxTime = 1
  Postings = {1, 2}
  Firms = {desk}
  FirmOf <- OneFirm
  Talents = {k1, k2}
  FirstSkills <- TwoJobs
  People = {1, 2}
  FirstPeople <- TwoPeople
  FirstPipeline <- OneRefusal
  Viewers = {v1}
  ViewLimit = 1
  EditedPeople = {1}
  EditedTexts = {"summary"}
  LastDate = 1
  MaxEdits = 2
  SkillIds = {1, 2, 3}
  Spellings = {"etica", "ETICA", "long"}
  FormOf <- TwoForms
  TooLong = {"long"}
  Baseline = {"etica"}
  MaxSkills = 2
  MaxWrites = 2
  MaxRuns = 2
  MaxSeeds = 2
  MaxUses = 2
SYMMETRY Symmetry
INVARIANTS TypeOK AuditLogIsTrue CompanyChangesAreSerial ListsEveryProfessionalOnce WalksAreComplete WhatIsShownAgrees 
PROPERTY OnlyAvailableAccountsMeet
