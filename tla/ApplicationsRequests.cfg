SPECIFICATION FairSpec
CONSTANTS
  acme = acme
  ana = ana
  cook = cook
  None = None
  Scheduler = daily
  Companies = {acme, bolt}
  Candidates = {ana, bia}
  Bystanders = {bolt, bia}
  Jobs = {cook}
  Owner <- OneOwner
  Qualifies <- EveryPair
  Requests = {r1, r2}
  Tasks = {}
  LastDay = 1
  Offered = {"publish", "submit", "withdraw", "update", "job", "account"}
INVARIANTS LockedReadsHold RecordConsistent ToldWhatHappened
PROPERTIES NoSubmissionWhileBlocked OnlyThePartiesAct ReopeningNeverMovesAnOpenJob LifecycleHolds EveryRequestEnds
