SPECIFICATION FairSpec
CONSTANTS
  acme = acme
  ana = ana
  cook = cook
  None = None
  Scheduler = daily
  Companies = {acme}
  Candidates = {ana}
  Bystanders = {}
  Jobs = {cook, sew}
  Owner <- OneOwner
  Qualifies <- EveryPair
  Requests = {r1}
  Tasks = {task}
  LastDay = 0
  Offered = {"publish", "submit", "withdraw", "job", "preference", "round", "crash"}
INVARIANT TypeOK
PROPERTIES LifecycleHolds EligibleEventuallyApplied
