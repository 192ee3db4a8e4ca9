SPECIFICATION Spec
CONSTANTS
  acme = acme
  ana = ana
  cook = cook
  None = None
  Scheduler = daily
  Companies = {acme}
  Candidates = {ana}
  Bystanders = {}
  Jobs = {cook}
  Owner <- OneOwner
  Qualifies <- EveryPair
  Requests = {r1, r2}
  Tasks = {}
  LastDay = 0
  Offered = {"publish", "submit", "job", "round"}
PROPERTY AppliesOnlyToOpenJobs
