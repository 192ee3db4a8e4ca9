SPECIFICATION Spec
CONSTANTS
  Deliveries = {m1}
  Mailable = {m1}
  Dispatchers = {w1}
  MaxAttempts = 2
  BatchSize = 1
  LongestDelay = 60
  MaxLate = 0
  MaxFaults = 0
  None = None
INVARIANT FailedWasNotAccepted
