SPECIFICATION FairSpec
CONSTANTS
  Deliveries = {m1, other}
  Mailable = {m1}
  Dispatchers = {w1, w2}
  MaxAttempts = 3
  BatchSize = 2
  LongestDelay = 2
  MaxLate = 1
  MaxFaults = 2
  None = None
INVARIANTS TypeOK ClaimsHold OneSenderAtATime EveryCallIsAccounted
PROPERTIES SettledIsNotSent KeepsPromise EveryDeliverySettles
