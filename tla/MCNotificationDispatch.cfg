SPECIFICATION FairSpec
CONSTANTS
  Items = {i1, i2}
  Dispatchers = {p1, p2}
  ClaimTTL = 1
  BackoffUnit = 1
  RateLimitUnit = 2
  MaxAttempts = 2
  BatchLimit = 2
  MaxFaults = 2
  None = None
ACTION_CONSTRAINT Bounded
INVARIANTS
  AttemptsBounded
  ClosedRowsAccounted
  ResendsHaveReason
PROPERTIES
  RecordedSendIsNotRepeated
  ImplementsFencedQueue
  EveryItemSettles
