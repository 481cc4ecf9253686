SPECIFICATION FairSpec
CONSTANTS
  Items = {i1, i2}
  Publishers = {p1, p2}
  ClaimTTL = 2
  BackoffUnit = 1
  MaxAttempts = 2
  BatchLimit = 2
  MaxFaults = 2
  None = None
CONSTRAINT Bounded
INVARIANTS
  TypeOK
  DeadIffExhausted
  PublishedWasSent
  CountedAttemptsAudited
  ResendsNeedFaults
  LeaseProtectsBatch
PROPERTIES
  ImplementsFencedQueue
  EveryItemSettles
