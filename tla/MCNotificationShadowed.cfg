SPECIFICATION Spec
CONSTANTS
  Items = {i1}
  Dispatchers = {p1, p2}
  ClaimTTL = 1
  BackoffUnit = 1
  RateLimitUnit = 2
  MaxAttempts = 3
  BatchLimit = 1
  MaxFaults = 1
  None = None
PROPERTIES
  SuccessIsReconciled
