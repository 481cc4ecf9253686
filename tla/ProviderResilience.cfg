SPECIFICATION FairSpec
CONSTANTS
  Callers = {c1, c2, c3}
  FailureThreshold = 2
  MinimumObservations = 3
  Window = 2
  OpenDuration = 1
  MaxConcurrent = 1
  ProbeLease = 2
  RetryAfters = {3}
  StateTTL = 3
  MaxFaults = 4
INVARIANTS
  ProbesBounded
PROPERTIES
  ClosedByNewProbe
  OpensOnEvidence
  Recovers
