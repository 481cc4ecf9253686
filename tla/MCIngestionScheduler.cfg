CONSTANTS
  Items <- OneItem
  Schedulers = {s1, s2}
  Period = 3
  LeaseTerm = 1
  Configs <- MCConfigs
  MaxTime = 2
  MaxFaults = 2
SPECIFICATION Spec
SYMMETRY Symmetry
CONSTRAINT Bounded
INVARIANTS
  OverlapNeedsExpiry
  RerunsBounded
  ReportedSuccessIsDurable
  LostPublicationNeedsFault
PROPERTIES
  ImplementsFencedLease
