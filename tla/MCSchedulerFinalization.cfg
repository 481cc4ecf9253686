CONSTANTS
  Items <- TwoItems
  Schedulers = {s1, s2}
  Period = 3
  LeaseTerm = 1
  Configs <- CanonicalOnly
  MaxTime = 2
  MaxFaults = 0
SPECIFICATION Spec
SYMMETRY Symmetry
CONSTRAINT Bounded
PROPERTY RunsSavedByOwner
