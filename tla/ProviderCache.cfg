SPECIFICATION FairSpec
CONSTANTS
  Nodes = {n1, n2}
  Orphan = Orphan
INVARIANTS
  OwnersFetchWhatIsMissing
PROPERTIES
  StaleIsExcused
  FlightIsFenced
  EveryRequestIsAnswered
