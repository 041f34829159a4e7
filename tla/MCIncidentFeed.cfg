SPECIFICATION FairSpec
CONSTANTS
  MaxIncidents = 2
  MaxVersion = 2
  MaxFetches = 2
  MaxFailures = 1
INVARIANTS
  NeverBackwards
  LostOnlyInGap
  CurrentAtRest
PROPERTIES
  QueuedIsShown
