\* Resets, crashes, restarts and failing Redis commands at every step.
SPECIFICATION FairSpec
CONSTANT RedisFaults = TRUE
INVARIANTS
  ResolvedIsComplete
  ResultsDurable
  CompletedSurvives
PROPERTIES
  SnapshotsGrow
  RunEnds
