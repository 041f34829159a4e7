\* No deadlock check: an incident's remediation ends with its report.
SPECIFICATION PartsSpec
CONSTANTS
  BurstWindow = 1
  BurstThreshold = 3
  Kinds = {"deadlock", "gateway"}
  NamespaceOf <- MCNamespaces
  KeywordsOf <- MCKeywords
  HintOf <- MCHints
  Batches <- MCBatches
  DedupWindow = 2
  MaxClock = 3
  Readings <- MCReadings
  MaxReadings = 8
  Causes <- MCCauses
  Drafts <- MCDrafts
  Tokens = {"k1", "k2"}
  Environments <- MCEnvironments
  StoreContents <- MCContents
  Bases <- MCBases
  AllowedKeys = {"threshold", "timeout"}
  Updates <- MCUpdates
  MaxChanges = 3
  MaxIncidents = 2
  MaxVersion = 3
CHECK_DEADLOCK FALSE
INVARIANTS
  BurstAsDocumented
