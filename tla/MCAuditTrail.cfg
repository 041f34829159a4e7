\* Three events overrun the list twice; an anomaly and its event need two.
SPECIFICATION Spec
CONSTANTS
  Tools = {"tool"}
  Incidents = {"inc"}
  Wordings <- Heard
  Limit = 1
  MaxEvents = 3
INVARIANTS
  AnomalyFirst
  ListsAgree
  NothingLost
