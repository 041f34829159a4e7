\* One event, in the words no phrase of the list matches.
SPECIFICATION Spec
CONSTANTS
  Tools = {"tool"}
  Incidents = {"inc"}
  Wordings <- Unheard
  Limit = 1
  MaxEvents = 1
INVARIANT NoRoutineDestructive
