\* One request, two racing callers.
SPECIFICATION Spec
CONSTANTS
  Requests = {r1}
  Callers = {c1, c2}
  BaseTimeout = "positive"
  Patches = {}
INVARIANTS
  DecidedOnce
