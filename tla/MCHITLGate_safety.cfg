\* Both races on each of two requests; every kind of timeout can be patched in.
SPECIFICATION Spec
CONSTANTS
  Requests = {r1, r2}
  Callers = {c1, c2}
  BaseTimeout = "positive"
  Patches = {"elapsed", "null", "invalid"}
SYMMETRY Symmetry
INVARIANTS
  TypeOK
  GatheredMeansDecided
  LoneVerdictHonoured
  SoleDeciderCredited
  HistoryExact
PROPERTIES
  GateContract
