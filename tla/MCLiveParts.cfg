\* The breaker as constructed (three failures open it, one success closes
\* it), a window of a few ticks, outages long enough to open it twice and
\* more; two requests at the gate and every timeout but null.  No symmetry:
\* properties are temporal.
SPECIFICATION LiveSpec
CONSTANTS
  FailureThreshold = 3
  SuccessThreshold = 1
  TimeoutSeconds = 3
  MaxFailures = 7
  Patches <- AnyPatch
  Requests = {r1, r2}
  Callers = {c1}
  BaseTimeout = "positive"
  TimeoutPatches = {"elapsed", "invalid"}
INVARIANTS
  TypeOK
  UntrustedReviewed
  ModelOutputVetted
PROPERTIES
  BreakerImplementsDoc
  BreakerDriven
  Recovers
  GateOpens
