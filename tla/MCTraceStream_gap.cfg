\* A burst between the replay's copy of the trace and the subscription.
SPECIFICATION Spec
CONSTANT Clients = {c1}
INVARIANT NoStepLost
