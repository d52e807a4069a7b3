\* The bounded system comes to rest when its bounds are used up: no deadlock check.
SPECIFICATION Spec
CONSTANTS
  Action = {a1, a2}
  Release = {}
  Endpoint = {e1, e2}
  None = None
  Event = {"published", "updated"}
  MaxAttempts = 2
  MaxPurgeAttempts = 2
  MaxFaults = 1
CHECK_DEADLOCK FALSE
CONSTRAINT OneTransition
SYMMETRY EndpointSymmetry
INVARIANTS TypeOK CompletedTruthfully CompletedAfterPurge EmittedOnce SomeoneSettles
