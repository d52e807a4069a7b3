\* The bounded system comes to rest when its bounds are used up: no deadlock check.
SPECIFICATION Spec
CONSTANTS
  Endpoint = {e1}
  Doc = {d1}
  Published = {}
  Request = {r1}
  None = None
  AutoDisableAfter = 1
  OrdinaryMaxAttempts = 1
  RetractionMaxAttempts = 1
  MaxDelivery = 2
  MaxStarted = 2
  MaxEdits = 0
  MaxFaults = 1
CHECK_DEADLOCK FALSE
INVARIANTS RetractionNotSilentlyLost
