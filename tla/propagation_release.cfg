\* The bounded system comes to rest when its bounds are used up: no deadlock check.
SPECIFICATION Spec
CONSTANTS
  Action = {a1, a2}
  Release = {a2}
  Endpoint = {}
  None = None
  Event = {"published"}
  MaxAttempts = 1
  MaxPurgeAttempts = 1
  MaxFaults = 0
CHECK_DEADLOCK FALSE
INVARIANTS AcknowledgedCoversAll
