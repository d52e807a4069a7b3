\* The bounded system comes to rest when its bounds are used up: no deadlock check.
SPECIFICATION FairSpec
CONSTANTS
  Action = {a1, a2}
  Release = {a2}
  Endpoint = {e1, e2}
  None = None
  Event = {"published"}
  MaxAttempts = 2
  MaxPurgeAttempts = 2
  MaxFaults = 1
CHECK_DEADLOCK FALSE
CONSTRAINT DeliveriesAlone
INVARIANTS AcknowledgedCovers
PROPERTIES PurgeFollows EveryRecordSettles
