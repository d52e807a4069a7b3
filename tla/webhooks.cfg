\* The bounded system comes to rest when its bounds are used up: no deadlock check.
SPECIFICATION FairSpec
CONSTANTS
  Endpoint = {e1}
  Doc = {d1}
  Published = {d1}
  Request = {r1}
  None = None
  AutoDisableAfter = 1
  OrdinaryMaxAttempts = 1
  RetractionMaxAttempts = 2
  MaxDelivery = 2
  MaxStarted = 2
  MaxEdits = 2
  MaxFaults = 1
CHECK_DEADLOCK FALSE
INVARIANTS TypeOK PendingHasJob LostRetractionAnnounced RecoveredMeansTold LedgerTruth
PROPERTIES SettledForGood RetractionSparesHealth StampSurvivesPipeline EveryDeliverySettles EveryJobEnds
