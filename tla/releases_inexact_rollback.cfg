SPECIFICATION Spec
CONSTANTS
  Docs = {d1}
  Texts = {t1, t2}
  Admins = {a1}
  None = None
  Slips = {}
  MaxClaims = 2
  MaxEdits = 1
  MaxFaults = 0
PROPERTY RollbackIsExact
CHECK_DEADLOCK FALSE
