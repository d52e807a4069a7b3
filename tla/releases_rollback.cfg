SPECIFICATION Spec
CONSTANTS
  Docs = {d1}
  Texts = {t1, t2}
  Admins = {a1}
  None = None
  Slips = {"stale_page", "blind_abandon", "late_edit", "quick_restart"}
  MaxClaims = 2
  MaxEdits = 1
  MaxFaults = 0
PROPERTIES RollbackPutsBack RollbackSparesOthers
CHECK_DEADLOCK FALSE
