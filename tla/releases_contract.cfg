SPECIFICATION FairSpec
CONSTANTS
  Docs = {d1, d2}
  Texts = {t1}
  Admins = {a1}
  None = None
  Slips = {}
  MaxClaims = 2
  MaxEdits = 1
  MaxFaults = 1
INVARIANTS TypeOK ClaimIsOwned ReservationsEnd ShippedIsUndoable
PROPERTIES ContractSpec ClaimsEnd
CHECK_DEADLOCK FALSE
