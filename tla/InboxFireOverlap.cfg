SPECIFICATION Spec
CONSTANTS
  f1 = f1
  f2 = f2
  Slot = {f1, f2}
  None = none
  MailCap = 1
  PAGE = 1
  MAX_RETRIES = 1
  TRIPS = 2
  TroubleCap = 2
  WhimCap = 1
SYMMETRY MCSymmetry
INVARIANTS
  TypeOK
  ReviewRowsTracked
PROPERTIES
  IsMailLog
