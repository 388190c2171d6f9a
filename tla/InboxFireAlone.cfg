SPECIFICATION FairSpec
CONSTANTS
  f1 = f1
  f2 = f2
  Slot = {f1}
  None = none
  MailCap = 2
  PAGE = 1
  MAX_RETRIES = 1
  TRIPS = 1
  TroubleCap = 1
  WhimCap = 1
INVARIANTS
  NoMailLost
PROPERTIES
  MailReachesTheSheet
