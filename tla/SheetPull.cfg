SPECIFICATION Spec
CONSTANTS
  ads = ads  social = social  totals = totals  upload = upload
  east = east  west = west  p1 = p1  p2 = p2
  Tab = {ads, social}
  Rollup = totals
  File = {upload}
  Steady = {ads, totals}
  Instance = {east, west}
  Request = {p1, p2}
  None = None
  StampsCap = 4
  TroubleCap = 1
CONSTRAINTS MCStart MCOneFile
SYMMETRY MCSymmetry
INVARIANTS
  TypeOK
  KeptUntilReplaced
  CleanAtRest
CHECK_DEADLOCK FALSE
