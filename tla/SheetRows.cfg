SPECIFICATION Spec
CONSTANTS
  Mail <- MCMail
  Date <- MCDate
  c1 = c1
  c2 = c2
  Call = {c1, c2}
  Wants <- MCWants
  Sorter = sorter
  Blank = blank
  FirstSheets <- MCFirstSheets
  WRITE_ATTEMPTS = 2
  EditsCap = 1
CONSTRAINT MCUncrossed
SYMMETRY MCSymmetry
INVARIANTS
  TypeOK
  MarkedIsNewestFirst
PROPERTIES
  IsMailLog
  ReportsTheRows
  OneBatchLands
CHECK_DEADLOCK FALSE
