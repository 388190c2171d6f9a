SPECIFICATION Spec
CONSTANTS
  root = root  boss = boss  mia = mia
  a1 = a1  a2 = a2  a3 = a3
  Person = {root, boss, mia}
  Admin = {root, boss}
  ExactAdmin = {root}
  Lead = {mia}
  Words = {about}
  Nobody = nobody
  NoWords = nowords
  Asking = {a1, a2, a3}
  RevisionsCap = 2
CONSTRAINT MCInFlight
SYMMETRY MCSymmetry
INVARIANTS
  TypeOK
  OneReadsTheSite
PROPERTIES
  IsCardLog
  EditorsAreItsOwn
