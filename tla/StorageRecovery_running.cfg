SPECIFICATION Spec
CONSTANTS
  w1 = w1
  w2 = w2
  b1 = b1
  Writers = {w1, w2}
  Keeper = w1
  Backups = {b1}
  MaxRows <- FewRows
  MaxSnapshots = 1
  Cuts = {"partial"}
  Quoting = {"write"}
  Nothing = Nothing
  InUse = InUse
INVARIANTS
  RestoredWhole
PROPERTIES
  BackupsAreCurrent
  NeverOverwritten
