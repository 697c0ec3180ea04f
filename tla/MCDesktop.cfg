SPECIFICATION FairSpec
CONSTANTS
  Saves <- TwoSaves
  Syncs = 1
  None = None
  c1 = c1
  c2 = c2
INVARIANTS
  ClosedWithItsReminder
PROPERTIES
  SavesEnd
  NoOrphan
CHECK_DEADLOCK FALSE
