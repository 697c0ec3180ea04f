\* Two devices, a conflict on a field and its resolution.  With MaxCuts = 1
\* and RowHasHistory: a crash between the two transactions of an update.
SPECIFICATION Spec
CONSTANTS
  d1 = d1
  d2 = d2
  d3 = d3
  t1 = t1
  t2 = t2
  t3 = t3
  Gone = Gone
  Devices <- TwoDevices
  Texts <- ThreeTexts
  MaxRecords = 4
  MaxCuts = 0
SYMMETRY Symmetry2
INVARIANT
  ResolutionConverges
CHECK_DEADLOCK FALSE
