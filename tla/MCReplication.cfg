\* Three devices, four records, one crash.
SPECIFICATION Spec
CONSTANTS
  d1 = d1
  d2 = d2
  d3 = d3
  t1 = t1
  t2 = t2
  t3 = t3
  Gone = Gone
  Devices <- ThreeDevices
  Texts <- TwoTexts
  MaxRecords = 4
  MaxCuts = 1
SYMMETRY Symmetry3
INVARIANTS
  NoFalseConcurrency
  NoEditLost
  DivergenceIsVisible
CHECK_DEADLOCK FALSE
