\* Two devices, two events; one event fits a message.
SPECIFICATION Spec
CONSTANTS
  d1 = d1
  d2 = d2
  d3 = d3
  Gone = Gone
  Unversioned = Unversioned
  Devices <- TwoDevices
  Events <- TwoEvents
  ChunkSize = 1
  MaxRecords = 3
  MaxSnapshots = 2
  MaxSweeps = 2
  MaxCuts = 1
SYMMETRY Symmetry2
INVARIANT
  NothingVanishes
CHECK_DEADLOCK FALSE
