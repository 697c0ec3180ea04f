\* Two devices, two events; a snapshot fits one message.
SPECIFICATION Spec
CONSTANTS
  d1 = d1
  d2 = d2
  d3 = d3
  Gone = Gone
  Unversioned = Unversioned
  Devices <- TwoDevices
  Events <- TwoEvents
  ChunkSize = 3
  MaxRecords = 4
  MaxSnapshots = 2
  MaxSweeps = 2
  MaxCuts = 1
SYMMETRY Symmetry2
INVARIANTS
  VersionCoversRow
  NothingVanishes
PROPERTIES
  ConflictPreserved
  LocalWorkSurvives
  SnapshotAdopted
CHECK_DEADLOCK FALSE
