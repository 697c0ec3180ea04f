SPECIFICATION AppSpec
CONSTANTS
  Devices <- TwoDevices
  Events <- OneEvent
  Titles <- TwoTitles
  Rules <- SomeRules
  Files <- SomeFiles
  Starts <- Tuesday
  Editors <- TwoDevices
  Deltas <- Deltas01
  Gone = Gone
  Horizon = 33
  UtcShift = 1
  MaxRecords = 3
  MaxCuts = 0
  a = a
  b = b
  e1 = e1
  alien = alien
  t1 = t1
  t2 = t2
  unsupported = unsupported
INVARIANTS
  RemovesApply
CHECK_DEADLOCK FALSE
