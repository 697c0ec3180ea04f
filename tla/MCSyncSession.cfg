\* Two records in every distribution, late answers, one fault, fairness.
SPECIFICATION FairSpec
CONSTANTS
  low = low
  high = high
  Low = low
  High = high
  Recs <- TwoRecords
  MaxPulls = 3
  MaxFaults = 1
INVARIANTS
  NoMutualWait
  PullCompletes
  GapHeals
PROPERTY SessionEnds
CHECK_DEADLOCK FALSE
