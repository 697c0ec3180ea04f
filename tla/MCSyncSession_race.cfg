\* Both devices have a gap and offer at the same time.
SPECIFICATION Spec
CONSTANTS
  low = low
  high = high
  Low = low
  High = high
  Recs <- TwoRecords
  MaxPulls = 3
  MaxFaults = 0
INVARIANT
  RaceHasAWinner
CHECK_DEADLOCK FALSE
