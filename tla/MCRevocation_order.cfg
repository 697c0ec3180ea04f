SPECIFICATION FairSpec
CONSTANTS
  a = a
  b = b
  c = c
  x = x
  None = None
  Devices <- AllDevices
  Revocations <- Mutual
  Paired <- AllPairs
  Links <- MutualLine
  MaxBreaks = 1
CHECK_DEADLOCK FALSE
PROPERTY ArrivalOrderIsIrrelevant
