SPECIFICATION FairSpec
CONSTANTS
  a = a
  b = b
  c = c
  x = x
  None = None
  Devices <- AllDevices
  Revocations <- Chain
  Paired <- AllPairs
  Links <- ChainLine
  MaxBreaks = 1
INVARIANT AckedIsHeld
PROPERTY RevocationsSpread
