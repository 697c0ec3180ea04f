SPECIFICATION LadderFairSpec
CONSTANTS
  Records <- FiveRecords
  Invalid <- Refused
  Window = 2
  Tier1Count = 1
  Tier1Ratio = 50
  Tier2Count = 4
  Throttle = 1
  MaxArrivals = 6
  MaxUser = 1
  MaxRestarts = 1
INVARIANTS
  FloodIsBounded
PROPERTIES
  DroppedComesAgain
CHECK_DEADLOCK FALSE
