\* Two concurrent sessions, one producer of three records, two restarts, fairness.
SPECIFICATION FairSpec
CONSTANTS
  p1 = p1
  e1 = e1
  e2 = e2
  NoEngine = NoEngine
  Producers <- OneProducer
  Engines <- TwoEngines
  MaxSeq = 3
  Rejectable <- SecondOnly
  SnapshotTops <- AllTops
  RetentionCap = 1
  MaxRestarts = 2
INVARIANTS
  FrontierAccounted
  HistoryBelowFrontier
  AdvertisesAllItHolds
  MirrorNeverHides
PROPERTIES
  ImplementsOrderedDelivery
  EventuallyHeld
CHECK_DEADLOCK FALSE
