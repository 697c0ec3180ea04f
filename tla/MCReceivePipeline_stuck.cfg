\* The upgrade never comes: is a buffered record applied some day?
SPECIFICATION FairSpec
CONSTANTS
  p1 = p1
  e1 = e1
  e2 = e2
  NoEngine = NoEngine
  Producers <- OneProducer
  Engines <- OneEngine
  MaxSeq = 3
  Rejectable <- SecondOnly
  SnapshotTops <- NoSnapshots
  RetentionCap = 1
  MaxRestarts = 0
PROPERTY
  StreamNeverStuck
CHECK_DEADLOCK FALSE
