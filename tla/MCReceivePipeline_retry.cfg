\* A retry after the frontier passed the skipped record.
SPECIFICATION Spec
CONSTANTS
  p1 = p1
  e1 = e1
  e2 = e2
  NoEngine = NoEngine
  Producers <- OneProducer
  Engines <- OneEngine
  MaxSeq = 3
  Rejectable <- SecondOnly
  SnapshotTops <- NoSnapshots
  RetentionCap = 1
  MaxRestarts = 1
INVARIANT
  RetriedIsDurable
CHECK_DEADLOCK FALSE
