CONSTANTS
  MaxTime = 99
  Rounds <- MCRounds
  QueueBound = 1
  MaxClock = 4
SPECIFICATION Spec
INVARIANTS
  TypeOK
  SegmentsFit
  TrackerIsExact
  RecordedOnceInOrder
PROPERTIES
  RoundsEnd
CHECK_DEADLOCK FALSE
