CONSTANTS
  Layouts <- SmallLayouts
  Worker = {w1}
  ReaderQueues = {1, 2}
  MaxReaders = 2
SPECIFICATION FairSpec
PROPERTIES
  Completes
  FailureEnds
  CancelEnds
CHECK_DEADLOCK FALSE
