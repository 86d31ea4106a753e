CONSTANTS
  Layouts <- AllLayouts
  Worker = {w1, w2}
  ReaderQueues = {1, 2}
  MaxReaders = 2
SPECIFICATION Spec
INVARIANTS
  ReadersSeeTheirGroup
  MemoryOutlivesUsers
  NoInternalError
  SafeReturn
CHECK_DEADLOCK FALSE
