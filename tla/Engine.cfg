CONSTANTS
  Engine = {e1, e2}
  Caller = {c1, c2}
  NoCaller = NoCaller
  NoEngine = NoEngine
SPECIFICATION FairSpec
INVARIANTS
  OneSessionOnGpu
  UnprovenIsKept
  CancelledForThisCall
PROPERTIES
  NoWorkAfterQuarantine
  CancelEndsWork
CHECK_DEADLOCK FALSE
