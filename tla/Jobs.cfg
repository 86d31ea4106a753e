CONSTANTS
  Job = {j1, j2}
  NoJob = NoJob
  MaxPending = 2
  MaxRefused = 2
SPECIFICATION FairSpec
INVARIANTS
  RunningIsExecuted
  FileIsCurrent
  CancelledForAReason
PROPERTIES
  FinishedIsFinal
  CancelEnds
  AcceptedEnds
  ShutdownEnds
