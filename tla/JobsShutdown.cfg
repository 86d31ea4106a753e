CONSTANTS
  Job = {j1}
  NoJob = NoJob
  MaxPending = 1
  MaxRefused = 0
SPECIFICATION FairSpec
PROPERTY
  ShutdownCancels
