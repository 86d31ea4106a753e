CONSTANTS
  j1 = j1
  j2 = j2
  NoJob = NoJob
  Job = {j1, j2}
  MaxCrashes = 2
  MaxFails = 1
SPECIFICATION FairSpec
INVARIANTS SuccessMeansPublished PublishedIsNotDenied OneWorker WorkIsFindable
PROPERTIES StagingOutlivesWorker CancelEnds CleanupEnds
