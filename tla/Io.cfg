CONSTANTS
  Worker = {w1, w2}
  Job = {j1, j2, j3}
  NoJob = NoJob
  QueueCapacity = 2
  MailboxCapacity = 2
SPECIFICATION FairSpec
INVARIANTS
  ReportedExactlyOnce
  CreditBeforeCompletion
PROPERTIES
  QuietAfterJoin
  JobsComplete
CHECK_DEADLOCK FALSE
