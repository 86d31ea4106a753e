CONSTANTS
  Token = {t1, t2, t3}
  Plans <- AllPlans
  Baseline = 1
  NoInstance = NoInstance
  RegistryCapacity = 3
  MailboxCapacity = 1
  MaxCommands = 1
SPECIFICATION FairSpec
CHECK_DEADLOCK FALSE
INVARIANTS
  WithinBudget
  PlannedAllocationFits
  CompletionsAccounted
  ChargedWhileUsed
  LossIsNeverSuccess
PROPERTIES
  ImplementsContract
  CallEnds
