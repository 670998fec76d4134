SPECIFICATION FairSpec
CONSTANTS
  j1 = j1
  a = a
  b = b
  n1 = n1
  NoRunner = NoRunner
  Jobs = {j1}
  Runners = {n1}
  Launchers = {a, b}
  RunnerOf <- MCRunnerOf
  Drainable = {n1}
  MaxJobs = 1
  LongPollMax = 1
  MaxServed = 1
  OfflineAfter = 1
  ClaimMax = 1
  MaxRare = 1
CHECK_DEADLOCK FALSE
INVARIANTS
  TypeOK
  LiveIsFresh
  NoMissedWakeup
  OneExecution
PROPERTIES
  CancelStands
  QueuedIsStarted
  LostWorkEnds
  DrainedLeaves
