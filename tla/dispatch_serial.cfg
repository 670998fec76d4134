SPECIFICATION FairSpec
CONSTANTS
  r1 = r1
  r2 = r2
  n1 = n1
  n2 = n2
  w1 = w1
  NoRunner = NoRunner
  NoRun = NoRun
  Runs = {r1}
  Runners = {n1, n2}
  Workspaces = {w1}
  WorkspaceOf <- OneWorkspace
  Kinds <- AllRuns
  Lockable = {w1}
  Legacy = {}
  MaxJobs = 1
  MaxAttempts = 3
  MaxConcurrent = 1
  MaxLosses = 1
  MaxDrops = 0
CHECK_DEADLOCK FALSE
INVARIANTS
  TypeOK
  AppliedWasEnacted
  EnactedWasConfirmed
  EnactedWasReviewed
  TokensAreCurrent
PROPERTIES
  ImplementsLifecycle
  PendingIsPlanned
  ApplyEnds
  LockIsReleased
