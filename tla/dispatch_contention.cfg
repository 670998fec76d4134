SPECIFICATION Spec
CONSTANTS
  r1 = r1
  r2 = r2
  n1 = n1
  n2 = n2
  w1 = w1
  NoRunner = NoRunner
  NoRun = NoRun
  Runs = {r1, r2}
  Runners = {n1, n2}
  Workspaces = {w1}
  WorkspaceOf <- OneWorkspace
  Kinds <- DestroyRuns
  Lockable = {}
  Legacy = {}
  MaxJobs = 1
  MaxAttempts = 2
  MaxConcurrent = 1
  MaxLosses = 0
  MaxDrops = 1
CHECK_DEADLOCK FALSE
INVARIANTS
  LockMeansWork
  WorkMeansLock
