SPECIFICATION Spec
CONSTANTS
  r1 = r1
  r2 = r2
  n1 = n1
  n2 = n2
  w1 = w1
  NoRunner = NoRunner
  NoRun = NoRun
  Runs = {r1}
  Runners = {n1}
  Workspaces = {w1}
  WorkspaceOf <- OneWorkspace
  Kinds <- PlainRuns
  Lockable = {}
  Legacy = {}
  MaxJobs = 1
  MaxAttempts = 1
  MaxConcurrent = 2
  MaxLosses = 1
  MaxDrops = 0
CHECK_DEADLOCK FALSE
INVARIANT AppliedWasEnacted
