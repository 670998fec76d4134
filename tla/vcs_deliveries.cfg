SPECIFICATION Spec
CONSTANTS
  g1 = g1
  g2 = g2
  p1 = p1
  None = None
  Main = Main
  Goroutines = {g1, g2}
  Pulls = {p1}
  Slots = 2
  MaxCommits = 2
  MaxFailures = 1
SYMMETRY Symmetry
CHECK_DEADLOCK FALSE
INVARIANTS
  TypeOK
  HoldsItsCommit
  SupersededIsOut
  DeliveryIsRun
