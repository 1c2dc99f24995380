CONSTANTS
  CPU = {c1}
  NPROC = 2
  Policies = {"PBS"}
  Prio = {70}
  MaxTicks = 1
  MaxRuns = 2
SPECIFICATION Spec
INVARIANT PicksHighestPriority
CHECK_DEADLOCK FALSE
