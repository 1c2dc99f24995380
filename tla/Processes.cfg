CONSTANTS
  NPROC = 3
  MaxPid = 3
  MaxTicks = 1
  MaxSleep = 1
  KillPids = {0, 2, 3}
  c1 = c1
  c2 = c2
SPECIFICATION MCSpec
INVARIANTS NoMissedWakeup ParentsLive KilledWasNamed TieBreak RunsOnOneCpu
PROPERTY EveryoneRuns
