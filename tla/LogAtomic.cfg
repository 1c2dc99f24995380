CONSTANTS
  Proc = {p1, p2, p3}
  Boot = boot
  Block = {b1, b2}
  Val = {0, 1}
  MAXOPBLOCKS = 1
  LOGSIZE = 2
  LogSize = 3
  MaxCrashes = 1
SPECIFICATION LiveSpec
INVARIANT LogSafe
PROPERTIES ImplementsAtomicDisk CommitEnds RecoveryEnds
