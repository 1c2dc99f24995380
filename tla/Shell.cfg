CONSTANTS
  NPROC = 5
  NOFILE = 5
  NFILE = 4
  NPipes = 1
  PIPESIZE = 2
  Width = 2
  BufSize = 2
  Names = {"f"}
  MaxFaults = 1
  MAXARGS = 4
  Lines <- MCLines
  TestLines <- MCTestLines
SPECIFICATION Spec
INVARIANTS ParseRight OutputRight FilesExact SleepersBlocked
PROPERTY CommandEnds
CHECK_DEADLOCK FALSE
