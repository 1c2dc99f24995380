CONSTANTS
  NFrames = 16
  NProc = 2
  NPages = 3
  Path <- OneLeaf
  TopTables = 1
  Val = {0}
  Programs <- TextGuardStack
  Calls = {"out"}
  MaxRef = 3
SPECIFICATION Spec
INVARIANT CopyoutWritesPrivate
CHECK_DEADLOCK FALSE
