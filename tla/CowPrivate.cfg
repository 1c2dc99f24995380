CONSTANTS
  NFrames = 11
  NProc = 2
  NPages = 1
  Path <- OneLeaf
  TopTables = 1
  Val = {0, 1}
  Programs <- DataOnly
  Calls = {"sbrk", "out"}
  MaxRef = 3
SPECIFICATION Spec
INVARIANT CountExact
PROPERTY ImplementsPrivateMemory
CHECK_DEADLOCK FALSE
