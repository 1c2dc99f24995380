SPECIFICATION LiveSpec
CONSTANTS
  Proc = {p1, p2}
  Block = {b1, b2, b3}
  Val = {0, 1}
  Changed = {b1}
  Nobody = Nobody
  NoBlock = NoBlock
  NBUF = 2
  Sizes = {5, 6}
INVARIANT CacheSafe
PROPERTIES ImplementsBlockStore DiskGivesBack
