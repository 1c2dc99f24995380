CONSTANTS
  p1 = p1
  p2 = p2
  Proc = {p1, p2}
  Programs <- MCPrograms
  Typed <- MCTyped
  INPUT_BUF_SIZE = 2
  UART_TX_BUF_SIZE = 1
  FIFO = 2
  ConsWidth = 2
  MaxConsFaults = 1
  Hart = {h1, h2}
  Lock = {l1, l2}
SPECIFICATION MCSpec
INVARIANTS InputKept OutputKept MutualExclusion InterruptSafe
PROPERTY WritesEnd
CHECK_DEADLOCK FALSE
