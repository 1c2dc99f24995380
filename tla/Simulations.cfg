SPECIFICATION MCSpec
CONSTANTS
  t1 = t1
  N = 2
  Topping = {t1}
  Menu <- MCMenu
  Inputs <- MCInputs
  MaxTime = 4
INVARIANTS CafeSafe MachineToken OneVerdict
PROPERTIES CafeCloses PreparedInFull
CHECK_DEADLOCK FALSE
