CONSTANTS
  Thread = {t1, t2}
  Owner = t1
  MAX_ATTEMPTS = 2
  MaxCycles = 2
SPECIFICATION Spec
INVARIANT NeverMisplaced
CHECK_DEADLOCK FALSE
