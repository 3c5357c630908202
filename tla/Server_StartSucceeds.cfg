SPECIFICATION Spec
CONSTANTS
  Thread = {t1, t2}
  Main = main
  Socket = {s1, s2, s3}
  Limit = 2
INVARIANTS
  StartSucceeds
CHECK_DEADLOCK FALSE
