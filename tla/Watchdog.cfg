\* Three threads that come and leave, three tickets.
SPECIFICATION Spec
CONSTANTS
  Thread = {t1, t2, t3}
  MaxThreads = 3
INVARIANTS
  CountIsExact
  NoFalseAlarmUnlessSkewed
PROPERTIES
  PeriodEndsWhenAllFed
