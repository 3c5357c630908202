\* Three threads, constructed, started and destroyed again and again.
SPECIFICATION FairGroupSpec
CONSTANT Thread = {t1, t2, t3}
INVARIANTS
  GroupIsComplete
PROPERTIES
  DestroyEnds
  StartsUnlessCaught
CHECK_DEADLOCK FALSE
