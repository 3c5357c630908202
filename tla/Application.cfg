\* Two threads in the group, two attempts.
SPECIFICATION FairSpec
CONSTANTS
  Thread = {t1, t2}
  Worker = worker
  m_max_reconnattempts = 2
INVARIANTS
  RunsWithinItsObject
  ProcessorOutlivesGroup
  LogOutlivesThreads
PROPERTIES
  LostThreadIsFinal
  FailureEndsProgram
CHECK_DEADLOCK FALSE
