\* Two connections of an attempt, two attempts, a BUSY before the answer.
CONSTANTS
  Conn = {c1, c2}
  m_max_reconnattempts = 2
  MaxBusy = 1
SPECIFICATION FairSpec
INVARIANTS
  ComposesInQuiet
  BufferBehindOperation
  SuccessIsEarned
PROPERTIES CommandEnds
CHECK_DEADLOCK FALSE
