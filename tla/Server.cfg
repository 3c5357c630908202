\* Two threads, a limit of two sockets a thread, three sockets.
SPECIFICATION FairSpec
CONSTANTS
  Thread = {t1, t2}
  Main = main
  Socket = {s1, s2, s3}
  Limit = 2
INVARIANTS
  OneAcceptChain
  WithinLimit
  ServedIsTracked
  StoppedIsEmpty
PROPERTIES
  StopReturns
CHECK_DEADLOCK FALSE
