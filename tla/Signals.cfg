\* Two threads, two signals, three calls of lock().
CONSTANTS
  Thread = {t1, main}
  Main = main
  None = None
  MaxTicket = 3
  MaxSignals = 2
  max_attempts = 2
  max_errlogfilesize = 10
  prefix_size1 = 3
  prefix_size2 = 2
  MessageSizes = {1, 4}
SPECIFICATION Spec
INVARIANTS
  OneWriter
  LogFits
PROPERTIES
  ImplementsLock
  EverythingEnds
CHECK_DEADLOCK FALSE
