\* Two threads, two starts of a program that may be killed, one signal.
CONSTANTS
  Thread = {t1, main}
  Main = main
  None = None
  Debug = TRUE
  max_queue_size = 1
  max_logfilesize = 12
  prefix_size = 3
  TextSizes = {1, 4}
  OldSizes = {0, 11}
  MaxCalls = 2
  MaxBoots = 2
  MaxSignals = 1
SPECIFICATION Spec
INVARIANTS
  FileFollowsConsole
  FileFits
PROPERTIES
  EverythingReturns
CHECK_DEADLOCK FALSE
