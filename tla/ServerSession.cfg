\* Two threads dispatch the handlers; two wait cycles time out and a third may
\* be woken by the worker.
CONSTANTS
  Thread = {t1, t2}
  Owner = t1
  MAX_ATTEMPTS = 2
  MaxCycles = 2
SPECIFICATION FairSpec
INVARIANTS
  GuardedWithoutBusy
  NoLostWakeup
  OneResponse
PROPERTIES
  ClosedIsReleased
  StalledIsClosed
\* a session that has ended makes no more steps
CHECK_DEADLOCK FALSE
