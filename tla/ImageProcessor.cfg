\* Three connections compete for two slots: slots run out, are reused, and
\* stay with connections that close.
CONSTANTS
  Conn = {c1, c2, c3}
  QueueSize = 2
  REPTIMEOUT = 2
  None = None
SPECIFICATION FairSpec
INVARIANTS
  SlotsConserved
  StocksAreFilled
  ReplyIsOwn
PROPERTIES
  EveryRequestAnswered
  ImplementsRequest
\* every connection submits one request and the worker then idles
CHECK_DEADLOCK FALSE
