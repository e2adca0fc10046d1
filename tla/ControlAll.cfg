\* Two daemons that are started three times, two connections, and a client
\* that tries again.
SPECIFICATION FairSpec
CONSTANTS
  Process = {d1, d2}
  Client = {c1}
  Connection = {k1, k2}
  None = None
  MaxStarts = 3
  CanTimeOut = TRUE
INVARIANTS
  TypeOK
  ServingIsReachable
  ExitZeroIsHandled
PROPERTIES
  RetryGetsThrough
CHECK_DEADLOCK FALSE
