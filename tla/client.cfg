SPECIFICATION FairSpec

CONSTANTS
  f = f
  start = start
  stop = stop
  t1 = t1
  t2 = t2
  Transactors = {t1, t2}
  Senders = {f}
  Operations = {start, stop}
  MaxSequence = 2
  Faults = {"error", "hangup", "close", "protocol"}

INVARIANTS
  NoFalseProtocolError
  CompletionIsOwn

PROPERTIES
  TransactReturns
  LossIsReported
  SendNeverWaits

\* The client is closed, or its sequence numbers are used up.
CHECK_DEADLOCK FALSE
