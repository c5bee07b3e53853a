SPECIFICATION FairSpec

CONSTANTS
  f = f
  start = start
  t1 = t1
  Transactors = {t1}
  Senders = {f}
  Operations = {start}
  MaxSequence = 2
  Faults = {"close"}

PROPERTIES
  CloseReleasesWaiters

\* The client is closed, or its sequence numbers are used up.
CHECK_DEADLOCK FALSE
