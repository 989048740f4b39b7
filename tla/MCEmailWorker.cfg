SPECIFICATION FairSpec
CONSTANTS
  m1 = m1
  m2 = m2
  bad = bad
  Message = {m1, m2, bad}
  Undecodable = {bad}
  MaxAckPending = 2
  MaxCopies = 2
  MaxFaults = 2
INVARIANT TypeOK
PROPERTIES ImplementsAtLeastOnce EveryMessageHandled
CHECK_DEADLOCK FALSE
