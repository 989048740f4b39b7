SPECIFICATION FairSpec
CONSTANTS
  o1 = o1
  o2 = o2
  Order = {o1}
  MaxRestarts = 0
  ReleaseCalled = FALSE
PROPERTY TimedOutReleased
CHECK_DEADLOCK FALSE
