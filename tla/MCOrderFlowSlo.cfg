SPECIFICATION Spec
CONSTANTS
  o1 = o1
  o2 = o2
  Order = {o1}
  MaxRestarts = 0
  ReleaseCalled = FALSE
INVARIANT ClientErrorsOnly
CHECK_DEADLOCK FALSE
