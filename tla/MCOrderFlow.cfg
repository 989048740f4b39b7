SPECIFICATION FairSpec
CONSTANTS
  o1 = o1
  o2 = o2
  Order = {o1, o2}
  MaxRestarts = 2
  ReleaseCalled = TRUE
INVARIANTS TypeOK ReservedOnce CleanExit
PROPERTIES RequestsAnswered StopsWhenTold
CHECK_DEADLOCK FALSE
