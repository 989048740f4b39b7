SPECIFICATION FairSpec
CONSTANTS
  o1 = o1
  o2 = o2
  Order = {o1, o2}
  MaxEdits = 2
  MaxFaults = 2
  MaxEvents = 2
INVARIANTS TypeOK NewOrdersHeld
PROPERTY FlagSettles
CHECK_DEADLOCK FALSE
