SPECIFICATION FairSpec
CONSTANT MaxCalls = 4
INVARIANT CallsAnswered
PROPERTY NoZombie
CHECK_DEADLOCK FALSE
