SPECIFICATION FairSpec
CONSTANTS
  o1 = o1
  fBacklog = fBacklog
  Order = {o1}
  Worker = {fBacklog}
  SelfHeal = FALSE
  MaxSyncs = 1
  MaxFaults = 2
  MaxEvents = 1
  Threshold = 1
  MaxBacklog = 3
CONSTANT LabelsOf <- MCLabelsOf
PROPERTIES QueueStopsGrowing WorkerCatchesUp
