SPECIFICATION FairSpec
CONSTANTS
  o1 = o1
  fBacklog = fBacklog
  Order = {o1}
  Worker = {fBacklog}
  SelfHeal = TRUE
  MaxSyncs = 0
  MaxFaults = 0
  MaxEvents = 1
  Threshold = 1
  MaxBacklog = 2
CONSTANT LabelsOf <- MCLabelsOf
PROPERTY WorkerCatchesUp
