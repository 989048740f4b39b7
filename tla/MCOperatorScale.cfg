SPECIFICATION FairSpec
CONSTANTS
  fBacklog = fBacklog
  fFast = fFast
  fPayments = fPayments
  Worker = {fPayments}
  Hpa = {"payments-svc"}
  ConfiguredStep = 0
  MaxFaults = 2
  MaxEdits = 2
  HpaEdits = TRUE
  SelfHeal = FALSE
CONSTANTS
  LabelsOf <- MCLabelsOf
  Declared <- MCDeclared
INVARIANT BumpsByStep
PROPERTY FloorClimbs
