SPECIFICATION FairSpec
CONSTANTS
  fBacklog = fBacklog
  fFast = fFast
  fPayments = fPayments
  Worker = {fBacklog, fFast}
  Hpa = {"payments-svc"}
  ConfiguredStep = 0
  MaxFaults = 2
  MaxEdits = 2
  HpaEdits = TRUE
  SelfHeal = TRUE
CONSTANTS
  LabelsOf <- MCLabelsOf
  Declared <- MCDeclaredSmall
INVARIANT TypeOK
PROPERTIES BrakeLands CanaryAborted
