SPECIFICATION Spec
CONSTANTS
  fBacklog = fBacklog
  fFast = fFast
  fPayments = fPayments
  Worker = {fPayments}
  Hpa = {"payments-svc"}
  ConfiguredStep = 0
  MaxFaults = 0
  MaxEdits = 0
  HpaEdits = FALSE
  SelfHeal = FALSE
CONSTANTS
  LabelsOf <- MCLabelsOf
  Declared <- MCDeclared
INVARIANT DoubleApplyConverges
