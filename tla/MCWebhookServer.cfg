SPECIFICATION Spec
CONSTANTS
  fBacklog = fBacklog
  fSlow = fSlow
  Handler = {h1, h2}
  Pod = {p1}
  ConfiguredCooldown = 0
  DefaultCooldown = 2
  MaxClock = 3
CONSTANTS
  Fingerprint <- MCFingerprint
  Label <- MCLabel
  Payload <- MCPayload
SYMMETRY HandlerSymmetry
INVARIANTS TypeOK CooldownSpacing AlertsCovered
