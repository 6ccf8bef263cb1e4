CONSTANTS
  alice = alice
  bob = bob
  sway = sway
  None = None
  Users = {alice}
  Sessions = {sway}
  Slots = {1, 2}
  MaxLoads = 1
  MaxAttempt = 1
  WireCap = 5
  MaxPrompts = 1
  MayLose = FALSE
SPECIFICATION Spec
PROPERTY InputErrorSurvives
