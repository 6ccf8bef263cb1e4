CONSTANTS
  alice = alice
  bob = bob
  sway = sway
  None = None
  Users = {alice, bob}
  Sessions = {sway}
  Slots = {1, 2}
  MaxLoads = 3
  MaxAttempt = 2
  WireCap = 5
  MaxPrompts = 2
  MayLose = TRUE
SPECIFICATION Spec
INVARIANT TypeOK
INVARIANT InvitationsAreLive
INVARIANT ExitsOnlyAfterHandoff
INVARIANT SelectedSessionIsListed
INVARIANT CallsMatchFlags
INVARIANT ViewAgreesAtRest
PROPERTY AnswersMatchPrompts
PROPERTY NewestLoadWins
PROPERTY BeginsAwake
