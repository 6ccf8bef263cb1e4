CONSTANTS
  alice = alice
  bob = bob
  c1 = c1
  c2 = c2
  NoCaller = NoCaller
  NoCall = NoCall
  Callers = {alice}
  Calls = {c1, c2}
  CallerOf <- OneCaller
  Workload <- OwnerWorkload
  MayStop = FALSE
  QueueCap = 1
  MaxAttempt = 2
SPECIFICATION Spec
INVARIANT TypeOK
INVARIANT HandlersFit
INVARIANT ResourcesFollowAttempt
INVARIANT ControlFollowsAttempt
INVARIANT AuthenticationIsGreetds
PROPERTY CancelAnswerIsFinal
