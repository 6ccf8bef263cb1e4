CONSTANTS
  alice = alice
  bob = bob
  c1 = c1
  c2 = c2
  NoCaller = NoCaller
  NoCall = NoCall
  Callers = {alice, bob}
  Calls = {c1, c2}
  CallerOf <- TwoCallers
  Workload <- RivalWorkload
  MayStop = FALSE
  QueueCap = 1
  MaxAttempt = 2
SPECIFICATION Spec
INVARIANT ForwardsOwnCallsOnly
PROPERTY KeepsContract
PROPERTY CancelledOnlyForOwner
