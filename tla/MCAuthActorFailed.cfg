CONSTANTS
  alice = alice
  bob = bob
  c1 = c1
  c2 = c2
  NoCaller = NoCaller
  NoCall = NoCall
  Callers = {alice}
  Calls = {c1, c2}
  CallerOf <- OneCaller
  Workload <- LoginWorkload
  MayStop = FALSE
  QueueCap = 1
  MaxAttempt = 1
SPECIFICATION FairSpec
PROPERTY FailedReturnsToIdle
