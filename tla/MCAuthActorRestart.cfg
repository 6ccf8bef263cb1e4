CONSTANTS
  alice = alice
  bob = bob
  c1 = c1
  c2 = c2
  NoCaller = NoCaller
  NoCall = NoCall
  Callers = {alice}
  Calls = {c1}
  CallerOf <- OneCaller
  Workload <- SingleWorkload
  MayStop = FALSE
  QueueCap = 1
  MaxAttempt = 2
SPECIFICATION FairSpec
PROPERTY DisconnectReleases
PROPERTY InterruptedAttemptEnds
PROPERTY RetriesNeedClients
