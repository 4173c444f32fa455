\* Two isolates that may stall past their lease while they hold a claim, a
\* publisher that may stop anywhere, and one isolate lost or message doubled.
CONSTANTS
  j1 = j1
  w1 = w1
  w2 = w2
  NoWorker = NoWorker
  Jobs = {j1}
  Workers = {w1, w2}
  Lease = 2
  BaseDelay = 1
  MaxDelay = 2
  MaxAttempts = 2
  MaxRetries = 1
  MaxPublishes = 1
  MaxFaults = 1
  MaxClock = 6
  MaxClaimTime = 1
  MaxRunTime = 3
SPECIFICATION FairSpec
INVARIANTS
  ClaimsNumbered
  LeaseExclusion
  EndIsReported
  NoLostWakeup
PROPERTIES
  PromiseSpec
  QueuedJobsEnd
CHECK_DEADLOCK FALSE
