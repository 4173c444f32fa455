\* Isolates finish within the lease; cron, queue and isolates make progress.
CONSTANTS
  r1 = r1
  w1 = w1
  p1 = p1
  s1 = s1
  NoWorker = NoWorker
  Runs = {r1}
  Workers = {w1}
  Requests = {p1}
  Sweeps = {s1}
  Lease = 1
  BaseDelay = 1
  MaxDelay = 1
  MaxAttempts = 2
  ProcessAttempts = 2
  MaxRequests = 1
  MaxFaults = 2
  MaxClock = 6
  MaxClaimTime = 0
  MaxRunTime = 0
SPECIFICATION FairSpec
PROPERTIES
  RequestedRunsEnd
CHECK_DEADLOCK FALSE
