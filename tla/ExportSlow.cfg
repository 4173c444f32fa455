\* Overlapping isolates and sweeps; isolates may work past their lease.
CONSTANTS
  r1 = r1
  w1 = w1
  w2 = w2
  p1 = p1
  s1 = s1
  NoWorker = NoWorker
  Runs = {r1}
  Workers = {w1, w2}
  Requests = {p1}
  Sweeps = {s1}
  Lease = 3
  BaseDelay = 1
  MaxDelay = 1
  MaxAttempts = 2
  ProcessAttempts = 2
  MaxRequests = 1
  MaxFaults = 1
  MaxClock = 4
  MaxClaimTime = 1
  MaxRunTime = 3
SPECIFICATION Spec
SYMMETRY WorkerSymmetry
INVARIANTS
  DeliveredHasEnded
  ReadyFileIsFinal
PROPERTIES
  EndedForever
CHECK_DEADLOCK FALSE
