\* Two callers that renew in time and one that may stall past its lease, or
\* send twice; every caller, request and the object's memory may be lost.
CONSTANTS
  o1 = o1
  o2 = o2
  o3 = o3
  i1 = i1
  i2 = i2
  NoOperation = NoOperation
  NoLease = NoLease
  Operation = {o1, o2, o3}
  Isolate = {i1, i2}
  IsolateOf <- MCIsolateOf
  LeaseTime = 2
  Punctual = {o1, o2}
  Resent = {o1, o3}
SPECIFICATION FairSpec
INVARIANTS
  OneAtATime
  ReceiptsNumberAdmissions
  SleepersWillWake
PROPERTIES
  LeaseEndsByHolder
  LeasePromise
  CallsEnd
CHECK_DEADLOCK FALSE
