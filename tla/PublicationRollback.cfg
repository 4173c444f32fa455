\* One rollback of the program.
CONSTANTS
  o1 = o1
  o2 = o2
  o3 = o3
  NoOperation = NoOperation
  Operation = {o1, o2, o3}
  Kinds <- MixedKinds
  MaxLapses = 0
  MaxFaults = 0
  MaxRollbacks = 1
SPECIFICATION Spec
INVARIANT ServedIsInvalidated
CHECK_DEADLOCK FALSE
