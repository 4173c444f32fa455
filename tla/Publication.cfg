\* Three operations of one event; leases and reservations may run out under
\* them, an isolate may be lost and the organizer may roll the program back.
CONSTANTS
  o1 = o1
  o2 = o2
  o3 = o3
  NoOperation = NoOperation
  Operation = {o1, o2, o3}
  Kinds <- MixedKinds
  MaxLapses = 3
  MaxFaults = 1
  MaxRollbacks = 1
SPECIFICATION Spec
INVARIANTS
  PublishesWhatWasSeen
  SuccessIsServed
  OnePending
  SerialOperationsConfirm
PROPERTIES
  HistoryOnlyGrows
  ServedNeverOlder
CHECK_DEADLOCK FALSE
