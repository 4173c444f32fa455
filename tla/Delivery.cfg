\* Two recipients, two calls, an isolate.
CONSTANTS
  a = a
  b = b
  c1 = c1
  c2 = c2
  w1 = w1
  Recipients = {a, b}
  Calls = {c1, c2}
  Workers = {w1}
  MaxAttempts = 2
  MaxCalls = 2
  MaxClaims = 2
  MaxFaults = 1
SPECIFICATION Spec
SYMMETRY Symmetry
INVARIANTS
  SettledIsReported
  StatusIsRecorded
PROPERTIES
  HistoryKept
CHECK_DEADLOCK FALSE
