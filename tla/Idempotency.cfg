\* Lost isolates, throwing operations, outlived leases and answers in doubt.
SPECIFICATION FairSpec
CONSTANTS
  a = a
  b = b
  d = d
  NoCall = NoCall
  Calls <- MCCalls
  PrintOf <- MCPrintOf
  MaxLapses = 2
  MaxFaults = 2
  MaxDoubts = 1
INVARIANTS ActsOnce AnswersAreStored
PROPERTY RequestsEnd
CHECK_DEADLOCK FALSE
