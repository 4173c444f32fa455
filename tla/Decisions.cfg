SPECIFICATION FairSpec
CONSTANTS
  w1 = w1
  w2 = w2
  NoWorker = NoWorker
  Workers <- MCWorkers
  MaxDecisions = 2
  MaxAttempts = 2
  MaxEdits = 1
  MaxFaults = 1
INVARIANTS DeliveredIsProjected
PROPERTIES AudienceNeverOlder LatestTakesEffect
CHECK_DEADLOCK FALSE
