SPECIFICATION FairSpec
CONSTANTS
  a1 = a1
  u1 = u1
  u2 = u2
  f1 = f1
  c1 = c1
  c2 = c2
  Authorizers <- MCAuthorizers
  Uploaders <- MCUploaders
  Finalizers <- MCFinalizers
  Cleaners <- MCCleaners
  GrantLife = 3
  MaxGrants = 2
  MaxClock = 5
  MaxRunTime = 1
  MaxFaults = 1
INVARIANTS OneWriter
PROPERTIES ReadyHasObject ReadyIsNotRemoved AbandonedIsRemoved
CHECK_DEADLOCK FALSE
