\* Two overlapping runs and cron's sweep, an isolate, two failures or losses.
SPECIFICATION FairSpec
CONSTANTS
  e1 = e1
  e2 = e2
  fit = fit
  unfit = unfit
  NoCandidate = NoCandidate
  Executors <- MCExecutors
  Candidates <- MCCandidates
  Unfit <- MCUnfit
  MaxAttempts = 2
  MaxClaims = 3
  MaxFaults = 2
INVARIANTS EndIsRecorded
PROPERTY RemindersAreSent
CHECK_DEADLOCK FALSE
