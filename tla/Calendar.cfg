\* Failed, repeated and overtaken hand-offs of two revisions of one session.
SPECIFICATION FairSpec
CONSTANTS
  c1 = c1
  c2 = c2
  s1 = s1
  NoCall = NoCall
  Calls <- MCCalls
  Sessions <- MCSessions
  MaxRevisions = 2
  MaxLists = 1
  MaxTroubles = 2
INVARIANTS SequencesAreGapless SuccessAgrees
PROPERTY InvitationsArrive
CHECK_DEADLOCK FALSE
