SPECIFICATION FairSpec
CONSTANTS
  Workers = {w1, w2, w3}
  Plans <- OrderedPlans
  Queued = TRUE
  Width = 3
INVARIANT NoLockCycle
PROPERTY EveryoneGetsThrough
