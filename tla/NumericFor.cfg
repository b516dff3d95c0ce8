SPECIFICATION Spec
CONSTANTS
  IntBound = 4
  Heads <- MCHeads
  Assigned <- MCAssigned
  MaxRounds = 16
INVARIANTS
  CounterLaw
  RoundsReachTheLimit
  DownwardsNeverEnds
PROPERTY
  LoopEnds
