SPECIFICATION FairSpec
CONSTANTS
  Options <- AllOptions
  MaxDepth = 2
  EmitBound = 3
INVARIANTS TornOnlyWithC LimitHolds PausedWhileRead NeverLeftStopped BailOnlyIfDead
PROPERTIES DeathEndsSampling TimeLimitEnds
