\* Three messages go round; five timestamps fill the counter.
CONSTANTS
  Count = 3
  Base = 10
  MaxTick = 1
  MaxValue = 54
  MaxRounds = 3
SPECIFICATION MCSpec
INVARIANTS
  TokenInvariant
  Complete
  Sums
PROPERTIES
  Progress
  Served
  Lingers
CHECK_DEADLOCK FALSE
