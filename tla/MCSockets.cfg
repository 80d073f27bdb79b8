\* One unit, more than a unit in one piece, and two pieces.
CONSTANTS
  Methods = {"tcp", "domain"}
  Sizes = {1, 2, 4}
  Segment = 2
  MaxRounds = 2
SPECIFICATION FairSpec
INVARIANTS
  Works
PROPERTIES
  Answered
  Aftermath
CHECK_DEADLOCK FALSE
