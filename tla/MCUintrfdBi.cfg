CONSTANTS
  Count = 6
  Refusals = {TRUE, FALSE}
SPECIFICATION FairSpec
INVARIANTS
  Rounds
  SetupSafe
PROPERTIES
  Terminates
CHECK_DEADLOCK FALSE
