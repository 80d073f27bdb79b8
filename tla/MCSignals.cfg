CONSTANTS
  Methods = {"signal", "fifo", "pipe"}
  Leaders = {TRUE, FALSE}
  Sleeps = {TRUE, FALSE}
  Remains = {"nothing", "file", "writer"}
  Counts = {0, 1, 3}
  MaxRounds = 3
SPECIFICATION FairSpec
INVARIANTS
  Survives
  InTurn
PROPERTIES
  Answered
  LeftBehind
CHECK_DEADLOCK FALSE
