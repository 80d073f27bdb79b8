CONSTANTS
  OldServers = {o1, o2}
  Size = 2
  OldSizes = {1, 2, 3}
  Sleeps = {TRUE, FALSE}
  Stales = {0, 1, 2, 3}
  Capacity = 3
  MaxRounds = 4
SPECIFICATION FairSpec
INVARIANTS
  Handshake
  Backlog
  Lag
PROPERTIES
  Answered
CHECK_DEADLOCK FALSE
