\* Does every loop end?  One starts at the beginning of a second, one at its
\* end.
CONSTANTS
  Second = 10
  Limit = 3
  Starts = {0, 9}
  MaxPause = 2
  Latencies = {0, 2}
  Wrap = 20
  MinInit = 9
  MaxMessages = 1
  Horizon = 12
SPECIFICATION FairSpec
PROPERTIES
  Finishes
CHECK_DEADLOCK FALSE
