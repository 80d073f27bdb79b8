\* Three interrupts; loops that start early and late in a second.
CONSTANTS
  Count = 3
  CallsFail = TRUE
  Second = 10
  Limit = 3
  Starts = {0, 2, 4, 5, 6, 9}
  MaxPause = 2
  Latencies <- MCLatencies
  Wrap = 20
  MinInit = 9
  MaxMessages = 2
  Horizon = 12
SPECIFICATION MCSpec
INVARIANTS
  OnTime
  Summary
  InStep
  Fresh
  Quiet
PROPERTIES
  Ends
  Terminates
CHECK_DEADLOCK FALSE
