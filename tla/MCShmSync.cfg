\* 45 is the largest size whose struct Sync lies in the page; 101 bytes are
\* what source/shm leaves behind for -s 100.
CONSTANTS
  Counts = {0, 1, 3}
  Sizes = {1, 45, 46, 100}
  Founds = {0, 101}
  Spuriouses = {TRUE, FALSE}
  SyncSize = 88
  Page = 4096
SPECIFICATION FairSyncSpec
INVARIANTS
  Measured
PROPERTIES
  Deadlocked
CHECK_DEADLOCK FALSE
