\* Three round trips: what the second one finds differs from the first.
CONSTANTS
  Methods = {"shm", "mmap"}
  New = s1
  Old = {s2}
  MaxRounds = 3
SPECIFICATION FairSpec
INVARIANTS
  Turns
  Fresh
  NoRace
PROPERTIES
  Answered
  Stranded
CHECK_DEADLOCK FALSE
