CONSTANTS
  Size = 4
  Laps = 2
  MaxLen = 4
  MaxSent = 10
SPECIFICATION Spec
INVARIANTS
  RingInvariant
  Delivered
  NoDataRace
  Occupancy
PROPERTIES
  QueueSpec
