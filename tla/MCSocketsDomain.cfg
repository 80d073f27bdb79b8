\* Domain sockets and messages of more than eight bytes, each in one piece.
CONSTANTS
  Methods = {"domain"}
  Sizes = {2}
  Segment = 2
  MaxRounds = 2
SPECIFICATION Spec
INVARIANTS
  Measures
CHECK_DEADLOCK FALSE
