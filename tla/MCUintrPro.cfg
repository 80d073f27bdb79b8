CONSTANTS
  New = "new"
  Old = {"old"}
  Lates = {TRUE, FALSE}
SPECIFICATION FairSpec
PROPERTIES
  Notified
CHECK_DEADLOCK FALSE
