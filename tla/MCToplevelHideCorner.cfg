SPECIFICATION FairSpec
CONSTANTS
  MaxChanges = 1
  MaxDisablers = 1
  MaxCrossings = 2
PROPERTIES
  HiddenAtEdge
CHECK_DEADLOCK FALSE
