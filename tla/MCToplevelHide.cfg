SPECIFICATION FairSpec
CONSTANTS
  MaxChanges = 1
  MaxDisablers = 1
  MaxCrossings = 2
INVARIANTS
  TypeOK
  SlidingHasTimer
PROPERTIES
  SlideEnds
  AwayHides
  QueuedUnhideShows
CHECK_DEADLOCK FALSE
