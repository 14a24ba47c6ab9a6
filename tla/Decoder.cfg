SPECIFICATION FairSpec
CONSTANTS
  Tasks = 2
  Slots = 2
  Numbers = 3
INVARIANTS ImageMatches TasksKept HandlesReleased
PROPERTY FramesKeepComing
CHECK_DEADLOCK FALSE
