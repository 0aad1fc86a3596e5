SPECIFICATION Spec
CONSTANTS
  Last = 1
  Recorded = {{2}, {0, 1}}
PROPERTY PendingEnds
CHECK_DEADLOCK FALSE
