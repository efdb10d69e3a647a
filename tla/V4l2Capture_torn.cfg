SPECIFICATION Spec
CONSTANTS
  BufCount = 2
  QueueCap = 3
INVARIANT NoTornFrame
CHECK_DEADLOCK FALSE
