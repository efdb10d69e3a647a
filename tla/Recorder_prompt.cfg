SPECIFICATION Spec
CONSTANTS
  Frames = 7
  Size = 2
  QueueCap = 3
  MaxFail = 1
INVARIANTS TypeOK RecordedInOrder StatusAsSent MotionKept FileWillClose
CHECK_DEADLOCK FALSE
