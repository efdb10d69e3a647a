SPECIFICATION Spec
CONSTANTS
  c1 = c1
  c2 = c2
  c3 = c3
  c4 = c4
  c5 = c5
  c6 = c6
  c7 = c7
  NoCmd = NoCmd
  Other = Other
  Cmd <- OneBroken
  Kind <- Broken
  QueueCap = 2
  SlowExchange = FALSE
INVARIANTS SearchFindsHeader
CHECK_DEADLOCK FALSE
