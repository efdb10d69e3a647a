SPECIFICATION Spec
CONSTANTS
  c1 = c1
  c2 = c2
  c3 = c3
  c4 = c4
  c5 = c5
  c6 = c6
  c7 = c7
  NoCmd = NoCmd
  Other = Other
  Cmd <- ThreeCmds
  Kind <- Valid
  QueueCap = 2
  SlowExchange = TRUE
INVARIANTS NoTreeMisuse
CHECK_DEADLOCK FALSE
