SPECIFICATION FairSpec
CONSTANTS
  c1 = c1
  c2 = c2
  c3 = c3
  c4 = c4
  c5 = c5
  c6 = c6
  c7 = c7
  NoCmd = NoCmd
  Other = Other
  Cmd <- AllCmds
  Kind <- AllKinds
  QueueCap = 2
  SlowExchange = FALSE
INVARIANTS TypeOK NoTreeMisuse NoTreeLeak DeliveredAsSent ExecutedOnce
PROPERTIES ReceiverGoesOn
CHECK_DEADLOCK FALSE
