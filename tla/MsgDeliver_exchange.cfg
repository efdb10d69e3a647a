SPECIFICATION MCSpec
CONSTANTS
  l1 = l1
  l2 = l2
  l3 = l3
  l4 = l4
  i1 = i1
  worker = worker
  NoMsg = NoMsg
  Msg <- Msgs
  LogMsg <- Logs
  Thread <- MCThread
  Deliver = "deliver"
  Module <- MCModule
  Source <- MCSource
  Dest <- MCDest
  Prio <- MCPrio
  QueueCap = 2
  LogSlots = 3
INVARIANTS TypeOK LogIntact OnePlace PriorityOrder NoLostWakeup NothingLostWhileRunning
PROPERTIES ImplementsChannel EventuallyReleased
