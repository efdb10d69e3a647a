SPECIFICATION FairSpec
CONSTANTS
  BufCount = 2
  QueueCap = 3
INVARIANTS TypeOK CounterCountsLoans
PROPERTIES CaptureGoesOn
CHECK_DEADLOCK FALSE
