SPECIFICATION FairSpec
CONSTANTS
  Thread = {"CAMERA", "TCP_SEND", "TCP_RECV", "DELIVER", "LOGGER"}
  QueueCap = 1
  Trouble = {"host", "camera", "memory"}
INVARIANTS TypeOK SleepIsSafe
PROPERTIES EveryThreadEnds
