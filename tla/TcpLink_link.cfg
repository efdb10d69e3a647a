SPECIFICATION FairSpec
CONSTANTS
  b1 = b1
  b2 = b2
  NoBig = NoBig
  NoFd = NoFd
  Fd = {3, 4, 5}
  Big <- TwoBigs
  Requester <- TwoRequesters
  MaxDrops = 2
  QueueCap = 2
INVARIANTS TypeOK OneHolder AnswersGoHome NoSocketLeak
PROPERTIES AnsweredUnlessCrossed LinkRecovers
CHECK_DEADLOCK FALSE
