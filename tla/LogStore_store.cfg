SPECIFICATION FairSpec
CONSTANTS
  l1 = l1
  l2 = l2
  l3 = l3
  l4 = l4
  old = old
  Log <- AllLogs
  New <- FourLogs
  Earlier <- ThreeOld
  Errors <- OneError
  ItemCap = 2
  MaxDb = 1
  DeleteNum = 2
  CountMod = 16
  MaxFail = 1
INVARIANTS TypeOK SavedInOrder DbBounded
PROPERTIES UploadMade EventuallyStored
CHECK_DEADLOCK FALSE
