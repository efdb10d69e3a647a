SPECIFICATION FairSpec
CONSTANTS
  Frames = 4
  PkgCnt <- Sizes
  IdMod = 100
  Kept = 1
  NetCap = 2
  Window = 2
  Transport = {"UDP", "TCP"}
  MaxFaults = 3
  MayRestart = {"TCP"}
INVARIANTS TypeOK FewPending
PROPERTIES ImplementsDisplay 
CHECK_DEADLOCK FALSE
