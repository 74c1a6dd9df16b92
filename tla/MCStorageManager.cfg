SPECIFICATION FairSpec
CONSTANTS
  None = None
  Partial = Partial
  Mixed = Mixed
  Config = "config"
  LastGood = "lastGood"
  Paths = {"config", "lastGood"}
  main = main
  other = other
  Main = main
  Tasks = {main, other}
  CertCount = 1
  MaxVersion = 2
  Values <- Configurations
  Bad = {2}
  MaxReboots = 2
  Dwell = 1
  RtcDataKept = TRUE
  MaxFaults = 1
INVARIANTS
  RamIsOnFlash
  LastGoodIsSafe
  
PROPERTIES
  ImplementsFileStore
  CrashLoopEnds
CHECK_DEADLOCK FALSE
