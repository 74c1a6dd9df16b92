SPECIFICATION FairSpec
CONSTANTS
  None = None
  Partial = Partial
  Mixed = Mixed
  Config = "config"
  LastGood = "lastGood"
  Paths = {"config", "lastGood"}
  main = main
  other = other
  Main = main
  Tasks = {main}
  CertCount = 1
  MaxVersion = 2
  Values <- Configurations
  Bad = {2}
  MaxReboots = 2
  Dwell = 1
  RtcDataKept = FALSE
  MaxFaults = 0
PROPERTIES
  CrashLoopEnds
CHECK_DEADLOCK FALSE
