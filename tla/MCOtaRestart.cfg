SPECIFICATION FairSpec
CONSTANTS
  http = http
  net = net
  main = main
  lvgl = lvgl
  Http = http
  Net = net
  Main = main
  Callers = {lvgl}
  MaxAsked = 3
  MaxUploads = 2
INVARIANTS
  ShutdownExcludesUpload
  GateIsTheSession
  RestartNotLost
  RestartWasAsked
PROPERTIES
  RestartComes
