SPECIFICATION LostOwnerSpec
CONSTANTS
  lvgl = lvgl
  network = network
  Tasks = {lvgl, network}
  Lvgl = lvgl
  Wrap = 4
  Failsafe = 2
  MinQuiet = 1
  SettleTime = 1
INVARIANTS
  Exclusive
  ClosureHasOwner
PROPERTIES
  QuietBeforeSwitch
  SettleIsKept
  LostOwnerReopens
