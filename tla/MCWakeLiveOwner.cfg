SPECIFICATION LiveOwnerSpec
CONSTANTS
  lvgl = lvgl
  network = network
  Tasks = {lvgl}
  Lvgl = lvgl
  Wrap = 4
  Failsafe = 2
  MinQuiet = 1
  SettleTime = 1
PROPERTIES
  WakeReopens
