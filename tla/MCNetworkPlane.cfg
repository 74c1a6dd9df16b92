\* Two networks, three presses into a queue of two, one save.
SPECIFICATION FairSpec
CONSTANTS
  home = home
  office = office
  none = none
  Ssids = {home, office}
  NoSsid = none
  Capacity = 2
  MaxPresses = 3
  MaxSaves = 1
INVARIANTS
  TypeOK
  SettingsAgree
  LinkIsConfigured
  MqttFollowsWifi
PROPERTIES
  RadioStaysOff
  NeverStranded
  OverrideEnds
