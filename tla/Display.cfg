CONSTANTS
  SWITCH_SCREEN_INTERVAL = 1
  COUNT_OF_POSSIBLE_SYSSTAT_SCREENS = 2
  NoScreen = NoScreen
SPECIFICATION DisplaySpec
INVARIANTS
  DisplayTypeOK
  SysstatIndexInRange
  ReturnLeavesCustom
PROPERTIES
  CustomIsKept
  HealsWhenRpcIsQuiet
  RotationGoesOn
