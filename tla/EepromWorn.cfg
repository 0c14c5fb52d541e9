CONSTANTS
  PAGE_SIZE = 10
  PAGE1_BASE = 6
  EEPROM_SIZE = 3
  Data <- MCOneValue
  LogBound = 19
SPECIFICATION Spec
INVARIANTS
  TypeOK
  ReadsNeverFault
