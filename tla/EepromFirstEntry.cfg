CONSTANTS
  PAGE_SIZE = 14
  PAGE1_BASE = 10
  EEPROM_SIZE = 2
  Data <- MCData
  LogBound = 10
SPECIFICATION Spec
INVARIANTS
  LastStoredIsReturned
