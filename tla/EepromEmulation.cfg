CONSTANTS
  PAGE_SIZE = 14
  PAGE1_BASE = 10
  EEPROM_SIZE = 2
  Data <- MCData
  LogBound = 10
SPECIFICATION Spec
INVARIANTS
  ProgramSectorsIntact
  AcknowledgedWriteIsRead
PROPERTIES
  WritesAreAtomic
\* without power the device stays off
CHECK_DEADLOCK FALSE
