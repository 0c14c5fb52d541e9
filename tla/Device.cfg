CONSTANTS
  COEFFICIENTS = 3
  LENGTH = 5
  Halfword <- MCHalfword
  DEFAULT <- MCDefault
  UserCalibrations <- MCUserCalibrations
  Crc <- MCCrc
  NotFound = NotFound
  None = None
  STORAGE_CHUNK_SIZE = 2
  Key = {key1, key2}
  HANDLELIST_SIZE = 2
  KEYPRESS_LONG_THRESHOLD = 2
  key_handler = key_handler
  NULL = NULL
  TIME_ON = 2
  TIME_OFF = 1
  TIME_PAUSE = 3
  REPEAT = 2
  COUNTER_RANGE = 8
SPECIFICATION Spec
INVARIANTS
  TypeOK
  CalibrationIsWhole
  CalibrationSurvives
  PressIsReportedOnce
  FlashesBetweenPauses
