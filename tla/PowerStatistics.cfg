CONSTANTS
  TICKS = 6
  WINDOW = 2
  OVERFLOW = 60
  PER_TICK = 1
  AgeBound = 7
  PeriodBound = 3
  Records <- Waves
  None = None
  ONE_SECOND = 20
  SAMPLE_TIME = 2
  UINT16 = 11
SPECIFICATION Spec
INVARIANTS
  TypeOK
  AverageIsOfItsWindow
  PeaksSurvive
  PublishedInTime
  PeriodsTileRecords
