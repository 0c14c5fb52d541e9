CONSTANTS
  TICKS = 6
  WINDOW = 2
  OVERFLOW = 60
  PER_TICK = 1
  AgeBound = 64
  PeriodBound = 70
  Records <- Standstill
  None = None
  ONE_SECOND = 20
  SAMPLE_TIME = 2
  UINT16 = 11
SPECIFICATION Spec
INVARIANT SumsDoNotOverflow
