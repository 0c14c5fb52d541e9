CONSTANTS
  CHANNELS = 3
  SUPPLY = 1
  QUEUE = 2
  SMOOTHVALUE = 4
  NEEDED = 4
  Supplies <- MCSupplies
  OFF = 10
  ON = 11
  SHUTDOWN_s = 1
  SECOND = 2
  TimeBound = 24
  None = None
  coeffs <- MCLowered
  ONE = 4
  UINT16 = 64

SPECIFICATION FairSpec

INVARIANTS
  AdcTypeOK
  ValuesAreOfTheirChannel
  OneResultAtATime
  SmoothedInRange
  DeadlineIsOfThisOutage
  WarmUpIsNoOutage

PROPERTY
  RoundsEnd

CHECK_DEADLOCK FALSE
