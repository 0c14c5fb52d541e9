CONSTANTS
  rpc = rpc
  printf = printf
  None = None
  Writers <- MCWriters
  Reader <- rpc
  TxLength = 2
  RxLength = 2
  MaxString = 2
  OfferBound = 4
  HostBound = 3
SPECIFICATION FairSpec
INVARIANTS
  TypeOK
  NothingLostOrReordered
  NothingStranded
  ReceivesInOrder
PROPERTIES
  EveryAcceptedCharIsSent
  InterruptCalmsDown
  EveryQueuedCharIsParsed
\* the bounds end the exchange
CHECK_DEADLOCK FALSE
