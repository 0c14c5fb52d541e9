CONSTANTS
  rpc = rpc
  printf = printf
  None = None
  Writers <- MCRpcOnly
  Reader <- rpc
  TxLength = 2
  RxLength = 1
  MaxString = 3
  OfferBound = 4
  HostBound = 1
SPECIFICATION Spec
INVARIANTS
  SuccessMeansSent
