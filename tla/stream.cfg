SPECIFICATION DeliverySpec
CONSTANTS
  handler = handler
  empty = empty
  Handlers <- TwoHandlers
  EmptyFunction = empty
  MaxObjects = 3
  Sizes = {0, 1, 5}
  Hashes = {1, 2}
  CountModulus = 3
  IndexModulus = 8
  SenderVersions = {1, 2}
  ReceiverVersion = 1
INVARIANTS TypeOK InBuffer EndsAtSize NoneOverwritten RoundTrip Delivered
CHECK_DEADLOCK FALSE
