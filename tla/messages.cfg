SPECIFICATION FairSpec
CONSTANTS
  Lengths = {0, 4084, 4087, 4088, 4095, 4096, 5000}
  Texts = {0, 4063, 4064, 4095}
  MaxCalls = 3
INVARIANTS TypeOK WithinBuffer CutIsAnnounced ExceptionReported
PROPERTIES EveryCallReturns
CHECK_DEADLOCK FALSE
