SPECIFICATION Spec
CONSTANTS
  absent = absent
  Absent = absent
  Documents <- SomeDocuments
INVARIANTS TypeOK EveryFieldPlaced NothingFromMalformed FailsForCause
CHECK_DEADLOCK FALSE
