SPECIFICATION Spec
CONSTANTS
  absent = absent
  Absent = absent
  Documents <- SomeDocuments
INVARIANT SerializableAsWritten
CHECK_DEADLOCK FALSE
