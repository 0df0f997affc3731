SPECIFICATION FairSpec
CONSTANTS
  c1 = c1
  c2 = c2
  h1 = h1
  h2 = h2
  empty = empty
  ClassHashes <- TwoHashes
  Handlers <- TwoHandlers
  EmptyFunction = empty
  MaxStreams = 2
  MaxObjects = 2
  MaxChanges = 3
INVARIANTS TypeOK RunsWhatWasFound
PROPERTIES Promise EveryStreamEnds
CHECK_DEADLOCK FALSE
