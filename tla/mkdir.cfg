SPECIFICATION FairSpec
CONSTANTS
  a = a
  b = b
  slash = slash
  Names <- TwoNames
  Sep = slash
  Cwd <- Top
  Procs = {1, 2}
  Trees <- SomeTrees
  Targets <- SomePaths
  Removals <- FilePaths
INVARIANTS TypeOK ReturnedMeansMade OnlyOnTheWay ThrownForCause SomeoneSucceeds RemovedByOne
PROPERTY EveryCallEnds
CHECK_DEADLOCK FALSE
