SPECIFICATION FairMainSpec
CONSTANTS
  a = a
  b = b
  inc = inc
  h = h
  slash = slash
  Names <- AllNames
  Sep = slash
  Cwd <- Top
  Header <- HeaderPath
  Procs = {1, 2}
  Trees <- SomeTrees
  Targets <- Args
  Removals = {}
INVARIANTS MadeInside ExitedMeansWritten
PROPERTY EveryInvocationEnds
CHECK_DEADLOCK FALSE
