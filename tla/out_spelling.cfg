SPECIFICATION MainSpec
CONSTANTS
  a = a
  b = b
  inc = inc
  h = h
  slash = slash
  Names <- AllNames
  Sep = slash
  Cwd <- Top
  Header <- HeaderPath
  Procs = {1}
  Trees <- SomeTrees
  Targets <- Args
  Removals = {}
INVARIANT OutputUnderBaseDir
CHECK_DEADLOCK FALSE
