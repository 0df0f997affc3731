SPECIFICATION Spec
CONSTANTS
  Outer = Outer
  Inner = Inner
  junk = junk
  ClassNames <- TwoClasses
  MemberNames <- FiveNames
  Depth = 2
  Width <- SomeWidths
  Packages <- SomePackages
  Paths <- SomePaths
  Objects <- SomeObjects
  Junk = junk
  Times <- SomeTimes
  HexHashes <- SomeHashes
INVARIANTS TypeOK WritesItsSize ReadsBack HeaderShowsHash
CHECK_DEADLOCK FALSE
