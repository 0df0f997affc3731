SPECIFICATION Spec
CONSTANTS
  r1 = r1
  r2 = r2
  Runs <- OneRun
  NumClasses = 2
  MaxVersion = 2
  MaxTime = 2
  Unparsable = {}
  Rejected <- LastClassBad
  Faults = {"crash", "io", "clean"}
INVARIANTS TypeOK SkipIsSound UndisturbedRun RejectedNeverWritten
