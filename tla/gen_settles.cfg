SPECIFICATION RerunSpec
CONSTANTS
  r1 = r1
  r2 = r2
  Runs <- TwoRuns
  NumClasses = 1
  MaxVersion = 4
  MaxTime = 1
  Unparsable = {1}
  Rejected <- ThirdBad
  Faults = {"backdate"}
INVARIANTS EmptiedOnlyInFlight
PROPERTIES EveryRunEnds Settles
