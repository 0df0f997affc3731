----------------------------- MODULE MCGenerate -----------------------------
(* Instances of Generate for TLC. *)
EXTENDS Generate

CONSTANTS r1, r2

OneRun == {r1}
TwoRuns == {r1, r2}

(* Version 2 of the input does not define its last class properly. *)
LastClassBad ==
  [v \in Versions |-> IF v = 2 THEN {NumClasses} ELSE {}]

(* Version 3 is the one whose first class cannot be composed. *)
ThirdBad == [v \in Versions |-> IF v = 3 THEN {1} ELSE {}]

=============================================================================
