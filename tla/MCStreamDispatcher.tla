------------------------- MODULE MCStreamDispatcher -------------------------
(* An instance of StreamDispatcher for TLC. *)
EXTENDS StreamDispatcher

CONSTANTS c1, c2, h1, h2, empty

TwoHashes == {c1, c2}
TwoHandlers == {h1, h2, empty}

=============================================================================
