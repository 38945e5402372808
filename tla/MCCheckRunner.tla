--------------------------- MODULE MCCheckRunner ---------------------------
(* Model of CheckRunner for TLC: four checks, the second of which hangs.   *)
EXTENDS CheckRunner

MCHanging == {2}
=============================================================================
