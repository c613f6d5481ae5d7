-------------------------------- MODULE MCUnits --------------------------------
(* A small instance of BkrUnits: two programs that want the same unit, one *)
(* of which may open the other unit as well.                               *)
EXTENDS BkrUnits

CONSTANTS f1, f2

MCFiles  == {f1, f2}
MCMinors == [f \in MCFiles |-> IF f = f1 THEN {0} ELSE {0, 1}]
=============================================================================
