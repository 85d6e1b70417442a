--------------------------- MODULE MCCombineTool ---------------------------
(* Model values for checking CombineTool. *)
EXTENDS CombineTool
CONSTANTS u1, u2, k1, k2, new
TwoUsers == {u1, u2}
AllOrOne == {{}, {u1}}
TwoKeys == <<k1, k2>>
=============================================================================
