-------------------------------- MODULE MCPage --------------------------------
(* Instances of Page for TLC.                                               *)
EXTENDS Page, TLC

CONSTANTS r1, r2   \* rows
RowSymmetry == Permutations(Rows)
=============================================================================
