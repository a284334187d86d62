------------------------------ MODULE MCKernelDB ------------------------------
(* Instances of KernelDB for TLC.                                           *)
EXTENDS KernelDBProps, TLC

CONSTANTS r1, r2, r3   \* rows
RowSymmetry == Permutations(Rows)
=============================================================================
