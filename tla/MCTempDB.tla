------------------------------ MODULE MCTempDB ------------------------------
(* Constants of the TempDB model for TLC.                                  *)
EXTENDS TempDB, TLC

CONSTANTS a, b, c

MCSymmetry == Permutations({a, b, c})
=============================================================================
