------------------------------ MODULE MCDaemon ------------------------------
(* Constants of the Daemon model for TLC.                                  *)
EXTENDS Daemon, TLC

CONSTANTS k1, k2, h1, h2, c1, c2

MCSymmetry == Permutations({k1, k2}) \cup Permutations({h1, h2})
                 \cup Permutations({c1, c2})
=============================================================================
