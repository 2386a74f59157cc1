---------------------------- MODULE MCKeyManager ----------------------------
(***************************************************************************)
(* Small instances of KeyManager for TLC: one key id, two request         *)
(* goroutines, one or two users, one or two version ids and four DBVersion *)
(* tokens (one more than the records and snapshots that can hold one).     *)
(***************************************************************************)
EXTENDS KeyManager, TLC

CONSTANTS u1, u2

\* defaultAccess as a server may configure it: u2 (when present) may read
\* every new key.
MCDefaultAccess == [p \in Principals |-> IF p = u2 THEN Read ELSE NoDefault]

\* Threads and tokens are interchangeable: no definition names one of them.
MCSymmetry ==
    {a @@ b : a \in Permutations(Threads), b \in Permutations(Stamps)}

=============================================================================
