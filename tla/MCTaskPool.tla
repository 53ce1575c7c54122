----------------------------- MODULE MCTaskPool -----------------------------
(* Small instances of TaskPool for TLC. *)
EXTENDS TaskPool, TLC

CONSTANTS t1, t2, t3, d1, d2

Symmetry == Permutations(Task) \cup Permutations(Drain)

=============================================================================
