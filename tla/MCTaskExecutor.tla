--------------------------- MODULE MCTaskExecutor ---------------------------
(* TaskExecutor with model values for TLC. *)
EXTENDS TaskExecutor, TLC

CONSTANTS t1, t2, c1, c2, k1

Symmetry == Permutations(Tasks) \cup Permutations(Clients)
=============================================================================
