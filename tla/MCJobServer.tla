------------------------------ MODULE MCJobServer ------------------------------
(* JobServer for TLC: symmetry for the runs that check safety only. *)
EXTENDS JobServer, TLC

CONSTANTS j1, j2, n1, n2

Symmetry == Permutations({j1, j2}) \cup Permutations({n1, n2})

================================================================================
