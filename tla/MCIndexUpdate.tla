---------------------------- MODULE MCIndexUpdate ----------------------------
EXTENDS IndexUpdate, TLC

CONSTANTS u1, u2, x, y

(* Updaters and contents are only compared for equality. *)
Symmetry == Permutations({u1, u2}) \cup Permutations({x, y})
=============================================================================
