--------------------------- MODULE MCStateVersions ---------------------------
(* Small instances of StateVersions for TLC. *)
EXTENDS StateVersions, TLC

CONSTANTS r1, r2, r3, u1

Symmetry == Permutations(Runs)
=============================================================================
