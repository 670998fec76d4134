--------------------------- MODULE MCVcsDeliveries ---------------------------
(* Small instances of VcsDeliveries for TLC. *)
EXTENDS VcsDeliveries, TLC

CONSTANTS g1, g2, p1

(* Nothing distinguishes goroutines before they are given a job. *)
Symmetry == Permutations(Goroutines)
=============================================================================
